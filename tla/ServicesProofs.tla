--------------------------- MODULE ServicesProofs ---------------------------
(***************************************************************************)
(* Proofs about the read path, for any number of goroutines, any keys, any *)
(* number of changes of the daemon and any time to live.                   *)
(*                                                                         *)
(* BoundedStaleness is about what can be read.  It is not inductive,       *)
(* because what a call has been answered is not in the cache yet: IInv     *)
(* says the same of the calls under way, and ties the deadline of an entry *)
(* to the time at which it was stored.                                     *)
(***************************************************************************)
EXTENDS ServicesStaleness, TLAPS

\* No version among parts was outdated before time t.
NoOlderThan(parts, t) ==
    \A i \in DOMAIN parts :
        parts[i] \notin {NoData, version} => outdated[parts[i]] >= t

CallsFresh ==
    \A p \in Proc :
        /\ asked[p] <= now
        /\ call[p].pc = "asking" => NoOlderThan(call[p].parts, asked[p])

EntriesFresh ==
    \A k \in DOMAIN items :
        /\ filled[k] <= now
        /\ NoOlderThan(items[k].value, filled[k])
        /\ ~Expired(items[k]) => stored[k] = now + items[k].left - TTL

IInv == TimedTypeOK /\ CallsFresh /\ EntriesFresh

-----------------------------------------------------------------------------
\* List and Inspect ask Docker once, GetInfo three times.
LEMMA QuestionsLen == \A k : Len(Questions(k)) \in {1, 3}
BY DEF Questions

\* An answer appended to those a call has.
LEMMA AnswerType ==
    ASSUME TypeOK, NEW p \in Proc, NEW v \in 0..MaxVersion, Unanswered(p),
           call' = [call EXCEPT ![p].parts = Append(@, v)],
           UNCHANGED <<items, version>>
    PROVE  TypeOK'
<1> DEFINE parts == Append(call[p].parts, v)
<1>1. call[p] \in Calls /\ call[p].parts \in Answers /\ call[p].key \in Key
  BY DEF TypeOK, Calls
<1>2. parts \in Answers /\ Len(parts) = Len(call[p].parts) + 1
  BY <1>1 DEF Answers
<1>3. Len(call[p].parts) \in Nat /\ Len(Questions(call[p].key)) \in Nat
  BY <1>1, QuestionsLen DEF Answers
<1>4. Len(parts) <= Len(Questions(call[p].key)) /\ call[p].pc = "asking"
  BY <1>2, <1>3 DEF Unanswered
<1>5. /\ call' \in [Proc -> Calls]
      /\ call'[p].parts = parts
      /\ call'[p].key = call[p].key
      /\ call'[p].pc = "asking"
      /\ \A q \in Proc \ {p} : call'[q] = call[q]
  <2> DEFINE r == [call[p] EXCEPT !.parts = parts]
  <2>1. call' = [call EXCEPT ![p] = r]
    OBVIOUS
  <2> HIDE DEF parts
  <2>2. /\ r \in Calls
        /\ r.parts = parts /\ r.key = call[p].key /\ r.pc = "asking"
    BY <1>1, <1>2, <1>4 DEF Calls
  <2> HIDE DEF r
  <2> QED
    BY <2>1, <2>2 DEF TypeOK
<1> QED
  BY <1>4, <1>5 DEF TypeOK

\* The calls of the services and the cache keep to their types; in particular
\* an entry always has one part for each question its key asks.
LEMMA TypeStep == TypeOK /\ [Next]_servicesVars => TypeOK'
<1> SUFFICES ASSUME TypeOK, [Next]_servicesVars PROVE TypeOK'
  OBVIOUS
<1>3. ASSUME NEW p \in Proc, Answer(p) PROVE TypeOK'
  <2>1. version \in 0..MaxVersion
    BY ServicesAssumption DEF TypeOK
  <2> QED
    BY <1>3, <2>1, AnswerType DEF Answer
<1>5. ASSUME NEW p \in Proc, DiskUsageFails(p) PROVE TypeOK'
  <2>1. NoData \in 0..MaxVersion
    BY ServicesAssumption DEF NoData
  <2> QED
    BY <1>5, <2>1, AnswerType DEF DiskUsageFails
<1> USE ServicesAssumption, TTLAssumption DEF TypeOK, Answers, Calls
<1>1. ASSUME NEW p \in Proc, NEW k \in Key, LookupHit(p, k) PROVE TypeOK'
  BY <1>1 DEF LookupHit, Readable, Get, Done
<1>2. ASSUME NEW p \in Proc, NEW k \in Key, LookupMiss(p, k) PROVE TypeOK'
  BY <1>2 DEF LookupMiss, Asking
<1>4. ASSUME NEW p \in Proc, AnswerFails(p) PROVE TypeOK'
  BY <1>4 DEF AnswerFails, Failed
<1>6. ASSUME NEW p \in Proc, Store(p) PROVE TypeOK'
  <2> DEFINE k == call[p].key
             parts == call[p].parts
  <2>1. k \in Key /\ parts \in Answers /\ Len(parts) \in Nat
    OBVIOUS
  <2>2. Len(parts) = Len(Questions(k))
    BY <1>6, <2>1, QuestionsLen DEF Store, Unanswered
  <2>3. /\ DOMAIN items' = DOMAIN items \cup {k}
        /\ items'[k] = [value |-> parts, left |-> TTL]
        /\ \A x \in DOMAIN items \ {k} : items'[x] = items[x]
    BY <1>6 DEF Store, Set
  <2>4. /\ call' \in [Proc -> Calls]
        /\ \A q \in Proc :
              /\ call'[q].parts = call[q].parts
              /\ call'[q].key = call[q].key
              /\ q # p => call'[q].pc = call[q].pc
    BY <1>6 DEF Store
  <2> HIDE DEF k, parts
  <2>5. \A x \in DOMAIN items' :
            /\ items'[x] \in [value : Answers, left : Int]
            /\ Len(items'[x].value) = Len(Questions(x))
    BY <2>1, <2>2, <2>3
  <2>6. \A q \in Proc :
            /\ Len(call'[q].parts) <= Len(Questions(call'[q].key))
            /\ call'[q].pc = "done" =>
                  Len(call'[q].parts) = Len(Questions(call'[q].key))
    <3> TAKE q \in Proc
    <3>1. CASE q = p
      BY <2>1, <2>2, <2>4, <3>1 DEF k, parts
    <3>2. CASE q # p
      BY <2>4, <3>2
    <3> QED
      BY <3>1, <3>2
  <2> QED
    BY <1>6, <2>1, <2>3, <2>4, <2>5, <2>6 DEF Store
<1>7. ASSUME NEW p \in Proc, Return(p) PROVE TypeOK'
  BY <1>7 DEF Return, Idle
<1>8. CASE InvalidateCache
  BY <1>8 DEF InvalidateCache, InvalidateAll, NoEntries
<1>9. CASE Cleanup
  BY <1>9 DEF Cleanup, Sweep, Without
<1>10. CASE DaemonChange
  BY <1>10 DEF DaemonChange
<1>11. CASE Tick
  <2>1. /\ DOMAIN items' = DOMAIN items
        /\ \A k \in DOMAIN items :
              /\ items'[k].value = items[k].value
              /\ items'[k] \in [value : Answers, left : Int]
    BY <1>11 DEF Tick, Elapse
  <2> QED
    BY <1>11, <2>1 DEF Tick
<1>12. CASE UNCHANGED servicesVars
  BY <1>12 DEF servicesVars
<1> QED
  BY <1>1, <1>2, <1>3, <1>4, <1>5, <1>6, <1>7, <1>8, <1>9, <1>10, <1>11, <1>12
     DEF Next, CallProgress

\* Nobody is in a call when the program starts.
LEMMA InitType == Init => TypeOK
<1> SUFFICES ASSUME Init PROVE TypeOK
  OBVIOUS
<1>1. Len(<<>>) = 0
  OBVIOUS
<1>2. Idle \in Calls /\ Idle.pc = "idle" /\ Len(Idle.parts) = 0
  BY <1>1, ServicesAssumption DEF Idle, Calls, Answers
<1>3. \A p \in Proc : call[p] = Idle
  BY DEF Init
<1>4. \A p \in Proc :
          /\ Len(call[p].parts) <= Len(Questions(call[p].key))
          /\ call[p].pc # "done"
  <2> HIDE DEF Idle
  <2> QED
    BY <1>2, <1>3, QuestionsLen
<1> QED
  BY <1>2, <1>4, ServicesAssumption DEF Init, TypeOK, NoEntries

\* Every call and every entry keep their shape: what is stored for a key is one
\* answer for each question the key asks, however calls overlap.
THEOREM TypeCorrect == Spec => []TypeOK
BY InitType, TypeStep, PTL DEF Spec

\* The added variables only observe.
LEMMA TimedStep == [TimedNext]_stalenessVars => [Next]_servicesVars
BY DEF TimedNext, TimedLookupMiss, TimedStore, TimedDaemonChange, TimedTick,
   TimedOther, Next, CallProgress, stalenessVars, servicesVars

\* The clock and the record of when things happened stay natural numbers.
LEMMA TimedTypeStep == TimedTypeOK /\ [TimedNext]_stalenessVars => TimedTypeOK'
<1> SUFFICES ASSUME TimedTypeOK, [TimedNext]_stalenessVars PROVE TimedTypeOK'
  OBVIOUS
<1>1. TypeOK'
  BY TimedStep, TypeStep DEF TimedTypeOK
<1> DEFINE TimesOK == /\ now \in Nat
                      /\ outdated \in [1..MaxVersion -> Nat]
                      /\ asked \in [Proc -> Nat]
                      /\ filled \in [Key -> Nat]
                      /\ stored \in [Key -> Nat]
<1>2. TimesOK
  BY DEF TimedTypeOK
<1>3. ASSUME NEW p \in Proc, NEW k \in Key, TimedLookupMiss(p, k) PROVE TimesOK'
  BY <1>2, <1>3 DEF TimedLookupMiss
<1>4. ASSUME NEW p \in Proc, TimedStore(p) PROVE TimesOK'
  BY <1>2, <1>4 DEF TimedStore
<1>5. ASSUME TimedDaemonChange PROVE TimesOK'
  BY <1>2, <1>5 DEF TimedDaemonChange
<1>6. ASSUME TimedTick PROVE TimesOK'
  BY <1>2, <1>6 DEF TimedTick
<1>7. ASSUME TimedOther \/ UNCHANGED stalenessVars PROVE TimesOK'
  BY <1>2, <1>7 DEF TimedOther, timeVars, stalenessVars
<1>8. TimesOK'
  BY <1>3, <1>4, <1>5, <1>6, <1>7 DEF TimedNext
<1> QED
  BY <1>1, <1>8 DEF TimedTypeOK

-----------------------------------------------------------------------------
\* The elements of a sequence are of its type.
LEMMA ElementOf ==
    ASSUME NEW T, NEW s \in Seq(T), NEW i \in DOMAIN s PROVE s[i] \in T
OBVIOUS

\* A change of the daemon outdates a version now, not earlier.
LEMMA ChangeKeepsFresh ==
    ASSUME TimedTypeOK, TimedDaemonChange, NEW parts \in Answers, NEW t \in Nat,
           t <= now, NoOlderThan(parts, t)
    PROVE  NoOlderThan(parts, t)'
<1> SUFFICES ASSUME NEW i \in DOMAIN parts, parts[i] \notin {NoData, version'}
             PROVE  outdated'[parts[i]] >= t
  BY DEF NoOlderThan, NoData
<1>1. parts[i] \in 1..MaxVersion
  <2>1. parts[i] \in 0..MaxVersion
    BY ElementOf DEF Answers
  <2> QED
    BY <2>1, ServicesAssumption DEF NoData
<1>2. outdated' = [outdated EXCEPT ![version] = now]
  BY DEF TimedDaemonChange
<1>3. CASE parts[i] = version
  BY <1>1, <1>2, <1>3 DEF TimedTypeOK
<1>4. CASE parts[i] # version
  BY <1>1, <1>2, <1>4 DEF TimedTypeOK, NoOlderThan
<1> QED
  BY <1>3, <1>4

\* Docker answers from the state it is in.
LEMMA AnswerIsFresh ==
    ASSUME NEW parts \in Answers, NEW t \in Nat, NEW v \in {NoData, version},
           NoOlderThan(parts, t)
    PROVE  NoOlderThan(Append(parts, v), t)
BY DEF NoOlderThan, Answers

\* What a call has been answered was current when it asked, or later.
LEMMA CallsStep ==
    TimedTypeOK /\ CallsFresh /\ [TimedNext]_stalenessVars => CallsFresh'
<1> SUFFICES ASSUME TimedTypeOK, CallsFresh, [TimedNext]_stalenessVars,
                    NEW q \in Proc
             PROVE  /\ asked'[q] <= now'
                    /\ call'[q].pc = "asking" =>
                          NoOlderThan(call[q].parts, asked[q])'
  BY DEF CallsFresh
<1>0. /\ call \in [Proc -> Calls] /\ asked[q] \in Nat /\ now \in Nat
      /\ call[q].parts \in Answers
      /\ asked[q] <= now
      /\ call[q].pc = "asking" => NoOlderThan(call[q].parts, asked[q])
  BY DEF TimedTypeOK, TypeOK, Calls, CallsFresh
<1>1. ASSUME NEW p \in Proc, NEW k \in Key, TimedLookupMiss(p, k)
      PROVE  /\ asked'[q] <= now'
             /\ call'[q].pc = "asking" => NoOlderThan(call[q].parts, asked[q])'
  <2>1. CASE q = p
    <3>1. call'[q].parts = <<>> /\ asked'[q] = now /\ now' = now
      BY <1>0, <1>1, <2>1 DEF TimedLookupMiss, LookupMiss, Asking, TimedTypeOK
    <3> QED
      BY <1>0, <3>1 DEF NoOlderThan
  <2>2. CASE q # p
    <3>1. /\ call'[q] = call[q] /\ asked'[q] = asked[q] /\ now' = now
          /\ version' = version /\ outdated' = outdated
      BY <1>0, <1>1, <2>2 DEF TimedLookupMiss, LookupMiss, TimedTypeOK
    <3> QED
      BY <1>0, <3>1 DEF NoOlderThan
  <2> QED
    BY <2>1, <2>2
<1>2. CASE TimedDaemonChange
  <2>1. call' = call /\ asked' = asked /\ now' = now
    BY <1>2 DEF TimedDaemonChange, DaemonChange
  <2>2. NoOlderThan(call[q].parts, asked[q]) =>
            \A i \in DOMAIN call[q].parts :
                call[q].parts[i] \notin {NoData, version'} =>
                    outdated'[call[q].parts[i]] >= asked[q]
    BY <1>0, <1>2, ChangeKeepsFresh DEF NoOlderThan, NoData
  <2> QED
    BY <1>0, <2>1, <2>2 DEF NoOlderThan
<1>3. CASE TimedTick
  BY <1>0, <1>3 DEF TimedTick, Tick, NoOlderThan
<1>4. ASSUME NEW p \in Proc, TimedStore(p) \/ AnswerFails(p) \/ Return(p)
                            \/ \E k \in Key : LookupHit(p, k),
             asked' = asked, now' = now, outdated' = outdated
      PROVE  /\ asked'[q] <= now'
             /\ call'[q].pc = "asking" => NoOlderThan(call[q].parts, asked[q])'
  <2>1. CASE q = p
    <3>1. call'[q].pc # "asking"
      <4>1. CASE TimedStore(p)
        BY <1>0, <2>1, <4>1 DEF TimedStore, Store, Calls
      <4>2. CASE AnswerFails(p)
        BY <1>0, <2>1, <4>2 DEF AnswerFails, Failed
      <4>3. CASE Return(p)
        BY <1>0, <2>1, <4>3 DEF Return, Idle
      <4>4. ASSUME NEW k \in Key, LookupHit(p, k) PROVE call'[q].pc # "asking"
        BY <1>0, <2>1, <4>4 DEF LookupHit, Done
      <4> QED
        BY <1>4, <4>1, <4>2, <4>3, <4>4
    <3> QED
      BY <1>0, <1>4, <3>1
  <2>2. CASE q # p
    <3>1. call'[q] = call[q] /\ version' = version
      BY <1>0, <1>4, <2>2 DEF TimedStore, Store, AnswerFails, Return, LookupHit
    <3> QED
      BY <1>0, <1>4, <3>1 DEF NoOlderThan
  <2> QED
    BY <2>1, <2>2
<1>5. ASSUME NEW p \in Proc, Answer(p) \/ DiskUsageFails(p),
             asked' = asked, now' = now, outdated' = outdated
      PROVE  /\ asked'[q] <= now'
             /\ call'[q].pc = "asking" => NoOlderThan(call[q].parts, asked[q])'
  <2>0. version' = version
    BY <1>5 DEF Answer, DiskUsageFails
  <2>1. CASE q = p
    <3>1. PICK v \in {NoData, version} :
              call' = [call EXCEPT ![p].parts = Append(@, v)]
      BY <1>5 DEF Answer, DiskUsageFails
    <3>2. call'[q].parts = Append(call[q].parts, v) /\ call'[q].pc = call[q].pc
      BY <1>0, <2>1, <3>1 DEF Calls
    <3>3. call[q].pc = "asking" => NoOlderThan(Append(call[q].parts, v), asked[q])
      BY <1>0, AnswerIsFresh
    <3> QED
      BY <1>0, <1>5, <2>0, <3>2, <3>3 DEF NoOlderThan
  <2>2. CASE q # p
    <3>1. call'[q] = call[q]
      BY <1>0, <1>5, <2>2 DEF Answer, DiskUsageFails
    <3> QED
      BY <1>0, <1>5, <2>0, <3>1 DEF NoOlderThan
  <2> QED
    BY <2>1, <2>2
<1>6. CASE UNCHANGED <<call, version, asked, now, outdated>>
  BY <1>0, <1>6 DEF NoOlderThan
<1> QED
  BY <1>1, <1>2, <1>3, <1>4, <1>5, <1>6 DEF TimedNext, TimedStore, TimedOther,
     InvalidateCache, Cleanup, timeVars, stalenessVars, servicesVars

\* So is what the cache holds, and its deadline is TTL after it was stored.
LEMMA EntriesStep ==
    TimedTypeOK /\ CallsFresh /\ EntriesFresh /\ [TimedNext]_stalenessVars
        => EntriesFresh'
<1> SUFFICES ASSUME TimedTypeOK, CallsFresh, EntriesFresh,
                    [TimedNext]_stalenessVars
             PROVE  EntriesFresh'
  OBVIOUS
<1>0. /\ now \in Nat /\ TTL \in Int
      /\ filled \in [Key -> Nat] /\ stored \in [Key -> Nat]
      /\ \A x \in DOMAIN items :
            /\ x \in Key /\ filled[x] \in Nat
            /\ items[x].value \in Answers /\ items[x].left \in Int
  BY TTLAssumption DEF TimedTypeOK, TypeOK
<1>1. ASSUME NEW p \in Proc, TimedStore(p) PROVE EntriesFresh'
  <2> DEFINE k == call[p].key
             parts == call[p].parts
  <2>1. /\ k \in Key /\ parts \in Answers
        /\ asked[p] <= now /\ NoOlderThan(parts, asked[p])
    BY <1>1 DEF TimedTypeOK, TypeOK, Calls, CallsFresh, TimedStore, Store
  <2>2. /\ DOMAIN items' = DOMAIN items \cup {k}
        /\ items'[k] = [value |-> parts, left |-> TTL]
        /\ \A x \in DOMAIN items \ {k} : items'[x] = items[x]
        /\ version' = version
    BY <1>1 DEF TimedStore, Store, Set
  <2>3. /\ filled' = [filled EXCEPT ![k] = asked[p]]
        /\ stored' = [stored EXCEPT ![k] = now]
        /\ now' = now /\ outdated' = outdated
    BY <1>1 DEF TimedStore
  <2> HIDE DEF k, parts
  <2> SUFFICES ASSUME NEW x \in DOMAIN items'
               PROVE  /\ filled'[x] <= now'
                      /\ NoOlderThan(items[x].value, filled[x])'
                      /\ ~Expired(items[x])' => stored'[x] = now' + items'[x].left - TTL
    BY DEF EntriesFresh
  <2>4. CASE x = k
    <3>1. /\ items'[x].value = parts /\ items'[x].left = TTL
          /\ filled'[x] = asked[p] /\ stored'[x] = now
      BY <1>0, <2>1, <2>2, <2>3, <2>4
    <3> QED
      BY <1>0, <2>1, <2>2, <2>3, <3>1 DEF NoOlderThan
  <2>5. CASE x # k
    <3>1. /\ x \in DOMAIN items /\ items'[x] = items[x]
          /\ filled'[x] = filled[x] /\ stored'[x] = stored[x]
      BY <1>0, <2>1, <2>2, <2>3, <2>5
    <3> QED
      BY <2>2, <2>3, <3>1 DEF EntriesFresh, NoOlderThan, Expired
  <2> QED
    BY <2>4, <2>5
<1>2. CASE TimedDaemonChange
  <2>1. /\ items' = items /\ filled' = filled /\ stored' = stored /\ now' = now
    BY <1>2 DEF TimedDaemonChange, DaemonChange
  <2>2. \A x \in DOMAIN items : \A i \in DOMAIN items[x].value :
            items[x].value[i] \notin {NoData, version'} =>
                outdated'[items[x].value[i]] >= filled[x]
    BY <1>0, <1>2, ChangeKeepsFresh DEF EntriesFresh, NoOlderThan, NoData
  <2> QED
    BY <2>1, <2>2 DEF EntriesFresh, NoOlderThan, Expired
<1>3. CASE TimedTick
  <2>1. /\ version' = version /\ outdated' = outdated /\ filled' = filled
        /\ stored' = stored /\ now' = now + 1
        /\ DOMAIN items' = DOMAIN items
        /\ \A x \in DOMAIN items :
              /\ items'[x].value = items[x].value
              /\ ~Expired(items'[x]) =>
                    ~Expired(items[x]) /\ items'[x].left = items[x].left - 1
    BY <1>3 DEF TimedTick, Tick, Elapse, Expired, TimedTypeOK, TypeOK
  <2> SUFFICES ASSUME NEW x \in DOMAIN items
               PROVE  /\ filled[x] <= now + 1
                      /\ NoOlderThan(items[x].value, filled[x])
                      /\ ~Expired(items'[x]) =>
                            stored[x] = now + 1 + items'[x].left - TTL
    BY <2>1 DEF EntriesFresh, NoOlderThan, Expired
  <2> QED
    BY <1>0, <2>1 DEF EntriesFresh
<1>4. CASE TimedOther /\ (InvalidateCache \/ Cleanup)
  <2>1. /\ DOMAIN items' \subseteq DOMAIN items
        /\ \A x \in DOMAIN items' : items'[x] = items[x]
        /\ version' = version
    BY <1>4 DEF InvalidateCache, InvalidateAll, NoEntries, Cleanup, Sweep, Without
  <2> QED
    BY <1>4, <2>1 DEF TimedOther, timeVars, EntriesFresh, NoOlderThan, Expired
<1>5. CASE UNCHANGED <<items, version, now, outdated, filled, stored>>
  BY <1>5 DEF EntriesFresh, NoOlderThan, Expired
<1> QED
  BY <1>1, <1>2, <1>3, <1>4, <1>5 DEF TimedNext, TimedLookupMiss, LookupMiss,
     TimedOther, LookupHit, Answer, AnswerFails, DiskUsageFails, Return, timeVars,
     stalenessVars, servicesVars

-----------------------------------------------------------------------------
\* The invariant the bound is read off.
THEOREM Invariance == TimedSpec => []IInv
<1>1. TimedInit => IInv
  <2> SUFFICES ASSUME TimedInit PROVE IInv
    OBVIOUS
  <2>1. TypeOK
    BY InitType DEF TimedInit
  <2>2. TimedTypeOK
    BY <2>1 DEF TimedInit, TimedTypeOK
  <2>3. CallsFresh /\ EntriesFresh
    BY DEF TimedInit, Init, CallsFresh, EntriesFresh, Idle, NoEntries
  <2> QED
    BY <2>2, <2>3 DEF IInv
<1>2. IInv /\ [TimedNext]_stalenessVars => IInv'
  BY TimedTypeStep, CallsStep, EntriesStep DEF IInv
<1> QED
  BY <1>1, <1>2, PTL DEF TimedSpec

\* The calls, the cache and the record of times are well typed throughout.
THEOREM TimedTypeCorrect == TimedSpec => []TimedTypeOK
<1>1. IInv => TimedTypeOK
  BY DEF IInv
<1> QED
  BY Invariance, <1>1, PTL

\* Whatever the goroutines, the daemon and the cache's cleanup do in between, a
\* version the cache serves although it is outdated has been so for no longer
\* than TTL and the duration of the call that fetched it.
THEOREM StalenessIsBounded == TimedSpec => []BoundedStaleness
<1>1. IInv => BoundedStaleness
  <2> SUFFICES ASSUME IInv, NEW k \in Key, Readable(items, k)
               PROVE  /\ now - stored[k] <= TTL
                      /\ NoOlderThan(items[k].value, filled[k])
    BY DEF BoundedStaleness, NoOlderThan
  <2>1. k \in DOMAIN items /\ ~Expired(items[k])
    BY DEF Readable
  <2>2. /\ stored[k] = now + items[k].left - TTL
        /\ NoOlderThan(items[k].value, filled[k])
    BY <2>1 DEF IInv, EntriesFresh
  <2>3. now \in Nat /\ TTL \in Int /\ items[k].left \in Int /\ items[k].left >= 0
    BY <2>1, TTLAssumption DEF IInv, TimedTypeOK, TypeOK, Expired
  <2> QED
    BY <2>2, <2>3
<1> QED
  BY Invariance, <1>1, PTL
=============================================================================
