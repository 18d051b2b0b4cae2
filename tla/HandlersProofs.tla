--------------------------- MODULE HandlersProofs ---------------------------
(***************************************************************************)
(* What the handlers answer, for any list Docker may give, any parameters  *)
(* and any containers that are inspected.                                  *)
(*                                                                         *)
(* A loop of the code is a recursive function of the number of its turns,  *)
(* and what it computes is proved by induction over them (Induction).      *)
(* Three invariants say what a response is made of: AnsweredInv the page   *)
(* or the JSON of a list, ResponseInv what passes the middleware, and      *)
(* SubjectInv the card of one container.                                   *)
(***************************************************************************)
EXTENDS Handlers, FiniteSetTheorems, FunctionTheorems, SequenceTheorems,
        WellFoundedInduction, TLAPS

\* Any set of numbers has a least one.
LEMMA LeastNat ==
  ASSUME NEW T \in SUBSET Nat, T # {}
  PROVE  \E x \in T : \A y \in T : x <= y
<1> DEFINE Below == {1..n : n \in T}
<1>1. Below \subseteq FiniteSubsetsOf(Nat)
  <2>1. \A n \in Nat : IsFiniteSet(1..n)
    BY FS_Interval
  <2> QED
    BY <2>1 DEF FiniteSubsetsOf
<1>2. IsWellFoundedOn(StrictSubsetOrdering(Nat), FiniteSubsetsOf(Nat))
  BY FS_StrictSubsetOrderingWellFounded
<1>3. Below # {}
  OBVIOUS
<1> HIDE DEF Below
<1>4. PICK B \in Below : \A C \in Below : <<C, B>> \notin StrictSubsetOrdering(Nat)
  BY <1>1, <1>2, <1>3, WFMin
<1>5. PICK x \in T : B = 1..x
  BY <1>4 DEF Below
<1>6. ASSUME NEW y \in T, y < x PROVE FALSE
  <2>1. 1..y \in Below
    BY DEF Below
  <2>2. x \in 1..x /\ x \notin 1..y
    BY <1>6
  <2>3. <<1..y, 1..x>> \in StrictSubsetOrdering(Nat)
    <3>1. 1..y \subseteq 1..x /\ 1..y # 1..x
      BY <1>6, <2>2
    <3>2. 1..y \in SUBSET Nat /\ 1..x \in SUBSET Nat
      OBVIOUS
    <3> QED
      BY <3>1, <3>2 DEF StrictSubsetOrdering
  <2> QED
    BY <2>1, <2>3, <1>4, <1>5
<1> QED
  BY <1>6

\* Induction up to n, for a set in the place of a predicate.
LEMMA Induction ==
  ASSUME NEW n \in Nat, NEW T, 0 \in T, \A i \in 1..n : i - 1 \in T => i \in T
  PROVE  \A i \in 0..n : i \in T
<1> SUFFICES ASSUME {i \in 0..n : i \notin T} # {} PROVE FALSE
  OBVIOUS
<1>1. PICK i \in 0..n : i \notin T /\ \A j \in 0..n : j \notin T => i <= j
  <2>1. {i \in 0..n : i \notin T} \in SUBSET Nat
    OBVIOUS
  <2> QED
    BY <2>1, LeastNat
<1>2. i \in 1..n /\ i - 1 \in 0..n
  BY <1>1
<1> QED
  BY <1>1, <1>2

\* The loop is what its turns make it.
LEMMA KeepingTurns ==
  ASSUME NEW X, NEW s \in Seq(X), NEW K
  PROVE  /\ Keeping(s, K)[0] = <<>>
         /\ \A i \in 1..Len(s) : Keeping(s, K)[i] =
                IF s[i] \in K THEN Append(Keeping(s, K)[i - 1], s[i])
                ELSE Keeping(s, K)[i - 1]
<1> DEFINE Turn(f, i) == IF i = 0 THEN <<>>
                         ELSE IF s[i] \in K THEN Append(f[i - 1], s[i]) ELSE f[i - 1]
           Up(m) == \E f : f = [i \in 0..m |-> Turn(f, i)]
           T == {m \in 0..Len(s) : Up(m)}
<1> HIDE DEF Turn
<1>1. Up(0)
  <2>1. [i \in 0..0 |-> <<>>] = [i \in 0..0 |-> Turn([k \in 0..0 |-> <<>>], i)]
    BY DEF Turn
  <2> QED
    BY <2>1
<1>2. ASSUME NEW m \in 1..Len(s), Up(m - 1) PROVE Up(m)
  <2>1. PICK f : f = [i \in 0..(m - 1) |-> Turn(f, i)]
    BY <1>2
  <2> DEFINE g == [i \in 0..m |-> IF i < m THEN f[i] ELSE Turn(f, m)]
  <2>2. \A i \in 0..m : g[i] = Turn(g, i)
    <3>1. \A i \in 0..(m - 1) : f[i] = Turn(f, i)
      BY <2>1
    <3>2. \A i \in 1..m : g[i - 1] = f[i - 1]
      OBVIOUS
    <3> QED
      BY <3>1, <3>2 DEF Turn
  <2>3. g = [i \in 0..m |-> Turn(g, i)]
    BY <2>2
  <2> HIDE DEF g
  <2> QED
    BY <2>3
<1>3. Up(Len(s))
  <2> HIDE DEF Up
  <2>1. Len(s) \in Nat
    OBVIOUS
  <2>2. 0 \in T /\ \A m \in 1..Len(s) : m - 1 \in T => m \in T
    BY <1>1, <1>2, <2>1
  <2>3. \A m \in 0..Len(s) : m \in T
    <3> HIDE DEF T
    <3> QED
      BY <2>1, <2>2, Induction
  <2> QED
    BY <2>1, <2>3
<1>4. Keeping(s, K) = [i \in 0..Len(s) |-> Turn(Keeping(s, K), i)]
  BY <1>3 DEF Keeping, Turn
<1>5. \A i \in 0..Len(s) : Keeping(s, K)[i] = Turn(Keeping(s, K), i)
  BY <1>4
<1> QED
  BY <1>5 DEF Turn

\* What is kept are the elements of the set, in the order they had.
LEMMA KeepingFacts ==
  ASSUME NEW X, NEW s \in Seq(X), NEW K
  PROVE  /\ Kept(s, K) \in Seq(X)
         /\ \A x : x \in Range(Kept(s, K)) <=> x \in K /\ x \in Range(s)
         /\ \A a, b \in DOMAIN Kept(s, K) : a < b =>
                \E k, l \in DOMAIN s :
                    k < l /\ s[k] = Kept(s, K)[a] /\ s[l] = Kept(s, K)[b]
         /\ (\A i \in DOMAIN s : s[i] \in K) => Len(Kept(s, K)) = Len(s)
<1> DEFINE f == Keeping(s, K)
           Typed(i) == f[i] \in Seq(X)
           Same(i) == /\ \A a \in 1..Len(f[i]) :
                            f[i][a] \in K /\ \E k \in 1..i : s[k] = f[i][a]
                      /\ \A k \in 1..i : s[k] \in K =>
                            \E a \in 1..Len(f[i]) : f[i][a] = s[k]
           Order(i) == \A a, b \in 1..Len(f[i]) : a < b =>
                \E k, l \in 1..i : k < l /\ s[k] = f[i][a] /\ s[l] = f[i][b]
           All(i) == (\A k \in 1..i : s[k] \in K) => Len(f[i]) = i
           T == {i \in 0..Len(s) : Typed(i) /\ Same(i) /\ Order(i) /\ All(i)}
<1>1. /\ f[0] = <<>>
      /\ \A i \in 1..Len(s) : f[i] = IF s[i] \in K THEN Append(f[i - 1], s[i])
                                     ELSE f[i - 1]
  BY KeepingTurns
<1>2. Len(s) \in Nat /\ \A i \in 1..Len(s) : s[i] \in X
  OBVIOUS
<1> HIDE DEF f
<1>3. Typed(0) /\ Same(0) /\ Order(0) /\ All(0)
  BY <1>1
<1>4. ASSUME NEW i \in 1..Len(s), Typed(i - 1), Same(i - 1), Order(i - 1), All(i - 1)
      PROVE  Typed(i) /\ Same(i) /\ Order(i) /\ All(i)
  <2>1. CASE s[i] \notin K
    <3>1. f[i] = f[i - 1]
      BY <1>1, <2>1
    <3>2. Typed(i) /\ All(i)
      BY <1>4, <3>1, <2>1
    <3>3. Same(i)
      <4>1. \A k \in 1..i : s[k] \in K => k \in 1..(i - 1)
        BY <2>1
      <4> QED
        BY <4>1, <1>4, <3>1
    <3>4. Order(i)
      <4> SUFFICES ASSUME NEW a \in 1..Len(f[i]), NEW b \in 1..Len(f[i]), a < b
                   PROVE \E k, l \in 1..i : k < l /\ s[k] = f[i][a] /\ s[l] = f[i][b]
        OBVIOUS
      <4>1. PICK k, l \in 1..(i - 1) : k < l /\ s[k] = f[i - 1][a] /\ s[l] = f[i - 1][b]
        BY <1>4, <3>1
      <4>2. k \in 1..i /\ l \in 1..i
        OBVIOUS
      <4> QED
        BY <4>1, <4>2, <3>1
    <3> QED
      BY <3>2, <3>3, <3>4
  <2>2. CASE s[i] \in K
    <3>1. f[i] = Append(f[i - 1], s[i])
      BY <1>1, <2>2
    <3>2. Typed(i)
      BY <1>2, <1>4, <3>1
    <3>3. /\ Len(f[i]) = Len(f[i - 1]) + 1 /\ f[i][Len(f[i])] = s[i]
          /\ \A a \in 1..Len(f[i - 1]) : f[i][a] = f[i - 1][a]
          /\ Len(f[i - 1]) \in Nat
      BY <1>2, <1>4, <3>1
    <3>4. Same(i)
      <4>1. ASSUME NEW a \in 1..Len(f[i])
            PROVE  f[i][a] \in K /\ \E k \in 1..i : s[k] = f[i][a]
        <5>1. CASE a = Len(f[i])
          BY <5>1, <3>3, <2>2
        <5>2. CASE a # Len(f[i])
          <6>1. a \in 1..Len(f[i - 1])
            BY <5>2, <3>3
          <6>2. f[i - 1][a] \in K /\ \E k \in 1..(i - 1) : s[k] = f[i - 1][a]
            BY <6>1, <1>4
          <6> QED
            BY <6>1, <6>2, <3>3
        <5> QED
          BY <5>1, <5>2
      <4>2. ASSUME NEW k \in 1..i, s[k] \in K
            PROVE  \E a \in 1..Len(f[i]) : f[i][a] = s[k]
        <5>1. CASE k = i
          BY <5>1, <3>3
        <5>2. CASE k # i
          <6>0. k \in 1..(i - 1)
            BY <5>2
          <6>1. PICK a \in 1..Len(f[i - 1]) : f[i - 1][a] = s[k]
            BY <6>0, <4>2, <1>4
          <6> QED
            BY <6>1, <3>3
        <5> QED
          BY <5>1, <5>2
      <4> QED
        BY <4>1, <4>2
    <3>5. Order(i)
      <4> SUFFICES ASSUME NEW a \in 1..Len(f[i]), NEW b \in 1..Len(f[i]), a < b
                   PROVE \E k, l \in 1..i : k < l /\ s[k] = f[i][a] /\ s[l] = f[i][b]
        OBVIOUS
      <4>1. CASE b = Len(f[i])
        <5>1. a \in 1..Len(f[i - 1])
          BY <3>3, <4>1
        <5>2. PICK k \in 1..(i - 1) : s[k] = f[i][a]
          BY <5>1, <3>3, <1>4
        <5> QED
          BY <5>2, <4>1, <3>3
      <4>2. CASE b # Len(f[i])
        <5>1. a \in 1..Len(f[i - 1]) /\ b \in 1..Len(f[i - 1])
          BY <3>3, <4>2
        <5>2. PICK k, l \in 1..(i - 1) : k < l /\ s[k] = f[i - 1][a] /\ s[l] = f[i - 1][b]
          BY <5>1, <1>4
        <5> QED
          BY <5>1, <5>2, <3>3
      <4> QED
        BY <4>1, <4>2
    <3>6. All(i)
      BY <1>4, <3>3
    <3> QED
      BY <3>2, <3>4, <3>5, <3>6
  <2> QED
    BY <2>1, <2>2
<1>5. \A i \in 0..Len(s) : i \in T
  <2>1. 0 \in T /\ \A i \in 1..Len(s) : i - 1 \in T => i \in T
    <3> HIDE DEF Typed, Same, Order, All
    <3> QED
      BY <1>2, <1>3, <1>4
  <2> HIDE DEF T
  <2> QED
    BY <1>2, <2>1, Induction
<1>6. Typed(Len(s)) /\ Same(Len(s)) /\ Order(Len(s)) /\ All(Len(s))
  <2> HIDE DEF Typed, Same, Order, All
  <2> QED
    BY <1>2, <1>5
<1> DEFINE kept == Kept(s, K)
<1>7. kept = f[Len(s)] /\ kept \in Seq(X)
  BY <1>6 DEF Kept, f
<1>8. /\ \A a \in DOMAIN kept : kept[a] \in K /\ \E k \in DOMAIN s : s[k] = kept[a]
      /\ \A k \in DOMAIN s : s[k] \in K => \E a \in DOMAIN kept : kept[a] = s[k]
      /\ \A a, b \in DOMAIN kept : a < b =>
            \E k, l \in DOMAIN s : k < l /\ s[k] = kept[a] /\ s[l] = kept[b]
      /\ (\A i \in DOMAIN s : s[i] \in K) => Len(kept) = Len(s)
  <2> DEFINE n == Len(s)
  <2>1. DOMAIN s = 1..n /\ DOMAIN kept = 1..Len(kept)
    BY <1>7
  <2>2. Same(n) /\ Order(n) /\ All(n) /\ kept = f[n]
    BY <1>6, <1>7
  <2> HIDE DEF kept, n
  <2>3. \A a \in DOMAIN kept : kept[a] \in K /\ \E k \in DOMAIN s : s[k] = kept[a]
    BY <2>1, <2>2
  <2>4. \A k \in DOMAIN s : s[k] \in K => \E a \in DOMAIN kept : kept[a] = s[k]
    BY <2>1, <2>2
  <2>5. \A a, b \in DOMAIN kept : a < b =>
            \E k, l \in DOMAIN s : k < l /\ s[k] = kept[a] /\ s[l] = kept[b]
    <3> TAKE a, b \in DOMAIN kept
    <3> HAVE a < b
    <3>1. a \in 1..Len(f[n]) /\ b \in 1..Len(f[n])
      BY <2>1, <2>2
    <3>2. PICK k, l \in 1..n : k < l /\ s[k] = f[n][a] /\ s[l] = f[n][b]
      BY <2>2, <3>1
    <3> QED
      BY <2>1, <2>2, <3>2
  <2>6. (\A i \in DOMAIN s : s[i] \in K) => Len(kept) = n
    BY <2>1, <2>2
  <2> QED
    BY <2>3, <2>4, <2>5, <2>6 DEF n
<1>9. \A x : x \in Range(kept) <=> x \in K /\ x \in Range(s)
  <2> HIDE DEF kept
  <2> QED
    BY <1>8 DEF Range
<1> QED
  BY <1>7, <1>8, <1>9

-----------------------------------------------------------------------------
(* Sorting. *)

\* An arrangement of a finite set has all of it.
LEMMA ArrangedFacts ==
  ASSUME NEW S, IsFiniteSet(S), NEW s \in SetToSeqs(S)
  PROVE  /\ s \in Seq(S) /\ Range(s) = S
         /\ \A i, j \in DOMAIN s : s[i] = s[j] => i = j
<1> DEFINE n == Cardinality(S)
<1>1. n \in Nat /\ IsFiniteSet(1..n) /\ Cardinality(1..n) = n
  BY FS_CardinalityType, FS_Interval
<1>2. s \in [1..n -> S] /\ \A i, j \in 1..n : i # j => s[i] # s[j]
  BY DEF SetToSeqs
<1> HIDE DEF n
<1>3. s \in Injection(1..n, S)
  BY <1>2 DEF Injection, IsInjective
<1>4. s \in Surjection(1..n, S)
  BY <1>1, <1>3, FS_Injection DEF n
<1>5. Range(s) = S
  BY <1>2, <1>4 DEF Surjection, Range
<1>6. s \in Seq(S)
  BY <1>1, <1>2
<1> QED
  BY <1>2, <1>5, <1>6

\* Elements that are all different and never tie can be sorted in one way only.
LEMMA OneOrder ==
  ASSUME NEW X, NEW s \in Seq(X), NEW t \in Seq(X), NEW Less,
         Range(s) = Range(t),
         \A i, j \in DOMAIN s : s[i] = s[j] => i = j,
         \A i, j \in DOMAIN t : t[i] = t[j] => i = j,
         \A x, y \in Range(s) : x = y \/ <<x, y>> \in Less \/ <<y, x>> \in Less,
         \A i, j \in DOMAIN s : i < j => <<s[j], s[i]>> \notin Less,
         \A i, j \in DOMAIN t : i < j => <<t[j], t[i]>> \notin Less
  PROVE  s = t
<1> DEFINE Agree(i) == i \in DOMAIN s /\ i \in DOMAIN t /\ s[i] = t[i]
           Differ == {i \in DOMAIN s \cup DOMAIN t : ~Agree(i)}
<1>0. DOMAIN s = 1..Len(s) /\ DOMAIN t = 1..Len(t) /\ Len(s) \in Nat /\ Len(t) \in Nat
  OBVIOUS
<1>1. ASSUME Differ # {} PROVE FALSE
  <2>1. PICK i \in Differ : \A j \in Differ : i <= j
    <3>1. Differ \in SUBSET Nat
      BY <1>0
    <3> HIDE DEF Differ
    <3> QED
      BY <1>1, <3>1, LeastNat
  <2>2. i \in Nat \ {0} /\ \A j \in 1..(i - 1) : Agree(j)
    <3>1. i \in Nat \ {0}
      BY <1>0
    <3>2. ASSUME NEW j \in 1..(i - 1), ~Agree(j) PROVE FALSE
      <4>1. j \in DOMAIN s \cup DOMAIN t /\ j < i
        BY <1>0, <3>1
      <4> QED
        BY <2>1, <3>1, <3>2, <4>1
    <3> QED
      BY <3>1, <3>2
  <2>3. ASSUME i \in DOMAIN s
        PROVE  \E j \in DOMAIN t : j >= i /\ t[j] = s[i]
    <3>1. PICK j \in DOMAIN t : t[j] = s[i]
      <4>1. s[i] \in Range(t)
        <5>1. s[i] \in Range(s)
          BY <2>3 DEF Range
        <5> QED
          BY <5>1
      <4> QED
        BY <4>1 DEF Range
    <3>2. ~(j < i)
      <4> SUFFICES ASSUME j < i PROVE FALSE
        OBVIOUS
      <4>1. j \in 1..(i - 1)
        BY <1>0, <2>2
      <4>2. j \in DOMAIN s /\ s[j] = s[i]
        BY <4>1, <2>2, <3>1
      <4> QED
        BY <2>3, <4>1, <4>2, <2>2
    <3> QED
      BY <1>0, <2>2, <3>1, <3>2
  <2>4. ASSUME i \in DOMAIN t
        PROVE  \E j \in DOMAIN s : j >= i /\ s[j] = t[i]
    <3>1. PICK j \in DOMAIN s : s[j] = t[i]
      <4>1. t[i] \in Range(s)
        BY <2>4 DEF Range
      <4> QED
        BY <4>1 DEF Range
    <3>2. ~(j < i)
      <4> SUFFICES ASSUME j < i PROVE FALSE
        OBVIOUS
      <4>1. j \in 1..(i - 1)
        BY <1>0, <2>2
      <4>2. j \in DOMAIN t /\ t[j] = t[i]
        BY <4>1, <2>2, <3>1
      <4> QED
        BY <2>4, <4>1, <4>2, <2>2
    <3> QED
      BY <1>0, <2>2, <3>1, <3>2
  <2>5. i \in DOMAIN s /\ i \in DOMAIN t
    BY <1>0, <2>1, <2>2, <2>3, <2>4
  <2>6. PICK j \in DOMAIN t : j > i /\ t[j] = s[i]
    BY <1>0, <2>1, <2>3, <2>5
  <2>7. PICK k \in DOMAIN s : k > i /\ s[k] = t[i]
    BY <1>0, <2>1, <2>4, <2>5
  <2>8. <<s[i], t[i]>> \notin Less /\ <<t[i], s[i]>> \notin Less
    BY <1>0, <2>5, <2>6, <2>7
  <2>9. s[i] \in Range(s) /\ t[i] \in Range(s) /\ s[i] # t[i]
    BY <2>1, <2>5 DEF Range
  <2> QED
    BY <2>8, <2>9
<1>2. DOMAIN s = DOMAIN t /\ \A i \in DOMAIN s : s[i] = t[i]
  BY <1>1
<1> QED
  BY <1>0, <1>2

\* A slice has finitely many elements.
LEMMA RangeFinite ==
  ASSUME NEW X, NEW s \in Seq(X)
  PROVE  IsFiniteSet(Range(s)) /\ Range(s) \subseteq X
<1>1. s \in Surjection(1..Len(s), Range(s))
  BY DEF Surjection, Range
<1>2. IsFiniteSet(1..Len(s))
  BY FS_Interval
<1>3. IsFiniteSet(Range(s))
  BY <1>1, <1>2, FS_Surjection
<1> QED
  BY <1>3 DEF Range

-----------------------------------------------------------------------------
(* The list of containers and its groups. *)

Labels == [group : Text, name : Text, priority : Int, hide : BOOLEAN,
           tags : SUBSET STRING]

Container == [id : STRING, name : Text, state : STRING, created : Int,
              image : STRING, labels : Labels]

\* A container is converted as it is, but for its labels.
LEMMA ConvertedFacts ==
  ASSUME NEW c \in APIContainer
  PROVE  /\ ContainerFromAPI(c) \in Container
         /\ ContainerFromAPI(c).id = c.id /\ ContainerFromAPI(c).name = c.name
         /\ ContainerFromAPI(c).labels.hide <=> Hidden(c)
<1>1. c.labels \in RawLabels
  BY DEF APIContainer
<1>2. ParseLabels(c.labels) \in Labels
  <2>1. (IF c.labels.priority = {} THEN DefaultPriority
         ELSE CHOOSE n \in c.labels.priority : TRUE) \in Int
    <3>1. c.labels.priority \in SUBSET Int
      BY <1>1 DEF RawLabels
    <3> QED
      BY <3>1 DEF DefaultPriority
  <2>2. c.labels.tags \ {Empty} \in SUBSET STRING
    BY <1>1 DEF RawLabels
  <2> QED
    BY <1>1, <2>1, <2>2 DEF ParseLabels, Labels, RawLabels
<1>3. ParseLabels(c.labels).hide <=> Hidden(c)
  BY DEF ParseLabels, Hidden
<1> HIDE DEF ParseLabels
<1>4. ContainerFromAPI(c).labels = ParseLabels(c.labels)
  BY DEF ContainerFromAPI, APIContainer
<1> QED
  BY <1>2, <1>3, <1>4 DEF ContainerFromAPI, APIContainer, Container

\* The list has every container that is not hidden, and none twice.
LEMMA ListFacts ==
  ASSUME NEW cs \in Listing
  PROVE  /\ List(cs) \in Seq(Container)
         /\ \A i, j \in DOMAIN List(cs) :
                \/ List(cs)[i].id = List(cs)[j].id
                \/ List(cs)[i].name = List(cs)[j].name
                => i = j
         /\ \A c \in Range(List(cs)) : \E b \in Range(cs) :
                ~Hidden(b) /\ b.id = c.id
         /\ \A b \in Range(cs) : ~Hidden(b) =>
                \E c \in Range(List(cs)) : c.id = b.id
<1> DEFINE all == [i \in DOMAIN cs |-> ContainerFromAPI(cs[i])]
           K == {c \in Range(all) : ~c.labels.hide}
<1>1. cs \in Seq(APIContainer)
  BY ListingAssumption
<1>2. \A i \in DOMAIN cs : cs[i] \in APIContainer
  BY <1>1
<1>3. \A i \in DOMAIN cs :
        /\ all[i] \in Container /\ all[i].id = cs[i].id /\ all[i].name = cs[i].name
        /\ all[i].labels.hide <=> Hidden(cs[i])
  BY <1>2, ConvertedFacts
<1>4. DOMAIN all = DOMAIN cs /\ DOMAIN cs = 1..Len(cs) /\ Len(cs) \in Nat
  BY <1>1
<1>5. all \in Seq(Container)
  BY <1>3, <1>4
<1>6. \A i, j \in DOMAIN all :
        all[i].id = all[j].id \/ all[i].name = all[j].name => i = j
  BY <1>3, <1>4, ListingAssumption
<1>7. List(cs) = Kept(all, K)
  BY DEF List
<1> HIDE DEF all
<1>8. /\ List(cs) \in Seq(Container)
      /\ \A x : x \in Range(List(cs)) <=> x \in K /\ x \in Range(all)
      /\ \A a, b \in DOMAIN List(cs) : a < b =>
            \E k, l \in DOMAIN all :
                k < l /\ all[k] = List(cs)[a] /\ all[l] = List(cs)[b]
  <2> HIDE DEF K
  <2> QED
    BY <1>5, <1>7, KeepingFacts
<1>9. ASSUME NEW i \in DOMAIN List(cs), NEW j \in DOMAIN List(cs), i < j
      PROVE  List(cs)[i].id # List(cs)[j].id /\ List(cs)[i].name # List(cs)[j].name
  <2>1. PICK k, l \in DOMAIN all :
            k < l /\ all[k] = List(cs)[i] /\ all[l] = List(cs)[j]
    BY <1>8, <1>9
  <2>2. k # l
    BY <1>4, <2>1
  <2> QED
    BY <1>6, <2>1, <2>2
<1>10. \A i, j \in DOMAIN List(cs) :
          List(cs)[i].id = List(cs)[j].id \/ List(cs)[i].name = List(cs)[j].name => i = j
  <2>1. \A i, j \in DOMAIN List(cs) : i = j \/ i < j \/ j < i
    BY <1>8
  <2> QED
    BY <1>9, <2>1
<1>11. ASSUME NEW c \in Range(List(cs))
       PROVE  \E b \in Range(cs) : ~Hidden(b) /\ b.id = c.id
  <2>1. PICK i \in DOMAIN all : all[i] = c /\ ~all[i].labels.hide
    BY <1>8, <1>11 DEF Range
  <2> QED
    BY <1>3, <1>4, <2>1 DEF Range
<1>12. ASSUME NEW b \in Range(cs), ~Hidden(b)
       PROVE  \E c \in Range(List(cs)) : c.id = b.id
  <2>1. PICK i \in DOMAIN cs : cs[i] = b
    BY DEF Range
  <2>2. all[i] \in Range(all) /\ ~all[i].labels.hide
    BY <1>3, <1>4, <1>12, <2>1 DEF Range
  <2>3. all[i] \in Range(List(cs))
    BY <1>8, <2>2
  <2> QED
    BY <1>3, <2>1, <2>3
<1> QED
  BY <1>8, <1>10, <1>11, <1>12

\* The name of a group is a text, whatever the labels say.
LEMMA GroupNameType ==
  ASSUME NEW c \in Container
  PROVE  GroupName(c.labels) \in Text /\ GroupName(c.labels) # Empty
BY RankAssumption DEF Container, Labels, GroupName, Empty

\* The loop over the containers is what its turns make it.
LEMMA GroupingTurns ==
  ASSUME NEW s \in Seq(Container)
  PROVE  /\ Grouping(s)[0] = [n \in {} |-> Empty]
         /\ \A i \in 1..Len(s) :
                Grouping(s)[i] = IntoGroup(Grouping(s)[i - 1], s[i])
<1> DEFINE Turn(f, i) == IF i = 0 THEN [n \in {} |-> Empty]
                         ELSE IntoGroup(f[i - 1], s[i])
           Up(m) == \E f : f = [i \in 0..m |-> Turn(f, i)]
           T == {m \in 0..Len(s) : Up(m)}
<1> HIDE DEF Turn
<1>1. Up(0)
  <2> DEFINE f == [i \in 0..0 |-> [n \in {} |-> Empty]]
  <2>1. f = [i \in 0..0 |-> Turn(f, i)]
    BY DEF Turn
  <2> HIDE DEF f
  <2> QED
    BY <2>1
<1>2. ASSUME NEW m \in 1..Len(s), Up(m - 1) PROVE Up(m)
  <2>1. PICK f : f = [i \in 0..(m - 1) |-> Turn(f, i)]
    BY <1>2
  <2> DEFINE g == [i \in 0..m |-> IF i < m THEN f[i] ELSE Turn(f, m)]
  <2>2. \A i \in 0..m : g[i] = Turn(g, i)
    <3>1. \A i \in 0..(m - 1) : f[i] = Turn(f, i)
      BY <2>1
    <3>2. \A i \in 1..m : g[i - 1] = f[i - 1]
      OBVIOUS
    <3>3. \A i \in 0..m : Turn(g, i) = Turn(f, i)
      BY <3>2 DEF Turn
    <3> QED
      BY <3>1, <3>3
  <2>3. g = [i \in 0..m |-> Turn(g, i)]
    BY <2>2
  <2> HIDE DEF g
  <2> QED
    BY <2>3
<1>3. Up(Len(s))
  <2> HIDE DEF Up
  <2>1. Len(s) \in Nat
    OBVIOUS
  <2>2. 0 \in T /\ \A m \in 1..Len(s) : m - 1 \in T => m \in T
    BY <1>1, <1>2, <2>1
  <2>3. \A m \in 0..Len(s) : m \in T
    <3> HIDE DEF T
    <3> QED
      BY <2>1, <2>2, Induction
  <2> QED
    BY <2>1, <2>3
<1>4. Grouping(s) = [i \in 0..Len(s) |-> Turn(Grouping(s), i)]
  BY <1>3 DEF Grouping, Turn
<1>5. \A i \in 0..Len(s) : Grouping(s)[i] = Turn(Grouping(s), i)
  BY <1>4
<1> QED
  BY <1>5 DEF Turn

Group == [name : Text, priority : Int, containers : SUBSET Container]

\* groups are those of the containers in C, each with the lowest priority of
\* its containers.
AreGroupsOf(groups, C) ==
    /\ groups \in [DOMAIN groups -> Group]
    /\ \A n : n \in DOMAIN groups <=> \E c \in C : GroupName(c.labels) = n
    /\ \A n \in DOMAIN groups :
        /\ groups[n].name = n
        /\ groups[n].containers = {c \in C : GroupName(c.labels) = n}
        /\ \E c \in groups[n].containers : c.labels.priority = groups[n].priority
        /\ \A c \in groups[n].containers : groups[n].priority <= c.labels.priority

\* A turn of the loop adds its container to the group it names, and to no other.
LEMMA IntoGroupFacts ==
  ASSUME NEW C \in SUBSET Container, NEW c \in Container, NEW groups,
         AreGroupsOf(groups, C)
  PROVE  AreGroupsOf(IntoGroup(groups, c), C \cup {c})
<1> DEFINE m == GroupName(c.labels)
           p == c.labels.priority
           g == IF m \in DOMAIN groups THEN groups[m]
                ELSE [name |-> m, priority |-> p, containers |-> {}]
           h == [g EXCEPT !.containers = @ \cup {c},
                          !.priority = IF p < @ THEN p ELSE @]
           next == IntoGroup(groups, c)
<1>1. m \in Text /\ p \in Int
  BY GroupNameType DEF Container, Labels
<1>2. g \in Group /\ g.name = m /\ g.containers = {d \in C : GroupName(d.labels) = m}
  <2>1. CASE m \in DOMAIN groups
    BY <2>1 DEF AreGroupsOf
  <2>2. CASE m \notin DOMAIN groups
    <3>1. {d \in C : GroupName(d.labels) = m} = {}
      BY <2>2 DEF AreGroupsOf
    <3> QED
      BY <1>1, <2>2, <3>1 DEF Group
  <2> QED
    BY <2>1, <2>2
<1>3. /\ m \in DOMAIN groups =>
            /\ \E d \in g.containers : d.labels.priority = g.priority
            /\ \A d \in g.containers : g.priority <= d.labels.priority
      /\ m \notin DOMAIN groups => g.priority = p /\ g.containers = {}
  BY DEF AreGroupsOf
<1>4. next = [x \in DOMAIN groups \cup {m} |-> IF x # m THEN groups[x] ELSE h]
  BY DEF IntoGroup
<1> HIDE DEF g, m, p
<1>5. h \in Group /\ h.name = m /\ h.containers = g.containers \cup {c}
      /\ h.priority = IF p < g.priority THEN p ELSE g.priority
  BY <1>1, <1>2 DEF Group
<1> HIDE DEF h
<1>6. h.containers = {d \in C \cup {c} : GroupName(d.labels) = m}
  BY <1>2, <1>5 DEF m
<1>7. \A d \in C : d.labels.priority \in Int
  BY DEF Container, Labels
<1>8. /\ \E d \in h.containers : d.labels.priority = h.priority
      /\ \A d \in h.containers : h.priority <= d.labels.priority
  <2>1. g.priority \in Int /\ c \in h.containers /\ c.labels.priority = p
    BY <1>2, <1>5 DEF Group, p
  <2>2. CASE m \in DOMAIN groups
    BY <1>1, <1>2, <1>3, <1>5, <1>7, <2>1, <2>2
  <2>3. CASE m \notin DOMAIN groups
    BY <1>1, <1>3, <1>5, <2>1, <2>3
  <2> QED
    BY <2>2, <2>3
<1> HIDE DEF next
<1>9. DOMAIN next = DOMAIN groups \cup {m} /\ next[m] = h
      /\ \A n \in DOMAIN groups : n # m => next[n] = groups[n]
  BY <1>4
<1>10. next \in [DOMAIN next -> Group]
  <2>1. \A n \in DOMAIN groups : groups[n] \in Group
    BY DEF AreGroupsOf
  <2> QED
    BY <1>4, <1>5, <2>1
<1>11. \A n : n \in DOMAIN next <=> \E d \in C \cup {c} : GroupName(d.labels) = n
  BY <1>9 DEF AreGroupsOf, m
<1>12. ASSUME NEW n \in DOMAIN next
       PROVE  /\ next[n].name = n
              /\ next[n].containers = {d \in C \cup {c} : GroupName(d.labels) = n}
              /\ \E d \in next[n].containers : d.labels.priority = next[n].priority
              /\ \A d \in next[n].containers : next[n].priority <= d.labels.priority
  <2>1. CASE n = m
    BY <1>5, <1>6, <1>8, <1>9, <2>1
  <2>2. CASE n # m
    <3>1. n \in DOMAIN groups /\ next[n] = groups[n]
      BY <1>9, <2>2
    <3>2. {d \in C \cup {c} : GroupName(d.labels) = n} = {d \in C : GroupName(d.labels) = n}
      BY <2>2 DEF m
    <3> QED
      BY <3>1, <3>2 DEF AreGroupsOf
  <2> QED
    BY <2>1, <2>2
<1> QED
  BY <1>10, <1>11, <1>12 DEF AreGroupsOf, next

\* When the loop ends the groups are those of the whole list.
LEMMA GroupsFacts ==
  ASSUME NEW cs \in Listing
  PROVE  AreGroupsOf(Groups(cs), Range(List(cs)))
<1> DEFINE s == List(cs)
           First(i) == {s[k] : k \in 1..i}
           T == {i \in 0..Len(s) : AreGroupsOf(Grouping(s)[i], First(i))}
<1>1. s \in Seq(Container) /\ Len(s) \in Nat /\ DOMAIN s = 1..Len(s)
  BY ListFacts
<1> HIDE DEF s
<1>2. \A i \in 0..Len(s) : First(i) \in SUBSET Container
  BY <1>1
<1>3. AreGroupsOf(Grouping(s)[0], First(0))
  <2>1. Grouping(s)[0] = [n \in {} |-> Empty]
    BY <1>1, GroupingTurns
  <2>2. DOMAIN Grouping(s)[0] = {}
    BY <2>1
  <2>3. Grouping(s)[0] \in [DOMAIN Grouping(s)[0] -> Group]
    BY <2>1
  <2>4. First(0) = {}
    OBVIOUS
  <2> HIDE DEF First
  <2> QED
    BY <2>2, <2>3, <2>4 DEF AreGroupsOf
<1>4. ASSUME NEW i \in 1..Len(s), AreGroupsOf(Grouping(s)[i - 1], First(i - 1))
      PROVE  AreGroupsOf(Grouping(s)[i], First(i))
  <2>1. Grouping(s)[i] = IntoGroup(Grouping(s)[i - 1], s[i])
    BY <1>1, GroupingTurns
  <2>2. First(i) = First(i - 1) \cup {s[i]}
    <3>1. 1..i = 1..(i - 1) \cup {i}
      OBVIOUS
    <3> QED
      BY <3>1
  <2>3. First(i - 1) \in SUBSET Container /\ s[i] \in Container
    BY <1>1, <1>2
  <2> HIDE DEF First
  <2> QED
    BY <1>4, <2>1, <2>2, <2>3, IntoGroupFacts
<1>5. \A i \in 0..Len(s) : i \in T
  <2>1. 0 \in T /\ \A i \in 1..Len(s) : i - 1 \in T => i \in T
    <3> HIDE DEF First
    <3> QED
      BY <1>1, <1>3, <1>4
  <2> HIDE DEF T
  <2> QED
    BY <1>1, <2>1, Induction
<1>6. AreGroupsOf(Grouping(s)[Len(s)], First(Len(s)))
  <2> HIDE DEF First
  <2> QED
    BY <1>1, <1>5
<1>7. First(Len(s)) = Range(s)
  BY <1>1 DEF Range
<1> QED
  BY <1>6, <1>7 DEF Groups, s

\* A group as the page shows it: its containers in their order.
PageGroup == [name : Text, priority : Int, containers : Seq(Container)]

\* Each group of a grouped list stands in it once, sorted, with the containers of
\* its name sorted and the lowest of their priorities.
AreSortedGroupsOf(v, C) ==
    LET Named(n) == {c \in C : GroupName(c.labels) = n}
    IN  /\ v \in Seq(PageGroup)
        /\ \A i, j \in DOMAIN v : v[i].name = v[j].name => i = j
        /\ \A i, j \in DOMAIN v : i < j => ~GroupBefore(v[j], v[i])
        /\ \A c \in C : \E i \in DOMAIN v : v[i].name = GroupName(c.labels)
        /\ \A i \in DOMAIN v :
            /\ Range(v[i].containers) = Named(v[i].name)
            /\ \A j, k \in DOMAIN v[i].containers :
                v[i].containers[j] = v[i].containers[k] => j = k
            /\ \A j, k \in DOMAIN v[i].containers :
                j < k => ~ByPriority(v[i].containers[k], v[i].containers[j])
            /\ \E c \in Named(v[i].name) : c.labels.priority = v[i].priority
            /\ \A c \in Named(v[i].name) : v[i].priority <= c.labels.priority

\* Whatever the order of the map and the ties of the sort.
LEMMA ListGroupedFacts ==
  ASSUME NEW cs \in Listing, NEW v \in ListGrouped(cs)
  PROVE  AreSortedGroupsOf(v, Range(List(cs)))
<1> DEFINE C == Range(List(cs))
           groups == Groups(cs)
           options == [n \in DOMAIN groups |->
                        {[groups[n] EXCEPT !.containers = s] :
                            s \in Sorted(groups[n].containers, ByPriority)}]
<1>1. AreGroupsOf(groups, C)
  BY GroupsFacts
<1>2. IsFiniteSet(C) /\ C \subseteq Container
  BY ListFacts, RangeFinite
<1>3. PICK f : /\ f \in [DOMAIN groups -> UNION Range(options)]
               /\ \A n \in DOMAIN groups : f[n] \in options[n]
               /\ v \in Sorted(Range(f), GroupBefore)
  BY DEF ListGrouped
<1> HIDE DEF groups
<1>4. ASSUME NEW n \in DOMAIN groups
      PROVE  /\ f[n] \in PageGroup
             /\ f[n].name = n /\ f[n].priority = groups[n].priority
             /\ Range(f[n].containers) = {c \in C : GroupName(c.labels) = n}
             /\ \A j, k \in DOMAIN f[n].containers :
                    f[n].containers[j] = f[n].containers[k] => j = k
             /\ \A j, k \in DOMAIN f[n].containers :
                    j < k => ~ByPriority(f[n].containers[k], f[n].containers[j])
  <2>1. groups[n] \in Group /\ groups[n].name = n
        /\ groups[n].containers = {c \in C : GroupName(c.labels) = n}
    BY <1>1 DEF AreGroupsOf
  <2>2. PICK s \in Sorted(groups[n].containers, ByPriority) :
            f[n] = [groups[n] EXCEPT !.containers = s]
    BY <1>3
  <2>3. s \in SetToSeqs(groups[n].containers)
        /\ \A j, k \in DOMAIN s : j < k => ~ByPriority(s[k], s[j])
    BY <2>2 DEF Sorted
  <2>4. IsFiniteSet(groups[n].containers) /\ groups[n].containers \subseteq Container
    BY <1>2, <2>1, FS_Subset
  <2>5. s \in Seq(Container) /\ Range(s) = groups[n].containers
        /\ \A j, k \in DOMAIN s : s[j] = s[k] => j = k
    BY <2>3, <2>4, ArrangedFacts
  <2>6. f[n].containers = s /\ f[n].name = n /\ f[n].priority = groups[n].priority
        /\ f[n] \in PageGroup
    BY <2>1, <2>2, <2>5 DEF Group, PageGroup
  <2> QED
    BY <2>1, <2>3, <2>5, <2>6
<1> HIDE DEF options
<1>5. DOMAIN groups = {GroupName(c.labels) : c \in C}
  BY <1>1 DEF AreGroupsOf
<1>6. IsFiniteSet(Range(f)) /\ DOMAIN f = DOMAIN groups
  <2>1. DOMAIN f = DOMAIN groups
    BY <1>3
  <2> DEFINE h == [c \in C |-> f[GroupName(c.labels)]]
  <2> HIDE DEF C
  <2>2. \A c \in C : GroupName(c.labels) \in DOMAIN f
    BY <1>5, <2>1
  <2>3. h \in [C -> Range(f)]
    BY <2>2 DEF Range
  <2>4. ASSUME NEW y \in Range(f) PROVE \E c \in C : h[c] = y
    <3>1. PICK n \in DOMAIN f : y = f[n]
      BY DEF Range
    <3>2. PICK c \in C : n = GroupName(c.labels)
      BY <1>5, <2>1
    <3> QED
      BY <3>1, <3>2
  <2>5. h \in Surjection(C, Range(f))
    <3> HIDE DEF h
    <3> QED
      BY <2>3, <2>4 DEF Surjection
  <2> QED
    BY <1>2, <2>1, <2>5, FS_Surjection DEF C
<1>7. /\ v \in SetToSeqs(Range(f))
      /\ \A i, j \in DOMAIN v : i < j => ~GroupBefore(v[j], v[i])
  BY <1>3 DEF Sorted
<1>8. v \in Seq(Range(f)) /\ Range(v) = Range(f)
      /\ \A i, j \in DOMAIN v : v[i] = v[j] => i = j
  BY <1>6, <1>7, ArrangedFacts
<1>9. \A i \in DOMAIN v : v[i].name \in DOMAIN groups /\ v[i] = f[v[i].name]
  <2> TAKE i \in DOMAIN v
  <2>1. v[i] \in Range(f)
    BY <1>8
  <2>2. PICK n \in DOMAIN f : v[i] = f[n]
    BY <2>1 DEF Range
  <2> QED
    BY <1>4, <1>6, <2>2
<1>10. \A i, j \in DOMAIN v : v[i].name = v[j].name => i = j
  BY <1>8, <1>9
<1>11. v \in Seq(PageGroup)
  <2>1. \A i \in DOMAIN v : v[i] \in PageGroup
    BY <1>4, <1>9
  <2> QED
    BY <1>8, <2>1
<1>12. \A c \in C : \E i \in DOMAIN v : v[i].name = GroupName(c.labels)
  <2> TAKE c \in C
  <2>1. GroupName(c.labels) \in DOMAIN groups
    BY <1>5
  <2>2. f[GroupName(c.labels)] \in Range(v)
    BY <2>1, <1>6, <1>8 DEF Range
  <2>3. PICK i \in DOMAIN v : v[i] = f[GroupName(c.labels)]
    BY <2>2 DEF Range
  <2> QED
    BY <1>4, <2>1, <2>3
<1>13. \A n \in DOMAIN groups :
          LET Named == {c \in C : GroupName(c.labels) = n}
          IN  /\ \E c \in Named : c.labels.priority = groups[n].priority
              /\ \A c \in Named : groups[n].priority <= c.labels.priority
  BY <1>1 DEF AreGroupsOf
<1> HIDE DEF C
<1>14. \A i \in DOMAIN v :
         LET Named == {c \in C : GroupName(c.labels) = v[i].name}
         IN  /\ Range(v[i].containers) = Named
             /\ \A j, k \in DOMAIN v[i].containers :
                    v[i].containers[j] = v[i].containers[k] => j = k
             /\ \A j, k \in DOMAIN v[i].containers :
                    j < k => ~ByPriority(v[i].containers[k], v[i].containers[j])
             /\ \E c \in Named : c.labels.priority = v[i].priority
             /\ \A c \in Named : v[i].priority <= c.labels.priority
  <2> TAKE i \in DOMAIN v
  <2> DEFINE n == v[i].name
  <2>1. n \in DOMAIN groups /\ v[i] = f[n]
    BY <1>9
  <2> HIDE DEF n
  <2> QED
    BY <2>1, <1>4, <1>13 DEF n
<1> QED
  BY <1>7, <1>10, <1>11, <1>12, <1>14 DEF AreSortedGroupsOf, C

\* Names that differ decide every tie of priorities, so that the groups of a set
\* of containers are sorted in one way only.
LEMMA OneGrouping ==
  ASSUME NEW C \in SUBSET Container, \A c, d \in C : c.name = d.name => c = d,
         NEW v, AreSortedGroupsOf(v, C), NEW w, AreSortedGroupsOf(w, C)
  PROVE  v = w
<1> DEFINE Less == {cd \in Container \X Container : ByPriority(cd[1], cd[2])}
           Named(n) == {c \in C : GroupName(c.labels) = n}
<1>1. \A c, d \in C : c = d \/ <<c, d>> \in Less \/ <<d, c>> \in Less
  <2> SUFFICES ASSUME NEW c \in C, NEW d \in C, c # d
               PROVE ByPriority(c, d) \/ ByPriority(d, c)
    OBVIOUS
  <2>1. /\ c.labels.priority \in Int /\ d.labels.priority \in Int
        /\ c.name \in Text /\ d.name \in Text /\ c.name # d.name
    BY DEF Container, Labels
  <2>2. Rank[c.name] \in Int /\ Rank[d.name] \in Int /\ Rank[c.name] # Rank[d.name]
    BY <2>1, RankAssumption
  <2> QED
    BY <2>1, <2>2 DEF ByPriority
<1>2. /\ v \in Seq(PageGroup) /\ w \in Seq(PageGroup)
      /\ \A i \in DOMAIN v : v[i] \in PageGroup
      /\ \A i \in DOMAIN w : w[i] \in PageGroup
  BY DEF AreSortedGroupsOf
<1>3. ASSUME NEW i \in DOMAIN v, NEW j \in DOMAIN w, v[i].name = w[j].name
      PROVE  v[i] = w[j]
  <2> DEFINE s == v[i].containers
             t == w[j].containers
  <2>1. /\ Range(s) = Named(v[i].name) /\ Range(t) = Named(v[i].name)
        /\ \A a, b \in DOMAIN s : s[a] = s[b] => a = b
        /\ \A a, b \in DOMAIN t : t[a] = t[b] => a = b
        /\ \A a, b \in DOMAIN s : a < b => ~ByPriority(s[b], s[a])
        /\ \A a, b \in DOMAIN t : a < b => ~ByPriority(t[b], t[a])
    BY <1>3 DEF AreSortedGroupsOf
  <2>2. s \in Seq(Container) /\ t \in Seq(Container)
    BY <1>2 DEF PageGroup
  <2>3. s = t
    <3> HIDE DEF s, t
    <3>1. \A a, b \in DOMAIN s : a < b => <<s[b], s[a]>> \notin Less
      BY <2>1
    <3>2. \A a, b \in DOMAIN t : a < b => <<t[b], t[a]>> \notin Less
      BY <2>1
    <3>3. \A c, d \in Range(s) : c = d \/ <<c, d>> \in Less \/ <<d, c>> \in Less
      BY <1>1, <2>1
    <3> HIDE DEF Less
    <3> QED
      BY <2>1, <2>2, <3>1, <3>2, <3>3, OneOrder
  <2>4. v[i].priority = w[j].priority
    <3>1. PICK c \in Named(v[i].name) : c.labels.priority = v[i].priority
      BY DEF AreSortedGroupsOf
    <3>2. PICK d \in Named(v[i].name) : d.labels.priority = w[j].priority
      BY <1>3 DEF AreSortedGroupsOf
    <3>3. v[i].priority <= d.labels.priority /\ w[j].priority <= c.labels.priority
      BY <1>3, <3>1, <3>2 DEF AreSortedGroupsOf
    <3>4. v[i].priority \in Int /\ w[j].priority \in Int
      BY <1>2 DEF PageGroup
    <3> QED
      BY <3>1, <3>2, <3>3, <3>4
  <2>5. \A g, h \in PageGroup : g.name = h.name /\ g.priority = h.priority
            /\ g.containers = h.containers => g = h
    BY DEF PageGroup
  <2> QED
    BY <1>2, <1>3, <2>3, <2>4, <2>5
<1>4. ASSUME NEW i \in DOMAIN v PROVE \E j \in DOMAIN w : w[j] = v[i]
  <2>1. PICK c \in C : GroupName(c.labels) = v[i].name
    BY DEF AreSortedGroupsOf
  <2>2. PICK j \in DOMAIN w : w[j].name = v[i].name
    BY <2>1 DEF AreSortedGroupsOf
  <2> QED
    BY <1>3, <2>2
<1>5. ASSUME NEW j \in DOMAIN w PROVE \E i \in DOMAIN v : v[i] = w[j]
  <2>1. PICK c \in C : GroupName(c.labels) = w[j].name
    BY DEF AreSortedGroupsOf
  <2>2. PICK i \in DOMAIN v : v[i].name = w[j].name
    BY <2>1 DEF AreSortedGroupsOf
  <2> QED
    BY <1>3, <2>2
<1>6. Range(v) = Range(w)
  BY <1>4, <1>5 DEF Range
<1> DEFINE GLess == {gh \in PageGroup \X PageGroup : GroupBefore(gh[1], gh[2])}
<1>7. \A g, h \in Range(v) : g = h \/ <<g, h>> \in GLess \/ <<h, g>> \in GLess
  <2> SUFFICES ASSUME NEW g \in Range(v), NEW h \in Range(v), g # h
               PROVE /\ g \in PageGroup /\ h \in PageGroup
                     /\ GroupBefore(g, h) \/ GroupBefore(h, g)
    OBVIOUS
  <2>1. PICK i \in DOMAIN v : g = v[i]
    BY DEF Range
  <2>2. PICK j \in DOMAIN v : h = v[j]
    BY DEF Range
  <2>3. g.name # h.name
    BY <2>1, <2>2 DEF AreSortedGroupsOf
  <2>4. /\ g \in PageGroup /\ h \in PageGroup
        /\ g.priority \in Int /\ h.priority \in Int /\ g.name \in Text /\ h.name \in Text
    BY <1>2, <2>1, <2>2 DEF PageGroup
  <2>5. Rank[g.name] \in Int /\ Rank[h.name] \in Int /\ Rank[g.name] # Rank[h.name]
    BY <2>3, <2>4, RankAssumption
  <2> QED
    BY <2>4, <2>5 DEF GroupBefore
<1>8. \A i, j \in DOMAIN v : i < j => <<v[j], v[i]>> \notin GLess
  BY DEF AreSortedGroupsOf
<1>9. \A i, j \in DOMAIN w : i < j => <<w[j], w[i]>> \notin GLess
  BY DEF AreSortedGroupsOf
<1>10. /\ \A i, j \in DOMAIN v : v[i] = v[j] => i = j
       /\ \A i, j \in DOMAIN w : w[i] = w[j] => i = j
  BY DEF AreSortedGroupsOf
<1> HIDE DEF GLess
<1> QED
  BY <1>2, <1>6, <1>7, <1>8, <1>9, <1>10, OneOrder

\* Concatenation, one sequence after the other.
LEMMA FlattenTurns ==
  ASSUME NEW X, NEW ss \in Seq(Seq(X)), ss # <<>>
  PROVE  \E F : /\ FlattenSeq(ss) = F[Len(ss)]
                /\ F[1] = ss[1]
                /\ \A i \in 2..Len(ss) : F[i] = F[i - 1] \o ss[i]
<1> DEFINE Turn(f, i) == IF i = 1 THEN ss[i] ELSE f[i - 1] \o ss[i]
           Up(m) == \E f : f = [i \in 1..m |-> Turn(f, i)]
           T == {m \in 0..Len(ss) : Up(m)}
           F == CHOOSE f : f = [i \in 1..Len(ss) |-> Turn(f, i)]
<1>0. Len(ss) \in Nat \ {0}
  OBVIOUS
<1> HIDE DEF Turn
<1>1. Up(0)
  <2> DEFINE f == [i \in 1..0 |-> 0]
  <2>1. f = [i \in 1..0 |-> Turn(f, i)]
    OBVIOUS
  <2> HIDE DEF f
  <2> QED
    BY <2>1
<1>2. ASSUME NEW m \in 1..Len(ss), Up(m - 1) PROVE Up(m)
  <2>1. PICK f : f = [i \in 1..(m - 1) |-> Turn(f, i)]
    BY <1>2
  <2> DEFINE g == [i \in 1..m |-> IF i < m THEN f[i] ELSE Turn(f, m)]
  <2>2. \A i \in 1..m : g[i] = Turn(g, i)
    <3>1. \A i \in 1..(m - 1) : f[i] = Turn(f, i)
      BY <2>1
    <3>2. \A i \in 2..m : g[i - 1] = f[i - 1]
      OBVIOUS
    <3>3. \A i \in 1..m : Turn(g, i) = Turn(f, i)
      BY <3>2 DEF Turn
    <3> QED
      BY <3>1, <3>3
  <2>3. g = [i \in 1..m |-> Turn(g, i)]
    BY <2>2
  <2> HIDE DEF g
  <2> QED
    BY <2>3
<1>3. Up(Len(ss))
  <2> HIDE DEF Up
  <2>1. 0 \in T /\ \A m \in 1..Len(ss) : m - 1 \in T => m \in T
    BY <1>0, <1>1, <1>2
  <2>2. \A m \in 0..Len(ss) : m \in T
    <3> HIDE DEF T
    <3> QED
      BY <1>0, <2>1, Induction
  <2> QED
    BY <1>0, <2>2
<1>4. F = [i \in 1..Len(ss) |-> Turn(F, i)]
  BY <1>3
<1>5. FlattenSeq(ss) = F[Len(ss)]
  BY <1>0 DEF FlattenSeq, Turn
<1> HIDE DEF F
<1>6. \A i \in 1..Len(ss) : F[i] = Turn(F, i)
  BY <1>4
<1>7. F[1] = ss[1] /\ \A i \in 2..Len(ss) : F[i] = F[i - 1] \o ss[i]
  <2>1. 1 \in 1..Len(ss) /\ \A i \in 2..Len(ss) : i \in 1..Len(ss) /\ i # 1
    BY <1>0
  <2>2. Turn(F, 1) = ss[1] /\ \A i \in 2..Len(ss) : Turn(F, i) = F[i - 1] \o ss[i]
    BY <2>1 DEF Turn
  <2> QED
    BY <1>6, <2>1, <2>2
<1> QED
  BY <1>5, <1>7

\* What two sequences have, their concatenation has, once if they share nothing.
LEMMA ConcatFacts ==
  ASSUME NEW X, NEW s \in Seq(X), NEW t \in Seq(X)
  PROVE  /\ s \o t \in Seq(X)
         /\ Range(s \o t) = Range(s) \cup Range(t)
         /\ (/\ \A a, b \in DOMAIN s : s[a] = s[b] => a = b
             /\ \A a, b \in DOMAIN t : t[a] = t[b] => a = b
             /\ Range(s) \cap Range(t) = {})
            => \A a, b \in DOMAIN (s \o t) : (s \o t)[a] = (s \o t)[b] => a = b
<1> DEFINE u == s \o t
<1>1. /\ u \in Seq(X) /\ Len(u) = Len(s) + Len(t)
      /\ DOMAIN s = 1..Len(s) /\ DOMAIN t = 1..Len(t) /\ DOMAIN u = 1..Len(u)
      /\ Len(s) \in Nat /\ Len(t) \in Nat
  OBVIOUS
<1>2. /\ \A a \in 1..Len(s) : u[a] = s[a]
      /\ \A a \in 1..Len(t) : u[Len(s) + a] = t[a]
  OBVIOUS
<1>3. \A a \in 1..Len(u) :
        \/ a \in 1..Len(s) /\ u[a] = s[a]
        \/ a - Len(s) \in 1..Len(t) /\ u[a] = t[a - Len(s)] /\ a > Len(s)
  <2> TAKE a \in 1..Len(u)
  <2>1. CASE a <= Len(s)
    BY <1>1, <1>2, <2>1
  <2>2. CASE a > Len(s)
    <3>1. a - Len(s) \in 1..Len(t) /\ Len(s) + (a - Len(s)) = a
      BY <1>1, <2>2
    <3> QED
      BY <1>2, <2>2, <3>1
  <2> QED
    BY <1>1, <2>1, <2>2
<1>4. /\ \A a \in 1..Len(s) : a \in 1..Len(u)
      /\ \A a \in 1..Len(t) : Len(s) + a \in 1..Len(u)
  BY <1>1
<1> HIDE DEF u
<1>5. Range(u) = Range(s) \cup Range(t)
  <2>1. ASSUME NEW x \in Range(u) PROVE x \in Range(s) \cup Range(t)
    <3>1. PICK a \in 1..Len(u) : x = u[a]
      BY <1>1 DEF Range
    <3> QED
      BY <1>1, <1>3, <3>1 DEF Range
  <2>2. Range(s) \subseteq Range(u)
    BY <1>1, <1>2, <1>4 DEF Range
  <2>3. ASSUME NEW x \in Range(t) PROVE x \in Range(u)
    <3>1. PICK a \in 1..Len(t) : x = t[a]
      BY <1>1 DEF Range
    <3>2. u[Len(s) + a] = x /\ Len(s) + a \in DOMAIN u
      BY <1>1, <1>2, <1>4, <3>1
    <3> QED
      BY <3>2 DEF Range
  <2> QED
    BY <2>1, <2>2, <2>3
<1>6. ASSUME \A a, b \in DOMAIN s : s[a] = s[b] => a = b,
             \A a, b \in DOMAIN t : t[a] = t[b] => a = b,
             Range(s) \cap Range(t) = {},
             NEW a \in DOMAIN u, NEW b \in DOMAIN u, u[a] = u[b]
      PROVE  a = b
  <2>1. \A i \in 1..Len(s), j \in 1..Len(t) : s[i] # t[j]
    <3>1. \A i \in 1..Len(s) : s[i] \in Range(s)
      BY <1>1 DEF Range
    <3>2. \A j \in 1..Len(t) : t[j] \in Range(t)
      BY <1>1 DEF Range
    <3> QED
      BY <1>6, <3>1, <3>2
  <2>2. a \in 1..Len(u) /\ b \in 1..Len(u) /\ a \in Int /\ b \in Int
    BY <1>1
  <2>3. CASE a \in 1..Len(s) /\ u[a] = s[a]
    BY <1>1, <1>3, <1>6, <2>1, <2>2, <2>3
  <2>4. CASE a - Len(s) \in 1..Len(t) /\ u[a] = t[a - Len(s)]
    <3>1. CASE b \in 1..Len(s) /\ u[b] = s[b]
      BY <1>6, <2>1, <2>4, <3>1
    <3>2. CASE b - Len(s) \in 1..Len(t) /\ u[b] = t[b - Len(s)]
      <4>1. a - Len(s) = b - Len(s)
        BY <1>1, <1>6, <2>4, <3>2
      <4> QED
        BY <1>1, <2>2, <4>1
    <3> QED
      BY <1>3, <2>2, <3>1, <3>2
  <2> QED
    BY <1>3, <2>2, <2>3, <2>4
<1> QED
  BY <1>1, <1>5, <1>6 DEF u

\* The groups of a page one after the other: all of them, nothing twice.
LEMMA FlattenFacts ==
  ASSUME NEW X, NEW ss \in Seq(Seq(X))
  PROVE  /\ FlattenSeq(ss) \in Seq(X)
         /\ \A x : x \in Range(FlattenSeq(ss)) <=> \E i \in DOMAIN ss : x \in Range(ss[i])
         /\ (\A i, j \in DOMAIN ss : \A a \in DOMAIN ss[i], b \in DOMAIN ss[j] :
                ss[i][a] = ss[j][b] => i = j /\ a = b)
            => \A a, b \in DOMAIN FlattenSeq(ss) :
                FlattenSeq(ss)[a] = FlattenSeq(ss)[b] => a = b
<1>0. Len(ss) \in Nat /\ DOMAIN ss = 1..Len(ss) /\ \A i \in 1..Len(ss) : ss[i] \in Seq(X)
  OBVIOUS
<1>1. CASE ss = <<>>
  <2>1. FlattenSeq(ss) = <<>> /\ DOMAIN ss = {}
    BY <1>1 DEF FlattenSeq
  <2>2. Range(FlattenSeq(ss)) = {}
    BY <2>1 DEF Range
  <2> QED
    BY <2>1, <2>2
<1>2. CASE ss # <<>>
  <2> DEFINE Apart == \A i, j \in DOMAIN ss : \A a \in DOMAIN ss[i], b \in DOMAIN ss[j] :
                        ss[i][a] = ss[j][b] => i = j /\ a = b
  <2>1. PICK F : /\ FlattenSeq(ss) = F[Len(ss)]
                 /\ F[1] = ss[1]
                 /\ \A i \in 2..Len(ss) : F[i] = F[i - 1] \o ss[i]
    BY <1>2, FlattenTurns
  <2> DEFINE Typed(i) == F[i] \in Seq(X)
             Has(i) == \A x : x \in Range(F[i]) <=> \E j \in 1..i : x \in Range(ss[j])
             Once(i) == \A a, b \in DOMAIN F[i] : F[i][a] = F[i][b] => a = b
             P(i) == i > 0 => Typed(i) /\ Has(i) /\ (Apart => Once(i))
             T == {i \in 0..Len(ss) : P(i)}
  <2>2. ASSUME NEW i \in 1..Len(ss), P(i - 1) PROVE P(i)
    <3>1. CASE i = 1
      <4>1. F[i] = ss[1] /\ 1..i = {1} /\ ss[1] \in Seq(X)
        BY <1>0, <2>1, <3>1
      <4>2. Typed(i) /\ Has(i)
        BY <4>1
      <4>3. Apart => Once(i)
        BY <4>1, <1>0, <3>1
      <4> QED
        BY <4>2, <4>3
    <3>2. CASE i # 1
      <4>1. i \in 2..Len(ss) /\ i - 1 > 0 /\ 1..i = 1..(i - 1) \cup {i}
        BY <1>0, <3>2
      <4>2. F[i] = F[i - 1] \o ss[i] /\ ss[i] \in Seq(X)
        BY <1>0, <2>1, <4>1
      <4>3. F[i - 1] \in Seq(X) /\ Has(i - 1) /\ (Apart => Once(i - 1))
        BY <2>2, <4>1
      <4>4. Typed(i) /\ Range(F[i]) = Range(F[i - 1]) \cup Range(ss[i])
        <5> HIDE DEF Has, Once, Apart
        <5> QED
          BY <4>2, <4>3, ConcatFacts
      <4>5. Has(i)
        BY <4>1, <4>3, <4>4
      <4>6. ASSUME Apart PROVE Once(i)
        <5>1. Once(i - 1)
          BY <4>3, <4>6
        <5>2. \A a, b \in DOMAIN ss[i] : ss[i][a] = ss[i][b] => a = b
          BY <1>0, <4>1, <4>6
        <5>3. Range(F[i - 1]) \cap Range(ss[i]) = {}
          <6> SUFFICES ASSUME NEW x \in Range(F[i - 1]), x \in Range(ss[i]) PROVE FALSE
            OBVIOUS
          <6>1. PICK j \in 1..(i - 1) : x \in Range(ss[j])
            BY <4>3
          <6>2. PICK a \in DOMAIN ss[j] : ss[j][a] = x
            BY <6>1 DEF Range
          <6>3. PICK b \in DOMAIN ss[i] : ss[i][b] = x
            BY DEF Range
          <6>4. j \in DOMAIN ss /\ i \in DOMAIN ss /\ i # j
            BY <1>0, <4>1
          <6> QED
            BY <4>6, <6>2, <6>3, <6>4
        <5> DEFINE u == F[i - 1] \o ss[i]
        <5>4. \A a, b \in DOMAIN u : u[a] = u[b] => a = b
          <6> DEFINE s == F[i - 1]
                     t == ss[i]
          <6>1. /\ s \in Seq(X) /\ t \in Seq(X) /\ Range(s) \cap Range(t) = {}
                /\ \A a, b \in DOMAIN s : s[a] = s[b] => a = b
                /\ \A a, b \in DOMAIN t : t[a] = t[b] => a = b
            BY <4>2, <4>3, <5>1, <5>2, <5>3
          <6> HIDE DEF s, t
          <6>2. \A a, b \in DOMAIN (s \o t) : (s \o t)[a] = (s \o t)[b] => a = b
            BY <6>1, ConcatFacts
          <6> QED
            BY <6>2 DEF s, t
        <5> QED
          BY <4>2, <5>4
      <4> QED
        BY <4>4, <4>5, <4>6
    <3> QED
      BY <3>1, <3>2
  <2>3. \A i \in 0..Len(ss) : i \in T
    <3>1. 0 \in T /\ \A i \in 1..Len(ss) : i - 1 \in T => i \in T
      <4>1. P(0)
        OBVIOUS
      <4> HIDE DEF P
      <4> QED
        BY <1>0, <2>2, <4>1
    <3> HIDE DEF T
    <3> QED
      BY <1>0, <3>1, Induction
  <2>4. Typed(Len(ss)) /\ Has(Len(ss)) /\ (Apart => Once(Len(ss)))
    <3>1. Len(ss) > 0 /\ Len(ss) \in 0..Len(ss)
      BY <1>0, <1>2
    <3>2. P(Len(ss))
      <4> HIDE DEF P
      <4> QED
        BY <2>3, <3>1
    <3> HIDE DEF Typed, Has, Once, Apart
    <3> QED
      BY <3>1, <3>2
  <2> QED
    BY <1>0, <2>1, <2>4
<1> QED
  BY <1>1, <1>2

-----------------------------------------------------------------------------
(* What a request for a list is answered with.                               *)

\* What is listed is finite, and no two of its containers have one name and id.
LEMMA ListedNames ==
  ASSUME NEW cs \in Listing
  PROVE  /\ Range(List(cs)) \in SUBSET Container /\ IsFiniteSet(Range(List(cs)))
         /\ \A c, d \in Range(List(cs)) : c.id = d.id \/ c.name = d.name => c = d
<1>1. Range(List(cs)) \in SUBSET Container /\ IsFiniteSet(Range(List(cs)))
  BY ListFacts, RangeFinite
<1>2. ASSUME NEW c \in Range(List(cs)), NEW d \in Range(List(cs)),
             c.id = d.id \/ c.name = d.name
      PROVE  c = d
  <2>1. PICK i \in DOMAIN List(cs) : c = List(cs)[i]
    BY DEF Range
  <2>2. PICK j \in DOMAIN List(cs) : d = List(cs)[j]
    BY DEF Range
  <2>3. i = j
    BY <1>2, <2>1, <2>2, ListFacts
  <2> QED
    BY <2>1, <2>2, <2>3
<1> QED
  BY <1>1, <1>2

\* A search gives the containers that match, each once.
LEMMA SearchFacts ==
  ASSUME NEW cs \in Listing, NEW p, NEW s \in Search(cs, p)
  PROVE  /\ s \in Seq(Container)
         /\ Range(s) = {c \in Range(List(cs)) : matchesSearch(c, p)}
         /\ \A i, j \in DOMAIN s : s[i] = s[j] => i = j
         /\ \A i, j \in DOMAIN s : i < j => ~Before(p.sort, s[j], s[i])
<1> DEFINE S == {c \in Range(List(cs)) : matchesSearch(c, p)}
<1>1. IsFiniteSet(S) /\ S \subseteq Container
  BY ListedNames, FS_Subset
<1>2. s \in SetToSeqs(S) /\ \A i, j \in DOMAIN s : i < j => ~Before(p.sort, s[j], s[i])
  BY DEF Search, Sorted
<1> HIDE DEF S
<1>3. /\ s \in Seq(S) /\ Range(s) = S
      /\ \A i, j \in DOMAIN s : s[i] = s[j] => i = j
  BY <1>1, <1>2, ArrangedFacts
<1>4. s \in Seq(Container)
  BY <1>1, <1>3
<1> QED
  BY <1>2, <1>3, <1>4 DEF S

\* Searched for with a sort that names decide, they come in one order only.
LEMMA OneSearch ==
  ASSUME NEW cs \in Listing, NEW p, p.sort \notin {"status", "created"},
         NEW s \in Search(cs, p), NEW t \in Search(cs, p)
  PROVE  s = t
<1> DEFINE Less == {cd \in Container \X Container : Before(p.sort, cd[1], cd[2])}
<1>1. /\ s \in Seq(Container) /\ t \in Seq(Container) /\ Range(s) = Range(t)
      /\ Range(s) \subseteq Range(List(cs))
      /\ \A i, j \in DOMAIN s : s[i] = s[j] => i = j
      /\ \A i, j \in DOMAIN t : t[i] = t[j] => i = j
      /\ \A i, j \in DOMAIN s : i < j => ~Before(p.sort, s[j], s[i])
      /\ \A i, j \in DOMAIN t : i < j => ~Before(p.sort, t[j], t[i])
  <2> DEFINE S == {c \in Range(List(cs)) : matchesSearch(c, p)}
  <2>1. /\ s \in Seq(Container) /\ Range(s) = S
        /\ \A i, j \in DOMAIN s : s[i] = s[j] => i = j
        /\ \A i, j \in DOMAIN s : i < j => ~Before(p.sort, s[j], s[i])
    BY SearchFacts
  <2>2. /\ t \in Seq(Container) /\ Range(t) = S
        /\ \A i, j \in DOMAIN t : t[i] = t[j] => i = j
        /\ \A i, j \in DOMAIN t : i < j => ~Before(p.sort, t[j], t[i])
    BY SearchFacts
  <2>3. S \subseteq Range(List(cs))
    OBVIOUS
  <2> HIDE DEF S
  <2> QED
    BY <2>1, <2>2, <2>3
<1>2. \A c, d \in Range(s) : c = d \/ <<c, d>> \in Less \/ <<d, c>> \in Less
  <2> SUFFICES ASSUME NEW c \in Range(s), NEW d \in Range(s), c # d
               PROVE  /\ c \in Container /\ d \in Container
                      /\ Before(p.sort, c, d) \/ Before(p.sort, d, c)
    OBVIOUS
  <2>1. c \in Container /\ d \in Container /\ c.name # d.name
    BY <1>1, ListedNames
  <2>2. /\ c.labels.priority \in Int /\ d.labels.priority \in Int
        /\ c.name \in Text /\ d.name \in Text
    BY <2>1 DEF Container, Labels
  <2>3. Rank[c.name] \in Int /\ Rank[d.name] \in Int /\ Rank[c.name] # Rank[d.name]
    BY <2>1, <2>2, RankAssumption
  <2>4. CASE p.sort = "name"
    BY <2>1, <2>3, <2>4 DEF Before
  <2>5. CASE p.sort # "name"
    <3>1. /\ Before(p.sort, c, d) <=> ByPriority(c, d)
          /\ Before(p.sort, d, c) <=> ByPriority(d, c)
      BY <2>5 DEF Before
    <3>2. ByPriority(c, d) \/ ByPriority(d, c)
      BY <2>2, <2>3 DEF ByPriority
    <3> QED
      BY <2>1, <3>1, <3>2
  <2> QED
    BY <2>4, <2>5
<1>3. /\ \A i, j \in DOMAIN s : i < j => <<s[j], s[i]>> \notin Less
      /\ \A i, j \in DOMAIN t : i < j => <<t[j], t[i]>> \notin Less
  BY <1>1
<1> HIDE DEF Less
<1> QED
  BY <1>1, <1>2, <1>3, OneOrder

\* What the filter by group leaves.
Selected(cs, p) ==
    {c \in Range(List(cs)) : p.group \in {Empty, GroupName(c.labels)}}

\* A page that is not a search has the selected groups, whole and sorted.
LEMMA PageFacts ==
  ASSUME NEW cs \in Listing, NEW p, ~Searched(p),
         NEW v \in handlePartialContainers(cs, p)
  PROVE  AreSortedGroupsOf(v, Selected(cs, p))
<1> DEFINE C == Range(List(cs))
<1>1. p.query = Empty /\ p.status = Empty /\ p.tag = Empty
  BY DEF Searched
<1>2. CASE p.group = Empty
  <2>1. v \in ListGrouped(cs)
    BY <1>1, <1>2 DEF handlePartialContainers
  <2>2. Selected(cs, p) = C
    BY <1>2 DEF Selected
  <2> QED
    BY <2>1, <2>2, ListGroupedFacts
<1>3. CASE p.group # Empty
  <2> DEFINE K(gs) == {g \in Range(gs) : g.name = p.group}
  <2>1. PICK gs \in ListGrouped(cs) : v = Kept(gs, K(gs))
    BY <1>1, <1>3 DEF handlePartialContainers
  <2>2. AreSortedGroupsOf(gs, C)
    BY ListGroupedFacts
  <2>3. gs \in Seq(PageGroup)
    BY <2>2 DEF AreSortedGroupsOf
  <2>4. /\ v \in Seq(PageGroup)
        /\ \A x : x \in Range(v) <=> x \in K(gs)
        /\ \A a, b \in DOMAIN v : a < b =>
              \E k, l \in DOMAIN gs : k < l /\ gs[k] = v[a] /\ gs[l] = v[b]
    <3> DEFINE Q == K(gs)
    <3>1. v = Kept(gs, Q)
      BY <2>1
    <3> HIDE DEF Q
    <3>2. /\ v \in Seq(PageGroup)
          /\ \A x : x \in Range(v) <=> x \in Q /\ x \in Range(gs)
          /\ \A a, b \in DOMAIN v : a < b =>
                \E k, l \in DOMAIN gs : k < l /\ gs[k] = v[a] /\ gs[l] = v[b]
      BY <2>3, <3>1, KeepingFacts
    <3> QED
      BY <3>2 DEF Q
  <2>5. \A c \in C : c \in Selected(cs, p) <=> GroupName(c.labels) = p.group
    BY <1>3 DEF Selected
  <2>6. ASSUME NEW i \in DOMAIN v
        PROVE  \E k \in DOMAIN gs : gs[k] = v[i] /\ v[i].name = p.group
    <3>1. v[i] \in K(gs)
      BY <2>4 DEF Range
    <3> QED
      BY <3>1 DEF Range
  <2>7. ASSUME NEW i \in DOMAIN v, NEW j \in DOMAIN v, i < j
        PROVE  ~GroupBefore(v[j], v[i]) /\ v[i].name # v[j].name
    <3>1. PICK k, l \in DOMAIN gs : k < l /\ gs[k] = v[i] /\ gs[l] = v[j]
      BY <2>4, <2>7
    <3>2. k # l
      BY <2>3, <3>1
    <3> QED
      BY <2>2, <3>1, <3>2 DEF AreSortedGroupsOf
  <2>8. \A i, j \in DOMAIN v : v[i].name = v[j].name => i = j
    <3>1. \A i, j \in DOMAIN v : i = j \/ i < j \/ j < i
      BY <2>4
    <3> QED
      BY <2>7, <3>1
  <2>9. \A c \in Selected(cs, p) : \E i \in DOMAIN v : v[i].name = GroupName(c.labels)
    <3> TAKE c \in Selected(cs, p)
    <3>1. c \in C /\ GroupName(c.labels) = p.group
      BY <2>5 DEF Selected
    <3>2. PICK k \in DOMAIN gs : gs[k].name = p.group
      BY <2>2, <3>1 DEF AreSortedGroupsOf
    <3>3. gs[k] \in Range(v)
      BY <2>4, <3>2 DEF Range
    <3> QED
      BY <3>1, <3>2, <3>3 DEF Range
  <2>10. {c \in Selected(cs, p) : GroupName(c.labels) = p.group}
           = {c \in C : GroupName(c.labels) = p.group}
    BY DEF Selected
  <2>11. ASSUME NEW i \in DOMAIN v
         PROVE  LET Named == {c \in Selected(cs, p) : GroupName(c.labels) = v[i].name}
                IN  /\ Range(v[i].containers) = Named
                    /\ \A j, k \in DOMAIN v[i].containers :
                        v[i].containers[j] = v[i].containers[k] => j = k
                    /\ \A j, k \in DOMAIN v[i].containers :
                        j < k => ~ByPriority(v[i].containers[k], v[i].containers[j])
                    /\ \E c \in Named : c.labels.priority = v[i].priority
                    /\ \A c \in Named : v[i].priority <= c.labels.priority
    <3>1. PICK k \in DOMAIN gs : gs[k] = v[i] /\ v[i].name = p.group
      BY <2>6
    <3> HIDE DEF C
    <3> QED
      BY <2>2, <2>10, <3>1 DEF AreSortedGroupsOf
  <2> QED
    BY <2>4, <2>7, <2>8, <2>9, <2>11 DEF AreSortedGroupsOf
<1> QED
  BY <1>2, <1>3

\* The containers that are one after the other in a grouped list are those that
\* were grouped, each once.
LEMMA GroupedOnce ==
  ASSUME NEW C \in SUBSET Container, NEW v, AreSortedGroupsOf(v, C)
  PROVE  LET flat == FlattenSeq([i \in DOMAIN v |-> v[i].containers])
         IN  /\ flat \in Seq(Container) /\ Range(flat) = C
             /\ \A a, b \in DOMAIN flat : flat[a] = flat[b] => a = b
<1> DEFINE ss == [i \in DOMAIN v |-> v[i].containers]
<1>1. v \in Seq(PageGroup) /\ \A i \in DOMAIN v : v[i] \in PageGroup
  BY DEF AreSortedGroupsOf
<1>2. ss \in Seq(Seq(Container)) /\ DOMAIN ss = DOMAIN v
  <2>1. \A i \in DOMAIN v : v[i].containers \in Seq(Container)
    BY <1>1 DEF PageGroup
  <2>2. DOMAIN v = 1..Len(v) /\ Len(v) \in Nat
    BY <1>1
  <2> QED
    BY <2>1, <2>2
<1>3. \A i \in DOMAIN v : Range(ss[i]) = {c \in C : GroupName(c.labels) = v[i].name}
  BY DEF AreSortedGroupsOf
<1>4. \A i \in DOMAIN v : \A a, b \in DOMAIN ss[i] : ss[i][a] = ss[i][b] => a = b
  BY DEF AreSortedGroupsOf
<1>5. ASSUME NEW i \in DOMAIN ss, NEW j \in DOMAIN ss,
             NEW a \in DOMAIN ss[i], NEW b \in DOMAIN ss[j], ss[i][a] = ss[j][b]
      PROVE  i = j /\ a = b
  <2>1. ss[i][a] \in Range(ss[i]) /\ ss[j][b] \in Range(ss[j])
    BY DEF Range
  <2>2. v[i].name = v[j].name
    BY <1>2, <1>3, <1>5, <2>1
  <2>3. i = j
    BY <1>2, <2>2 DEF AreSortedGroupsOf
  <2> QED
    BY <1>2, <1>4, <1>5, <2>3
<1>6. \A c \in C : \E i \in DOMAIN v : v[i].name = GroupName(c.labels)
  BY DEF AreSortedGroupsOf
<1> HIDE DEF ss
<1>7. /\ FlattenSeq(ss) \in Seq(Container)
      /\ \A x : x \in Range(FlattenSeq(ss)) <=> \E i \in DOMAIN ss : x \in Range(ss[i])
      /\ \A a, b \in DOMAIN FlattenSeq(ss) :
            FlattenSeq(ss)[a] = FlattenSeq(ss)[b] => a = b
  BY <1>2, <1>5, FlattenFacts
<1>8. Range(FlattenSeq(ss)) = C
  <2>1. ASSUME NEW c \in C PROVE c \in Range(FlattenSeq(ss))
    BY <1>2, <1>3, <1>6, <1>7
  <2>2. ASSUME NEW c \in Range(FlattenSeq(ss)) PROVE c \in C
    BY <1>2, <1>3, <1>7
  <2> QED
    BY <2>1, <2>2
<1> QED
  BY <1>7, <1>8 DEF ss

\* What a page shows: the containers a search matches, or the selected groups.
Answer(cs, p) ==
    IF Searched(p) THEN {c \in Range(List(cs)) : matchesSearch(c, p)}
    ELSE Selected(cs, p)

\* A page shows its answer, no container of it twice.
LEMMA PageOnce ==
  ASSUME NEW cs \in Listing, NEW p, NEW v \in handlePartialContainers(cs, p)
  PROVE  LET flat == FlattenSeq([i \in DOMAIN v |-> v[i].containers])
         IN  /\ flat \in Seq(Container) /\ Range(flat) = Answer(cs, p)
             /\ \A a, b \in DOMAIN flat : flat[a] = flat[b] => a = b
<1>1. CASE ~Searched(p)
  <2>1. AreSortedGroupsOf(v, Selected(cs, p))
    BY <1>1, PageFacts
  <2>2. Selected(cs, p) \in SUBSET Container
    BY ListedNames DEF Selected
  <2>3. Answer(cs, p) = Selected(cs, p)
    BY <1>1 DEF Answer
  <2> HIDE DEF Selected
  <2>4. LET flat == FlattenSeq([i \in DOMAIN v |-> v[i].containers])
        IN  /\ flat \in Seq(Container) /\ Range(flat) = Selected(cs, p)
            /\ \A a, b \in DOMAIN flat : flat[a] = flat[b] => a = b
    BY <2>1, <2>2, GroupedOnce
  <2> QED
    BY <2>3, <2>4
<1>2. CASE Searched(p)
  <2>1. PICK s \in Search(cs, p) : v = SearchResults(s)
    BY <1>2 DEF Searched, handlePartialContainers
  <2>2. /\ s \in Seq(Container) /\ Range(s) = Answer(cs, p)
        /\ \A i, j \in DOMAIN s : s[i] = s[j] => i = j
    BY <1>2, SearchFacts DEF Answer
  <2> DEFINE ss == [i \in DOMAIN v |-> v[i].containers]
  <2>3. ss = <<s>>
    <3> DEFINE g == [name |-> "Search Results", priority |-> 0, containers |-> s]
    <3>0. v = <<g>> /\ g.containers = s
      BY <2>1 DEF SearchResults
    <3> HIDE DEF g
    <3>1. DOMAIN v = 1..1 /\ v[1].containers = s
      BY <3>0
    <3>2. ss = [i \in 1..1 |-> s]
      BY <3>1
    <3> QED
      BY <3>2
  <2> HIDE DEF ss
  <2>4. FlattenSeq(ss) = s
    <3>1. ss \in Seq(Seq(Container)) /\ ss # <<>> /\ Len(ss) = 1 /\ ss[1] = s
      BY <2>2, <2>3
    <3> QED
      BY <3>1, FlattenTurns
  <2> QED
    BY <2>2, <2>4 DEF ss
<1> QED
  BY <1>1, <1>2

\* The page, or the JSON, is what a handler gives for the last request.
AnsweredInv ==
    /\ containers \in Listing
    /\ asked \in Param \cup {NoParam}
    /\ \/ page \in handlePartialContainers(containers, asked) /\ json = <<>>
       \/ page = <<>> /\ json \in Search(containers, asked)

\* A request without parameters is answered with the list in its groups.
LEMMA Unasked == \A cs : handlePartialContainers(cs, NoParam) = ListGrouped(cs)
BY DEF handlePartialContainers, NoParam

\* The page shows the groups of the list before any request.
LEMMA InitAnswered == HandlersInit => AnsweredInv
BY Unasked DEF HandlersInit, Init, AnsweredInv

\* Every request is answered by its handler, from the list as it is.
LEMMA AnsweredStep ==
  AnsweredInv /\ [HandlersNext]_<<listVars, route, response, oneVars>> => AnsweredInv'
<1> SUFFICES ASSUME AnsweredInv, [HandlersNext]_<<listVars, route, response, oneVars>>
             PROVE  AnsweredInv'
  OBVIOUS
<1> USE DEF AnsweredInv
<1>1. CASE UNCHANGED listVars
  BY <1>1 DEF listVars
<1>2. ASSUME NEW p \in Param, PartialContainers(p) PROVE AnsweredInv'
  BY <1>2 DEF PartialContainers, ServePartial
<1>3. ASSUME NEW p \in Param, APIContainers(p) PROVE AnsweredInv'
  BY <1>3 DEF APIContainers, ServeAPI
<1>4. ASSUME NEW r, NEW a, Request(r, a) PROVE UNCHANGED listVars
  BY <1>4 DEF Request
<1>5. ASSUME NEW r, NEW a, NotInspected(r, a) PROVE UNCHANGED listVars
  BY <1>5 DEF NotInspected
<1>6. ASSUME NEW r, NEW raw, InspectionPanics(r, raw) PROVE UNCHANGED listVars
  BY <1>6 DEF InspectionPanics
<1>7. ASSUME NEW raw, handlePartialContainerCard(raw) PROVE UNCHANGED listVars
  BY <1>7 DEF handlePartialContainerCard
<1>8. ASSUME NEW r, NEW raw, Detail(r, raw) PROVE UNCHANGED listVars
  BY <1>8 DEF Detail
<1>9. CASE NextRequest
  BY <1>9, Unasked DEF NextRequest
<1> QED
  BY <1>1, <1>2, <1>3, <1>4, <1>5, <1>6, <1>7, <1>8, <1>9 DEF HandlersNext

\* So the page, or the JSON, is always an answer to the last request.
LEMMA Answered == HandlersSpec => []AnsweredInv
<1>1. AnsweredInv /\ [HandlersNext]_<<listVars, route, response, oneVars>> => AnsweredInv'
  BY AnsweredStep
<1> QED
  BY <1>1, InitAnswered, PTL DEF HandlersSpec

-----------------------------------------------------------------------------
(* What follows for every list Docker may give.                              *)

\* Every group of a page has a name and, unless it is the pseudo-group of a
\* search, containers.
THEOREM ListTypeOK == HandlersSpec => []TypeOK
<1>1. AnsweredInv => TypeOK
  <2> SUFFICES ASSUME AnsweredInv PROVE TypeOK
    OBVIOUS
  <2>1. page # <<>> => json = <<>> /\ page \in handlePartialContainers(containers, asked)
    BY DEF AnsweredInv
  <2>2. ASSUME NEW i \in DOMAIN page
        PROVE  /\ page[i].name # Empty
               /\ page[i].priority \in Int
               /\ page[i].containers = <<>> => Searched(asked)
    <3>1. page \in handlePartialContainers(containers, asked) /\ containers \in Listing
      BY <2>1, <2>2 DEF AnsweredInv
    <3>2. CASE Searched(asked)
      <4>1. PICK s \in Search(containers, asked) : page = SearchResults(s)
        BY <3>1, <3>2 DEF Searched, handlePartialContainers
      <4> DEFINE g == [name |-> "Search Results", priority |-> 0, containers |-> s]
      <4>2. page = <<g>> /\ g.name = "Search Results" /\ g.priority = 0
        BY <4>1 DEF SearchResults
      <4> HIDE DEF g
      <4>3. page[i] = g
        <5>1. \A x : DOMAIN <<x>> = 1..1 /\ <<x>>[1] = x
          OBVIOUS
        <5>2. DOMAIN page = 1..1 /\ page[1] = g
          BY <4>2, <5>1
        <5>3. i = 1
          BY <2>2, <5>2
        <5> QED
          BY <5>2, <5>3
      <4>4. page[i].name # Empty
        BY <4>2, <4>3 DEF Empty
      <4>5. page[i].priority \in Int
        <5>1. page[i].priority = 0
          BY <4>2, <4>3
        <5> QED
          BY <5>1
      <4>6. page[i].containers = <<>> => Searched(asked)
        BY <3>2
      <4> QED
        BY <4>4, <4>5, <4>6
    <3>3. CASE ~Searched(asked)
      <4> DEFINE C == Selected(containers, asked)
      <4>1. AreSortedGroupsOf(page, C)
        BY <3>1, <3>3, PageFacts
      <4>2. PICK c \in C : GroupName(c.labels) = page[i].name
        BY <2>2, <4>1 DEF AreSortedGroupsOf
      <4>3. c \in Container
        BY <3>1, ListedNames DEF Selected
      <4>4. page[i].priority \in Int
        <5>1. page[i] \in PageGroup
          BY <2>2, <4>1 DEF AreSortedGroupsOf
        <5> QED
          BY <5>1 DEF PageGroup
      <4>5. page[i].containers # <<>>
        <5>1. c \in Range(page[i].containers)
          BY <2>2, <4>1, <4>2 DEF AreSortedGroupsOf
        <5> QED
          BY <5>1 DEF Range
      <4> QED
        BY <4>2, <4>3, <4>4, <4>5, GroupNameType
    <3> QED
      BY <3>2, <3>3
  <2> QED
    BY <2>1, <2>2 DEF TypeOK, AnsweredInv
<1> QED
  BY <1>1, Answered, PTL

\* Containers that all have an identifier of their own are as many as these.
LEMMA CountIds ==
  ASSUME NEW s \in Seq(Container), \A i, j \in DOMAIN s : s[i].id = s[j].id => i = j
  PROVE  Len(s) = Cardinality(Ids(Range(s)))
<1> DEFINE f == [i \in 1..Len(s) |-> s[i].id]
<1>1. Len(s) \in Nat /\ DOMAIN s = 1..Len(s)
  OBVIOUS
<1>2. \A x : x \in Ids(Range(s)) <=> \E i \in 1..Len(s) : x = s[i].id
  BY <1>1 DEF Ids, Range
<1>3. f \in [1..Len(s) -> Ids(Range(s))]
  BY <1>2
<1>4. \A x \in Ids(Range(s)) : \E i \in 1..Len(s) : f[i] = x
  BY <1>2
<1>5. \A i, j \in 1..Len(s) : f[i] = f[j] => i = j
  BY <1>1
<1> HIDE DEF f
<1>6. f \in Bijection(1..Len(s), Ids(Range(s)))
  BY <1>3, <1>4, <1>5 DEF Bijection, Injection, Surjection, IsInjective
<1>7. ExistsBijection(1..Len(s), Ids(Range(s)))
  BY <1>6 DEF ExistsBijection
<1> QED
  BY <1>1, <1>7, FS_CountingElements

\* What the page and the JSON show together, one of the two being empty.
LEMMA ShownIsOne ==
  ASSUME AnsweredInv
  PROVE  /\ Shown \in Seq(Container)
         /\ Range(Shown) \subseteq Range(List(containers))
         /\ Unfiltered(asked) => Range(Shown) = Range(List(containers))
         /\ \A i, j \in DOMAIN Shown : Shown[i] = Shown[j] => i = j
<1> DEFINE ss == [i \in DOMAIN page |-> page[i].containers]
<1>1. /\ containers \in Listing
      /\ \/ page \in handlePartialContainers(containers, asked) /\ json = <<>>
         \/ page = <<>> /\ json \in Search(containers, asked)
  BY DEF AnsweredInv
<1>2. ASSUME Unfiltered(asked)
      PROVE  /\ \A c : matchesSearch(c, asked)
             /\ asked.group = Empty
  <2>1. asked.query = Empty /\ asked.status = Empty /\ asked.group = Empty
        /\ asked.tag = Empty
    BY <1>2 DEF Unfiltered
  <2> QED
    BY <2>1 DEF matchesSearch
<1>3. CASE page \in handlePartialContainers(containers, asked) /\ json = <<>>
  <2>1. /\ FlattenSeq(ss) \in Seq(Container)
        /\ Range(FlattenSeq(ss)) = Answer(containers, asked)
        /\ \A i, j \in DOMAIN FlattenSeq(ss) :
                FlattenSeq(ss)[i] = FlattenSeq(ss)[j] => i = j
    BY <1>1, <1>3, PageOnce
  <2>2. Shown = FlattenSeq(ss)
    <3>1. Shown = FlattenSeq(ss) \o <<>>
      BY <1>3 DEF Shown
    <3> HIDE DEF ss
    <3> QED
      BY <2>1, <3>1
  <2>3. Answer(containers, asked) \subseteq Range(List(containers))
    BY DEF Answer, Selected
  <2>4. Unfiltered(asked) => Answer(containers, asked) = Range(List(containers))
    BY <1>2 DEF Answer, Selected
  <2> QED
    BY <2>1, <2>2, <2>3, <2>4
<1>4. CASE page = <<>> /\ json \in Search(containers, asked)
  <2>1. /\ json \in Seq(Container)
        /\ Range(json) = {c \in Range(List(containers)) : matchesSearch(c, asked)}
        /\ \A i, j \in DOMAIN json : json[i] = json[j] => i = j
    BY <1>1, <1>4, SearchFacts
  <2>2. Shown = json
    <3>1. ss = <<>>
      BY <1>4
    <3>2. FlattenSeq(ss) = <<>>
      <4> HIDE DEF ss
      <4> QED
        BY <3>1 DEF FlattenSeq
    <3>3. Shown = <<>> \o json
      BY <3>2 DEF Shown
    <3> QED
      BY <2>1, <3>3
  <2> QED
    BY <1>2, <2>1, <2>2
<1> QED
  BY <1>1, <1>3, <1>4

\* Grouping, filtering and sorting lose no container, show none twice and none
\* that is hidden.
THEOREM NothingLost == HandlersSpec => []NothingLostNothingHidden
<1>1. AnsweredInv => NothingLostNothingHidden
  <2> SUFFICES ASSUME AnsweredInv PROVE NothingLostNothingHidden
    OBVIOUS
  <2>1. containers \in Listing
    BY DEF AnsweredInv
  <2>2. /\ Shown \in Seq(Container)
        /\ Range(Shown) \subseteq Range(List(containers))
        /\ Unfiltered(asked) => Range(Shown) = Range(List(containers))
        /\ \A i, j \in DOMAIN Shown : Shown[i] = Shown[j] => i = j
    BY ShownIsOne
  <2>3. \A i, j \in DOMAIN Shown : Shown[i].id = Shown[j].id => i = j
    <3> TAKE i, j \in DOMAIN Shown
    <3> HAVE Shown[i].id = Shown[j].id
    <3>1. Shown[i] \in Range(Shown) /\ Shown[j] \in Range(Shown)
      BY DEF Range
    <3>2. Shown[i] \in Range(List(containers)) /\ Shown[j] \in Range(List(containers))
      BY <2>2, <3>1
    <3>3. Shown[i] = Shown[j]
      BY <2>1, <3>2, ListedNames
    <3> QED
      BY <2>2, <3>3
  <2>4. Len(Shown) = Cardinality(Ids(Range(Shown)))
    BY <2>2, <2>3, CountIds
  <2>5. Ids(Range(List(containers))) = Ids({c \in Range(containers) : ~Hidden(c)})
    <3>1. /\ \A c \in Range(List(containers)) :
                \E b \in Range(containers) : ~Hidden(b) /\ b.id = c.id
          /\ \A b \in Range(containers) : ~Hidden(b) =>
                \E c \in Range(List(containers)) : c.id = b.id
      BY <2>1, ListFacts
    <3> QED
      BY <3>1 DEF Ids
  <2>6. Ids(Range(Shown)) \subseteq Ids(Range(List(containers)))
    BY <2>2 DEF Ids
  <2> QED
    BY <2>2, <2>4, <2>5, <2>6 DEF NothingLostNothingHidden
<1> QED
  BY <1>1, Answered, PTL

\* The groups are in the order of the lowest priority of their containers, and
\* the containers of each in that of theirs.
THEOREM GroupsAreInOrder == HandlersSpec => []GroupsInOrder
<1>1. AnsweredInv => GroupsInOrder
  <2> SUFFICES ASSUME AnsweredInv, ~Searched(asked), page # <<>> PROVE GroupsInOrder
    BY DEF GroupsInOrder
  <2> DEFINE C == Selected(containers, asked)
             Priorities(g) == {c.labels.priority : c \in Range(g.containers)}
             Lowest(g) == Min(Priorities(g))
  <2>1. containers \in Listing /\ page \in handlePartialContainers(containers, asked)
    BY DEF AnsweredInv
  <2>2. AreSortedGroupsOf(page, C)
    BY <2>1, PageFacts
  <2>3. C \in SUBSET Container
    BY <2>1, ListedNames DEF Selected
  <2> HIDE DEF C
  <2>4. \A c \in C : c.labels.priority \in Int
    BY <2>3 DEF Container, Labels
  <2>5. page \in Seq(PageGroup) /\ \A i \in DOMAIN page : page[i].priority \in Int
    <3>1. page \in Seq(PageGroup)
      BY <2>2 DEF AreSortedGroupsOf
    <3>2. \A i \in DOMAIN page : page[i] \in PageGroup
      BY <3>1
    <3> QED
      BY <3>1, <3>2 DEF PageGroup
  <2>6. ASSUME NEW i \in DOMAIN page
        PROVE  Lowest(page[i]) = page[i].priority
    <3> DEFINE P == Priorities(page[i])
    <3>1. Range(page[i].containers) = {c \in C : GroupName(c.labels) = page[i].name}
      BY <2>2 DEF AreSortedGroupsOf
    <3>2. P \in SUBSET Int
      BY <2>4, <3>1
    <3>3. page[i].priority \in P /\ \A x \in P : page[i].priority <= x
      BY <2>2, <3>1 DEF AreSortedGroupsOf
    <3> HIDE DEF P
    <3>4. Min(P) \in P /\ \A x \in P : Min(P) <= x
      BY <3>3 DEF Min
    <3>5. Min(P) = page[i].priority
      <4> DEFINE m == Min(P)
      <4>1. m <= page[i].priority /\ page[i].priority <= m /\ m \in Int
        BY <3>2, <3>3, <3>4
      <4> HIDE DEF m
      <4>2. m = page[i].priority
        BY <2>5, <4>1
      <4> QED
        BY <4>2 DEF m
    <3> QED
      BY <3>5 DEF P
  <2>7. \A i, j \in DOMAIN page : i < j => page[i].priority <= page[j].priority
    <3> TAKE i, j \in DOMAIN page
    <3> HAVE i < j
    <3>1. ~GroupBefore(page[j], page[i])
      BY <2>2 DEF AreSortedGroupsOf
    <3> QED
      BY <2>5, <3>1 DEF GroupBefore
  <2>8. ASSUME NEW i \in DOMAIN page, NEW j \in DOMAIN page[i].containers,
               NEW k \in DOMAIN page[i].containers, j < k
        PROVE  page[i].containers[j].labels.priority
                 <= page[i].containers[k].labels.priority
    <3>1. ~ByPriority(page[i].containers[k], page[i].containers[j])
      BY <2>2, <2>8 DEF AreSortedGroupsOf
    <3>2. page[i].containers[j] \in C /\ page[i].containers[k] \in C
      <4>1. Range(page[i].containers) \subseteq C
        BY <2>2 DEF AreSortedGroupsOf
      <4> QED
        BY <4>1 DEF Range
    <3> QED
      BY <2>4, <3>1, <3>2 DEF ByPriority
  <2> HIDE DEF Lowest
  <2>9. \A i, j \in DOMAIN page : i < j => Lowest(page[i]) <= Lowest(page[j])
    BY <2>6, <2>7
  <2> QED
    BY <2>8, <2>9 DEF GroupsInOrder, Lowest
<1> QED
  BY <1>1, Answered, PTL

\* A page has one order, whatever the order of the map and the ties of the sort.
THEOREM RefreshesAgree == HandlersSpec => []RefreshKeepsOrder
<1>1. AnsweredInv => RefreshKeepsOrder
  <2> SUFFICES ASSUME AnsweredInv, asked.sort \notin {"status", "created"},
                      NEW v \in handlePartialContainers(containers, asked),
                      NEW w \in handlePartialContainers(containers, asked)
               PROVE  v = w
    BY DEF RefreshKeepsOrder
  <2>1. containers \in Listing
    BY DEF AnsweredInv
  <2>2. CASE Searched(asked)
    <3>1. PICK s \in Search(containers, asked) : v = SearchResults(s)
      BY <2>2 DEF Searched, handlePartialContainers
    <3>2. PICK t \in Search(containers, asked) : w = SearchResults(t)
      BY <2>2 DEF Searched, handlePartialContainers
    <3>3. s = t
      BY <2>1, OneSearch
    <3> QED
      BY <3>1, <3>2, <3>3
  <2>3. CASE ~Searched(asked)
    <3> DEFINE C == Selected(containers, asked)
    <3>1. AreSortedGroupsOf(v, C) /\ AreSortedGroupsOf(w, C)
      BY <2>1, <2>3, PageFacts
    <3>2. C \in SUBSET Container /\ \A c, d \in C : c.name = d.name => c = d
      BY <2>1, ListedNames DEF Selected
    <3> HIDE DEF C
    <3> QED
      BY <3>1, <3>2, OneGrouping
  <2> QED
    BY <2>2, <2>3
<1> QED
  BY <1>1, Answered, PTL

\* Filtered by a group, the page and the API show the same but for the groups
\* whose names differ from it in case only, which only the API shows.
THEOREM FiltersAgree == HandlersSpec => []PageAndAPIAgree
<1>1. AnsweredInv => PageAndAPIAgree
  <2> DEFINE C == Range(List(containers))
             InCaseOnly(c) ==
                /\ ~Searched(asked) /\ asked.group # Empty
                /\ GroupName(c.labels) # asked.group
                /\ EqualFold(GroupName(c.labels), asked.group)
             Shows(v) == Range(FlattenSeq([i \in DOMAIN v |-> v[i].containers]))
  <2> SUFFICES ASSUME AnsweredInv,
                      NEW v \in handlePartialContainers(containers, asked),
                      NEW s \in Search(containers, asked)
               PROVE  /\ Shows(v) \subseteq Range(s)
                      /\ Range(s) \ Shows(v) = {c \in Range(s) : InCaseOnly(c)}
    BY DEF PageAndAPIAgree
  <2>1. containers \in Listing
    BY DEF AnsweredInv
  <2>2. Shows(v) = Answer(containers, asked)
    BY <2>1, PageOnce
  <2>3. Range(s) = {c \in C : matchesSearch(c, asked)}
    BY <2>1, SearchFacts
  <2>4. CASE Searched(asked)
    <3>1. Shows(v) = Range(s)
      BY <2>2, <2>3, <2>4 DEF Answer
    <3>2. \A c : ~InCaseOnly(c)
      BY <2>4
    <3> HIDE DEF Shows, InCaseOnly
    <3> QED
      BY <3>1, <3>2
  <2>5. CASE ~Searched(asked)
    <3>1. asked.query = Empty /\ asked.status = Empty /\ asked.tag = Empty
      BY <2>5 DEF Searched
    <3>2. \A c \in C : matchesSearch(c, asked)
            <=> (asked.group # Empty => EqualFold(GroupName(c.labels), asked.group))
      BY <3>1 DEF matchesSearch
    <3>3. EqualFold(asked.group, asked.group)
      BY DEF EqualFold
    <3>4. Shows(v) = {c \in C : asked.group \in {Empty, GroupName(c.labels)}}
      BY <2>2, <2>5 DEF Answer, Selected
    <3>5. \A c \in C : asked.group \in {Empty, GroupName(c.labels)}
                        => matchesSearch(c, asked)
      BY <3>2, <3>3
    <3>6. \A c \in C : matchesSearch(c, asked) =>
            (InCaseOnly(c) <=> asked.group \notin {Empty, GroupName(c.labels)})
      BY <3>2, <2>5
    <3> HIDE DEF C, Shows, InCaseOnly
    <3> QED
      BY <2>3, <3>4, <3>5, <3>6
  <2> QED
    BY <2>4, <2>5
<1> QED
  BY <1>1, Answered, PTL

-----------------------------------------------------------------------------
(* What becomes of a response in the middleware.                             *)

\* What a body is written in.
Part == {"part", "whole", "stream", "file", "RenderError", "ListFailed",
         "refused", "PageNotFound", "MethodNotAllowed", "MissingId", "NotFound",
         "Unauthorized", "InternalServerError"}

Response == [sent : Nat, status : Nat, body : Seq(Part), panicked : BOOLEAN,
             logged : BOOLEAN]

\* The status that is kept is the one that was sent, if any was, unless output
\* had begun or the connection was taken over.
StatusKept(w) ==
    \/ w.sent = 0 /\ w.status = 200
    \/ w.sent = w.status /\ w.sent # 0
    \/ w.sent = 101
    \/ Contains(w.body, "part")

\* A response a handler may leave, and one the client has.
Left(w) ==
    /\ w \in Response /\ ~w.logged
    /\ w.panicked => w.sent = 0 /\ w.body = <<>>
    /\ StatusKept(w)

Delivered(w) ==
    /\ w.logged /\ w.status # w.sent => w.sent = 101 \/ Contains(w.body, "part")
    /\ w.logged \/ w = W!Unauthorized
    /\ w.panicked => w.sent = 500 /\ w.body = <<"InternalServerError">>

\* What Write leaves of a response, field by field.
LEMMA WriteFields ==
  ASSUME NEW w \in Response, NEW part \in Part
  PROVE  LET v == W!Write(w, part)
         IN  /\ v \in Response /\ v.status = w.status /\ v.body = Append(w.body, part)
             /\ v.sent = IF w.sent = 0 THEN 200 ELSE w.sent
             /\ v.panicked = w.panicked /\ v.logged = w.logged
<1>1. w.body \in Seq(Part) /\ Append(w.body, part) \in Seq(Part)
  BY DEF Response
<1> QED
  BY <1>1 DEF W!Write, W!NoStatus, Response

\* What WriteHeader leaves of a response, field by field.
LEMMA WriteHeaderFields ==
  ASSUME NEW w \in Response, NEW code \in Nat
  PROVE  LET v == W!WriteHeader(w, code)
         IN  /\ v \in Response /\ v.status = code /\ v.body = w.body
             /\ v.sent = IF w.sent = 0 THEN code ELSE w.sent
             /\ v.panicked = w.panicked /\ v.logged = w.logged
BY DEF W!WriteHeader, W!NoStatus, Response

\* The response before anything is written.
LEMMA BlankFields ==
  /\ W!Blank \in Response /\ W!Blank.sent = 0 /\ W!Blank.status = 200
  /\ W!Blank.body = <<>> /\ ~W!Blank.panicked /\ ~W!Blank.logged
BY DEF W!Blank, W!NoStatus, Response

\* What was written stays, and is followed by more.
LEMMA BodyKept ==
  ASSUME NEW w \in Response, NEW part \in Part
  PROVE  /\ Contains(w.body, "part") => Contains(Append(w.body, part), "part")
         /\ Contains(Append(w.body, "part"), "part")
<1>1. w.body \in Seq(Part) /\ Len(w.body) \in Nat
  BY DEF Response
<1> DEFINE b == w.body
<1> HIDE DEF b
<1>2. b \in Seq(Part)
  BY <1>1 DEF b
<1>3. /\ Len(Append(b, part)) = Len(b) + 1
      /\ \A i \in 1..Len(b) : Append(b, part)[i] = b[i]
      /\ Len(Append(b, "part")) = Len(b) + 1 /\ Append(b, "part")[Len(b) + 1] = "part"
      /\ Len(b) \in Nat
  BY <1>2
<1>4. \A i \in 1..Len(b) : i \in 1..(Len(b) + 1)
  BY <1>3
<1>5. Len(b) + 1 \in 1..(Len(b) + 1)
  BY <1>3
<1> QED
  BY <1>3, <1>4, <1>5 DEF Contains, b

\* A response with these statuses, and one of which some output is sent.
At(w, sent, status) ==
    w \in Response /\ ~w.logged /\ ~w.panicked /\ w.sent = sent /\ w.status = status

Begun(w) == w \in Response /\ ~w.logged /\ ~w.panicked /\ Contains(w.body, "part")

\* A response with one status, or one that has begun, may be left.
LEMMA AtLeft ==
  ASSUME NEW w, NEW status \in Nat \ {0},
         At(w, status, status) \/ At(w, 0, 200) \/ At(w, 101, 200) \/ Begun(w)
  PROVE  Left(w)
BY DEF At, Begun, Left, StatusKept

\* Nothing is sent at first, and 200 is kept.
LEMMA BlankAt == At(W!Blank, 0, 200)
BY BlankFields DEF At

\* A first Write sends 200, or the status that was written before it.
LEMMA WriteAt ==
  ASSUME NEW w, NEW sent, NEW status, At(w, sent, status), NEW part \in Part
  PROVE  /\ At(W!Write(w, part), IF sent = 0 THEN 200 ELSE sent, status)
         /\ Begun(W!Write(w, "part"))
<1> DEFINE v == W!Write(w, part)
           u == W!Write(w, "part")
<1>1. w \in Response
  BY DEF At
<1>2. /\ v \in Response /\ v.status = w.status /\ v.logged = w.logged
      /\ v.sent = (IF w.sent = 0 THEN 200 ELSE w.sent) /\ v.panicked = w.panicked
  BY <1>1, WriteFields
<1>3. "part" \in Part
  BY DEF Part
<1>4. /\ u \in Response /\ u.logged = w.logged /\ u.panicked = w.panicked
      /\ u.body = Append(w.body, "part")
  BY <1>1, <1>3, WriteFields
<1>5. Contains(Append(w.body, "part"), "part")
  BY <1>1, <1>3, BodyKept
<1> HIDE DEF v, u
<1>6. At(v, IF sent = 0 THEN 200 ELSE sent, status)
  BY <1>2 DEF At
<1>7. Begun(u)
  BY <1>4, <1>5 DEF At, Begun
<1> QED
  BY <1>6, <1>7 DEF v, u

\* WriteHeader keeps its status, and sends it if it is the first.
LEMMA WriteHeaderAt ==
  ASSUME NEW w, NEW sent, NEW status, At(w, sent, status), NEW code \in Nat
  PROVE  At(W!WriteHeader(w, code), IF sent = 0 THEN code ELSE sent, code)
<1> DEFINE v == W!WriteHeader(w, code)
<1>1. w \in Response
  BY DEF At
<1>2. /\ v \in Response /\ v.status = code /\ v.logged = w.logged
      /\ v.sent = (IF w.sent = 0 THEN code ELSE w.sent) /\ v.panicked = w.panicked
  BY <1>1, WriteHeaderFields
<1> HIDE DEF v
<1>3. At(v, IF sent = 0 THEN code ELSE sent, code)
  BY <1>2 DEF At
<1> QED
  BY <1>3 DEF v

\* An error after output has begun leaves what was written.
LEMMA ErrorAfterBegun ==
  ASSUME NEW w, Begun(w), NEW msg \in Part, NEW code \in Nat
  PROVE  Begun(W!HttpError(w, msg, code))
<1> DEFINE v == W!WriteHeader(w, code)
           u == W!Write(v, msg)
<1>1. w \in Response
  BY DEF Begun
<1>2. /\ v \in Response /\ v.body = w.body /\ v.logged = w.logged
      /\ v.panicked = w.panicked
  BY <1>1, WriteHeaderFields
<1> HIDE DEF v
<1>3. /\ u \in Response /\ u.body = Append(v.body, msg) /\ u.logged = v.logged
      /\ u.panicked = v.panicked
  BY <1>2, WriteFields
<1>4. Contains(v.body, "part") => Contains(Append(v.body, msg), "part")
  BY <1>2, BodyKept
<1> HIDE DEF u
<1>5. Begun(u)
  BY <1>2, <1>3, <1>4 DEF Begun
<1> QED
  BY <1>5 DEF W!HttpError, u, v

\* An error before any output, and after a first status.
LEMMA ErrorAt ==
  ASSUME NEW w, NEW sent, NEW status, At(w, sent, status),
         NEW msg \in Part, NEW code \in Nat \ {0}, sent \in {0, code}
  PROVE  At(W!HttpError(w, msg, code), code, code)
<1> DEFINE v == W!WriteHeader(w, code)
<1>1. At(v, code, code)
  <2>1. (IF sent = 0 THEN code ELSE sent) = code
    OBVIOUS
  <2> QED
    BY <2>1, WriteHeaderAt
<1> HIDE DEF v
<1>2. At(W!Write(v, msg), code, code)
  <2>1. (IF code = 0 THEN 200 ELSE code) = code
    OBVIOUS
  <2> QED
    BY <1>1, <2>1, WriteAt
<1> QED
  BY <1>2 DEF W!HttpError, v

\* What is written before anything else, and the error that takes its place.
LEMMA FirstWritten ==
  ASSUME NEW msg \in Part, NEW code \in Nat \ {0}
  PROVE  /\ At(W!Write(W!Blank, msg), 200, 200) /\ Begun(W!Write(W!Blank, "part"))
         /\ At(W!HttpError(W!Blank, msg, code), code, code)
         /\ Begun(W!HttpError(W!Write(W!Blank, "part"), msg, code))
         /\ At(W!WriteHeader(W!Blank, code), code, code)
<1>1. At(W!Write(W!Blank, msg), 200, 200)
  BY BlankAt, WriteAt
<1>2. Begun(W!Write(W!Blank, "part"))
  BY BlankAt, WriteAt
<1>3. At(W!HttpError(W!Blank, msg, code), code, code)
  BY BlankAt, ErrorAt
<1>4. Begun(W!HttpError(W!Write(W!Blank, "part"), msg, code))
  BY <1>2, ErrorAfterBegun
<1>5. At(W!WriteHeader(W!Blank, code), code, code)
  BY BlankAt, WriteHeaderAt
<1> QED
  BY <1>1, <1>2, <1>3, <1>4, <1>5

\* What is written after a first status, and the error that takes its place.
LEMMA ThenWritten ==
  ASSUME NEW msg \in Part, NEW code \in Nat \ {0}
  PROVE  LET h == W!WriteHeader(W!Blank, code)
         IN  /\ At(W!Write(h, msg), code, code)
             /\ At(W!HttpError(h, msg, code), code, code)
             /\ Begun(W!HttpError(W!Write(h, "part"), msg, code))
<1> DEFINE h == W!WriteHeader(W!Blank, code)
<1>1. At(h, code, code)
  BY FirstWritten
<1> HIDE DEF h
<1>2. At(W!Write(h, msg), code, code)
  <2>1. (IF code = 0 THEN 200 ELSE code) = code
    OBVIOUS
  <2> QED
    BY <1>1, <2>1, WriteAt
<1>3. At(W!HttpError(h, msg, code), code, code)
  BY <1>1, ErrorAt
<1>4. Begun(W!Write(h, "part"))
  BY <1>1, WriteAt
<1>5. Begun(W!HttpError(W!Write(h, "part"), msg, code))
  BY <1>4, ErrorAfterBegun
<1> QED
  BY <1>2, <1>3, <1>5 DEF h

\* A connection that is taken over, and a panic before anything is written.
LEMMA TakenOver == Left(W!Hijack(W!Blank)) /\ Left(W!Panic(W!Blank))
<1>1. At(W!Hijack(W!Blank), 101, 200)
  BY BlankFields DEF W!Hijack, At, Response
<1>2. Left(W!Panic(W!Blank))
  BY BlankFields DEF W!Panic, Left, StatusKept, Response
<1> QED
  BY <1>1, <1>2, AtLeft

\* Whatever a helper writes may be left.
LEMMA HelpersLeave ==
  /\ \A w \in W!renderPage(W!Blank) : Left(w)
  /\ \A w \in W!renderPartial(W!Blank) : Left(w)
  /\ \A w \in W!renderError(W!Blank, "ListFailed", 500) : Left(w)
  /\ \A code \in Nat \ {0} : \A w \in W!writeJSON(W!Blank, code) : Left(w)
  /\ \A msg \in Part, code \in Nat \ {0} : Left(W!HttpError(W!Blank, msg, code))
  /\ \A msg \in Part : Left(W!Write(W!Blank, msg))
<1> DEFINE b == W!Blank
<1>1. \A msg \in Part : Left(W!Write(b, msg))
  BY FirstWritten, AtLeft
<1>2. \A msg \in Part, code \in Nat \ {0} : Left(W!HttpError(b, msg, code))
  BY FirstWritten, AtLeft
<1>3. \A msg \in Part, code \in Nat \ {0} : Left(W!HttpError(W!Write(b, "part"), msg, code))
  BY FirstWritten, AtLeft
<1>4. Left(b)
  BY BlankAt, AtLeft
<1>5. \A code \in Nat \ {0} : Left(W!WriteHeader(b, code))
  BY FirstWritten, AtLeft DEF Part
<1>6. \A msg \in Part, code \in Nat \ {0} :
        LET h == W!WriteHeader(b, code)
        IN  /\ Left(W!Write(h, msg)) /\ Left(W!HttpError(h, msg, code))
            /\ Left(W!HttpError(W!Write(h, "part"), msg, code))
  BY ThenWritten, AtLeft
<1> HIDE DEF b
<1>7. "whole" \in Part /\ "part" \in Part /\ "RenderError" \in Part
      /\ "ListFailed" \in Part
  BY DEF Part
<1>8. \A w \in W!renderPage(b) : Left(w)
  BY <1>1, <1>4, <1>7 DEF W!renderPage, W!Rendered, W!Unrendered
<1>9. \A w \in W!renderPartial(b) : Left(w)
  BY <1>1, <1>2, <1>3, <1>7 DEF W!renderPartial, W!Rendered, W!Unrendered
<1>10. \A w \in W!renderError(b, "ListFailed", 500) : Left(w)
  BY <1>6, <1>7 DEF W!renderError, W!Rendered, W!Unrendered
<1>11. \A code \in Nat \ {0} : \A w \in W!writeJSON(b, code) : Left(w)
  BY <1>5, <1>6, <1>7 DEF W!writeJSON, W!Rendered
<1> QED
  BY <1>1, <1>2, <1>8, <1>9, <1>10, <1>11 DEF b

\* Every handler leaves such a response, whether its call is answered or not.
LEMMA AnswersLeft == \A r, ok : \A w \in Answers(r, ok) : Left(w)
<1> SUFFICES ASSUME NEW r, NEW ok, NEW w \in Answers(r, ok) PROVE Left(w)
  OBVIOUS
<1>1. "stream" \in Part /\ "refused" \in Part /\ "PageNotFound" \in Part
      /\ "ListFailed" \in Part /\ "file" \in Part /\ "MethodNotAllowed" \in Part
  BY DEF Part
<1>2. \A u \in handleDashboard(ok) : Left(u)
  BY HelpersLeave DEF handleDashboard
<1>3. \A u \in handleHost(ok) : Left(u)
  BY HelpersLeave DEF handleHost
<1>4. \A u \in containersPartial(ok) : Left(u)
  BY HelpersLeave, <1>1 DEF containersPartial
<1>5. \A code \in Nat \ {0} : \A u \in API(code, ok) : Left(u)
  BY HelpersLeave DEF API
<1>6. \A u \in handleTerminalWS(ok) : Left(u)
  BY HelpersLeave, TakenOver, <1>1 DEF handleTerminalWS
<1>7. \A u \in handleSSE(ok) : Left(u)
  BY HelpersLeave, <1>1 DEF handleSSE
<1>8. /\ \A u \in NotFound : Left(u)
      /\ \A u \in MethodNotAllowed : Left(u)
      /\ \A u \in FileServer(ok) : Left(u)
  <2>1. \A msg \in Part, code \in Nat \ {0} : Left(W!HttpError(W!Blank, msg, code))
    BY HelpersLeave
  <2>2. 404 \in Nat \ {0} /\ 405 \in Nat \ {0}
    OBVIOUS
  <2>3. Left(W!HttpError(W!Blank, "PageNotFound", 404))
    BY <2>1, <2>2, <1>1
  <2>4. Left(W!HttpError(W!Blank, "MethodNotAllowed", 405))
    BY <2>1, <2>2, <1>1
  <2>5. Left(W!Write(W!Blank, "file"))
    BY <1>1, HelpersLeave
  <2> QED
    BY <2>3, <2>4, <2>5 DEF NotFound, MethodNotAllowed, FileServer
<1>9. (\A u \in API(500, ok) : Left(u)) /\ (\A u \in API(503, ok) : Left(u))
  BY <1>5
<1> QED
  BY <1>2, <1>3, <1>4, <1>6, <1>7, <1>8, <1>9 DEF Answers

\* A panic is recovered.
LEMMA Recovered ==
  ASSUME NEW w, Left(w)
  PROVE  LET x == W!recoveryMiddleware(w)
         IN  /\ x \in Response /\ StatusKept(x)
             /\ x.panicked => x.sent = 500 /\ x.body = <<"InternalServerError">>
<1> DEFINE x == W!recoveryMiddleware(w)
<1>1. w \in Response
  BY DEF Left
<1>2. CASE ~w.panicked
  BY <1>2, <1>1 DEF W!recoveryMiddleware, Left
<1>3. CASE w.panicked
  <2> DEFINE h == W!WriteHeader(w, 500)
             u == W!Write(h, "InternalServerError")
  <2>1. h \in Response /\ h.sent = 500 /\ h.status = 500 /\ h.body = <<>>
    BY <1>1, <1>3, WriteHeaderFields DEF Left
  <2> HIDE DEF h
  <2>2. "InternalServerError" \in Part
    BY DEF Part
  <2>3. /\ u \in Response /\ u.sent = 500 /\ u.status = 500
        /\ u.body = Append(<<>>, "InternalServerError")
    BY <2>1, <2>2, WriteFields
  <2>4. x = u
    BY <1>3 DEF W!recoveryMiddleware, W!HttpError, h
  <2>5. Append(<<>>, "InternalServerError") = <<"InternalServerError">>
    OBVIOUS
  <2> HIDE DEF x, u
  <2> QED
    BY <2>3, <2>4, <2>5 DEF StatusKept, x
<1> QED
  BY <1>2, <1>3

\* The chain delivers what a handler left, with its panic recovered and logged.
LEMMA ChainDelivers ==
  ASSUME NEW a, NEW responses, \A w \in responses : Left(w),
         NEW v \in W!chain(a, responses)
  PROVE  Delivered(v)
<1>1. CASE v = W!Unauthorized
  <2>1. "Unauthorized" \in Part
    BY DEF Part
  <2>2. At(W!Unauthorized, 401, 401)
    BY <2>1, FirstWritten DEF W!Unauthorized
  <2> QED
    BY <1>1, <2>2 DEF Delivered, At
<1>2. ASSUME NEW w \in responses,
             v = W!Finish(W!loggingMiddleware(W!recoveryMiddleware(w)))
      PROVE  Delivered(v)
  <2> DEFINE x == W!recoveryMiddleware(w)
             y == W!loggingMiddleware(x)
  <2>1. /\ x \in Response /\ StatusKept(x)
        /\ x.panicked => x.sent = 500 /\ x.body = <<"InternalServerError">>
    BY Recovered
  <2> HIDE DEF x
  <2>2. /\ y \in Response /\ y.logged /\ y.sent = x.sent /\ y.status = x.status
        /\ y.body = x.body /\ y.panicked = x.panicked
    BY <2>1 DEF W!loggingMiddleware, Response
  <2>3. v = IF y.sent = 0 THEN [y EXCEPT !.sent = 200] ELSE y
    BY <1>2 DEF W!Finish, W!NoStatus, x
  <2> HIDE DEF y
  <2>4. /\ v.logged /\ v.status = y.status /\ v.body = y.body /\ v.panicked = y.panicked
        /\ v.sent = IF y.sent = 0 THEN 200 ELSE y.sent
    BY <2>2, <2>3 DEF Response
  <2>5. v.status # v.sent => v.sent = 101 \/ Contains(v.body, "part")
    BY <2>1, <2>2, <2>4 DEF StatusKept
  <2>6. v.panicked => v.sent = 500 /\ v.body = <<"InternalServerError">>
    <3> DEFINE said == <<"InternalServerError">>
    <3> HIDE DEF said
    <3>1. x.panicked => x.sent = 500 /\ x.body = said
      BY <2>1 DEF said
    <3>2. v.panicked => v.sent = 500 /\ v.body = said
      BY <3>1, <2>2, <2>4
    <3> QED
      BY <3>2 DEF said
  <2> QED
    BY <2>4, <2>5, <2>6 DEF Delivered
<1> QED
  BY <1>1, <1>2 DEF W!chain

\* There is no request, or the client has a response to it.
ResponseInv ==
    \/ route = Nothing /\ response = W!Blank
    \/ Delivered(response)

\* A response to any request is delivered.
LEMMA RespondDelivers ==
  ASSUME NEW r, NEW a, NEW responses, Respond(r, a, responses), \A w \in responses : Left(w)
  PROVE  Delivered(response)'
<1>1. PICK v \in W!chain(a, responses) : response' = v
  BY DEF Respond
<1>2. Delivered(v)
  BY ChainDelivers
<1> QED
  BY <1>1, <1>2 DEF Delivered

\* Every request is answered through the chain, with what a handler may leave.
LEMMA ResponseStep ==
  ResponseInv /\ [HandlersNext]_<<listVars, route, response, oneVars>> => ResponseInv'
<1> SUFFICES ASSUME ResponseInv, [HandlersNext]_<<listVars, route, response, oneVars>>
             PROVE  ResponseInv'
  OBVIOUS
<1> DEFINE Done == Delivered(response)'
<1>1. Done => ResponseInv'
  BY DEF ResponseInv
<1> HIDE DEF Done
<1>2. "whole" \in Part /\ "MissingId" \in Part /\ "NotFound" \in Part
  BY DEF Part
<1>3. \A w \in {W!Rendered(W!Blank)} : Left(w)
  BY <1>2, HelpersLeave DEF W!Rendered
<1>4. \A w \in API(404, FALSE) \cup API(404, TRUE) : Left(w)
  <2>1. \A code \in Nat \ {0} : \A w \in W!writeJSON(W!Blank, code) : Left(w)
    BY HelpersLeave
  <2>2. (\A w \in W!writeJSON(W!Blank, 404) : Left(w)) /\ \A w \in W!writeJSON(W!Blank, 200) : Left(w)
    BY <2>1
  <2> QED
    BY <2>2 DEF API
<1>5. ASSUME NEW p \in Param, PartialContainers(p) \/ APIContainers(p) PROVE Done
  BY <1>3, <1>5, RespondDelivers DEF PartialContainers, APIContainers, Done
<1>6. ASSUME NEW r, NEW a, Request(r, a) PROVE Done
  <2>1. PICK ok \in BOOLEAN :
          Respond(r, a \/ r = "healthz",
                  Answers(r, ok) \ IF r \in ListRoutes /\ ok THEN {W!Rendered(W!Blank)} ELSE {})
    BY <1>6 DEF Request
  <2> DEFINE responses ==
          Answers(r, ok) \ IF r \in ListRoutes /\ ok THEN {W!Rendered(W!Blank)} ELSE {}
  <2>2. \A w \in responses : Left(w)
    BY AnswersLeft
  <2> HIDE DEF responses
  <2> QED
    BY <2>1, <2>2, RespondDelivers DEF responses, Done
<1>7. ASSUME NEW r, NEW a, NotInspected(r, a) PROVE Done
  <2> DEFINE responses ==
          IF r = "detailJSON" THEN API(404, FALSE)
          ELSE {W!HttpError(W!Blank, "MissingId", 400), W!HttpError(W!Blank, "NotFound", 404)}
  <2>1. Left(W!HttpError(W!Blank, "MissingId", 400)) /\ Left(W!HttpError(W!Blank, "NotFound", 404))
    BY <1>2, HelpersLeave
  <2>2. \A w \in responses : Left(w)
    <3>1. \A w \in API(404, FALSE) : Left(w)
      BY <1>4
    <3>2. CASE r = "detailJSON"
      BY <3>1, <3>2
    <3>3. CASE r # "detailJSON"
      BY <2>1, <3>3
    <3> QED
      BY <3>2, <3>3
  <2>3. Respond(r, a, responses)
    BY <1>7 DEF NotInspected
  <2> HIDE DEF responses
  <2> QED
    BY <2>2, <2>3, RespondDelivers DEF Done
<1>8. ASSUME NEW r, NEW raw, InspectionPanics(r, raw) PROVE Done
  <2>1. \A w \in {W!Panic(W!Blank)} : Left(w)
    BY TakenOver
  <2> QED
    BY <1>8, <2>1, RespondDelivers DEF InspectionPanics, Done
<1>9. ASSUME NEW raw, handlePartialContainerCard(raw) PROVE Done
  BY <1>9, HelpersLeave, RespondDelivers DEF handlePartialContainerCard, Done
<1>10. ASSUME NEW r, NEW raw, Detail(r, raw) PROVE Done
  <2> DEFINE responses ==
          IF r = "detail" THEN W!renderPartial(W!Blank) ELSE API(404, TRUE)
  <2>1. \A w \in responses : Left(w)
    BY <1>4, HelpersLeave
  <2>2. Respond(r, TRUE, responses)
    BY <1>10 DEF Detail
  <2> HIDE DEF responses
  <2> QED
    BY <2>1, <2>2, RespondDelivers DEF Done
<1>11. CASE NextRequest
  BY <1>11 DEF NextRequest, ResponseInv
<1>12. CASE UNCHANGED <<listVars, route, response, oneVars>>
  BY <1>12 DEF ResponseInv, Delivered
<1> QED
  BY <1>1, <1>5, <1>6, <1>7, <1>8, <1>9, <1>10, <1>11, <1>12 DEF HandlersNext

\* So every response is blank or delivered.
LEMMA Responses == HandlersSpec => []ResponseInv
<1>1. HandlersInit => ResponseInv
  BY DEF HandlersInit, ResponseInv
<1> QED
  BY <1>1, ResponseStep, PTL DEF HandlersSpec

\* The log has the status the client got, unless output had begun when the
\* handler failed, or the connection was taken over.
THEOREM TheLogAgrees == HandlersSpec => []LoggedIsSent
<1>1. ResponseInv => LoggedIsSent
  BY BlankFields DEF ResponseInv, Delivered, LoggedIsSent
<1> QED
  BY <1>1, Responses, PTL

\* A request that passes authentication is logged, and answered with an error
\* and nothing else if its handler panics.
THEOREM PanicsAreAnswered == HandlersSpec => []PanicIsAnswered
<1>1. ResponseInv => PanicIsAnswered
  BY DEF ResponseInv, Delivered, PanicIsAnswered
<1> QED
  BY <1>1, Responses, PTL

-----------------------------------------------------------------------------
(* The ports of a container, from the list and from an inspection.           *)

PortType == [container : Nat \X STRING, host : Nat, protocol : STRING,
             ip : STRING \cup {I!None}]

\* A published port, and an exposed one as Docker lists it.
Listable == Binding \cup {I!Unpublished(e) : e \in Nat \X STRING}

\* A port is a port, published if its binding is.
LEMMA PortFields ==
  /\ \A b \in Listable : I!Port(b) \in PortType /\ I!Port(b).host = b.public
  /\ \A b \in Binding : b.public # 0
  /\ \A e \in Nat \X STRING : I!Unpublished(e).public = 0
<1>1. \A e \in Nat \X STRING :
        /\ I!Unpublished(e) = [ip |-> I!None, public |-> 0, private |-> e[1], type |-> e[2]]
        /\ e[1] \in Nat /\ e[2] \in STRING
  BY DEF I!Unpublished
<1>2. \A b \in Listable :
        b.ip \in STRING \cup {I!None} /\ b.public \in Nat /\ b.private \in Nat /\ b.type \in STRING
  BY <1>1 DEF Listable, Binding
<1>3. \A b \in Listable : I!Port(b) \in PortType /\ I!Port(b).host = b.public
  BY <1>2 DEF I!Port, PortType
<1> QED
  BY <1>1, <1>3 DEF Binding

\* The loop is what its turns make it.
LEMMA CollectingTurns ==
  ASSUME NEW X, NEW bs \in Seq(X)
  PROVE  /\ I!Collecting(bs)[0] = <<>>
         /\ \A i \in 1..Len(bs) :
                I!Collecting(bs)[i] = I!Distinct(I!Collecting(bs)[i - 1], bs[i])
<1> DEFINE Turn(f, i) == IF i = 0 THEN <<>> ELSE I!Distinct(f[i - 1], bs[i])
           Up(m) == \E f : f = [i \in 0..m |-> Turn(f, i)]
           T == {m \in 0..Len(bs) : Up(m)}
<1> HIDE DEF Turn
<1>1. Up(0)
  <2>1. [i \in 0..0 |-> <<>>] = [i \in 0..0 |-> Turn([k \in 0..0 |-> <<>>], i)]
    BY DEF Turn
  <2> QED
    BY <2>1
<1>2. ASSUME NEW m \in 1..Len(bs), Up(m - 1) PROVE Up(m)
  <2>1. PICK f : f = [i \in 0..(m - 1) |-> Turn(f, i)]
    BY <1>2
  <2> DEFINE g == [i \in 0..m |-> IF i < m THEN f[i] ELSE Turn(f, m)]
  <2>2. \A i \in 0..m : g[i] = Turn(g, i)
    <3>1. \A i \in 0..(m - 1) : f[i] = Turn(f, i)
      BY <2>1
    <3>2. \A i \in 1..m : g[i - 1] = f[i - 1]
      OBVIOUS
    <3> QED
      BY <3>1, <3>2 DEF Turn
  <2>3. g = [i \in 0..m |-> Turn(g, i)]
    BY <2>2
  <2> HIDE DEF g
  <2> QED
    BY <2>3
<1>3. Up(Len(bs))
  <2> HIDE DEF Up
  <2>1. Len(bs) \in Nat
    OBVIOUS
  <2>2. 0 \in T /\ \A m \in 1..Len(bs) : m - 1 \in T => m \in T
    BY <1>1, <1>2, <2>1
  <2>3. \A m \in 0..Len(bs) : m \in T
    <3> HIDE DEF T
    <3> QED
      BY <2>1, <2>2, Induction
  <2> QED
    BY <2>1, <2>3
<1>4. I!Collecting(bs) = [i \in 0..Len(bs) |-> Turn(I!Collecting(bs), i)]
  BY <1>3 DEF I!Collecting, Turn
<1>5. \A i \in 0..Len(bs) : I!Collecting(bs)[i] = Turn(I!Collecting(bs), i)
  BY <1>4
<1> QED
  BY <1>5 DEF Turn

\* Every published port is collected, and only once.
LEMMA CollectingFacts ==
  ASSUME NEW bs \in Seq(Listable)
  PROVE  LET ps == I!Collecting(bs)[Len(bs)]
         IN  /\ ps \in Seq(PortType)
             /\ Range(ps) = {I!Port(b) : b \in {b \in Range(bs) : b.public # 0}}
             /\ \A i, j \in DOMAIN ps : ps[i] = ps[j] => i = j
<1> DEFINE f == I!Collecting(bs)
           Typed(i) == f[i] \in Seq(PortType)
           Same(i) == /\ \A a \in 1..Len(f[i]) : \E k \in 1..i :
                            bs[k].public # 0 /\ f[i][a] = I!Port(bs[k])
                      /\ \A k \in 1..i : bs[k].public # 0 =>
                            \E a \in 1..Len(f[i]) : f[i][a] = I!Port(bs[k])
           Once(i) == \A a, b \in 1..Len(f[i]) : f[i][a] = f[i][b] => a = b
           T == {i \in 0..Len(bs) : Typed(i) /\ Same(i) /\ Once(i)}
<1>1. f[0] = <<>> /\ \A i \in 1..Len(bs) : f[i] = I!Distinct(f[i - 1], bs[i])
  BY CollectingTurns
<1>2. Len(bs) \in Nat /\ \A i \in 1..Len(bs) : bs[i] \in Listable
  OBVIOUS
<1> HIDE DEF f
<1>3. Typed(0) /\ Same(0) /\ Once(0)
  BY <1>1
<1>4. ASSUME NEW i \in 1..Len(bs), Typed(i - 1), Same(i - 1), Once(i - 1)
      PROVE  Typed(i) /\ Same(i) /\ Once(i)
  <2> DEFINE e == f[i - 1]
             p == I!Port(bs[i])
  <2>1. e \in Seq(PortType) /\ Len(e) \in Nat /\ p \in PortType
    BY <1>2, <1>4, PortFields
  <2>2. f[i] = IF bs[i].public = 0 \/ \E a \in 1..Len(e) : e[a] = p
               THEN e ELSE Append(e, p)
    BY <1>1 DEF I!Distinct, I!Contains
  <2> HIDE DEF e, p
  <2>3. /\ \A a \in 1..Len(e) : \E k \in 1..(i - 1) :
              bs[k].public # 0 /\ e[a] = I!Port(bs[k])
        /\ \A k \in 1..(i - 1) : bs[k].public # 0 => \E a \in 1..Len(e) : e[a] = I!Port(bs[k])
        /\ \A a, b \in 1..Len(e) : e[a] = e[b] => a = b
    BY <1>4 DEF e
  <2>4. \A k \in 1..i : k = i \/ k \in 1..(i - 1)
    OBVIOUS
  <2>5. CASE f[i] = e /\ (bs[i].public = 0 \/ \E a \in 1..Len(e) : e[a] = p)
    <3>1. Same(i)
      <4>1. 1..(i - 1) \subseteq 1..i
        OBVIOUS
      <4> QED
        BY <4>1, <2>3, <2>4, <2>5 DEF p
    <3> QED
      BY <3>1, <2>1, <2>3, <2>5
  <2>6. CASE f[i] = Append(e, p) /\ bs[i].public # 0 /\ \A a \in 1..Len(e) : e[a] # p
    <3>1. /\ Len(f[i]) = Len(e) + 1 /\ f[i][Len(e) + 1] = p
          /\ \A a \in 1..Len(e) : f[i][a] = e[a]
          /\ f[i] \in Seq(PortType)
      BY <2>1, <2>6
    <3>2. \A a \in 1..Len(f[i]) : a = Len(e) + 1 \/ a \in 1..Len(e)
      BY <3>1, <2>1
    <3>3. 1..Len(e) \subseteq 1..Len(f[i]) /\ Len(e) + 1 \in 1..Len(f[i])
      BY <3>1, <2>1
    <3>4. Once(i)
      BY <3>1, <3>2, <2>3, <2>6
    <3>5. Same(i)
      <4>1. 1..(i - 1) \subseteq 1..i /\ i \in 1..i
        OBVIOUS
      <4>2. \A a \in 1..Len(f[i]) : \E k \in 1..i :
                bs[k].public # 0 /\ f[i][a] = I!Port(bs[k])
        BY <4>1, <3>1, <3>2, <2>3, <2>6 DEF p
      <4>3. \A k \in 1..i : bs[k].public # 0 => \E a \in 1..Len(f[i]) : f[i][a] = I!Port(bs[k])
        BY <2>4, <3>1, <3>3, <2>3 DEF p
      <4> QED
        BY <4>2, <4>3
    <3> QED
      BY <3>1, <3>4, <3>5
  <2> QED
    BY <2>2, <2>5, <2>6
<1>5. \A i \in 0..Len(bs) : i \in T
  <2>1. 0 \in T /\ \A i \in 1..Len(bs) : i - 1 \in T => i \in T
    <3> HIDE DEF Typed, Same, Once
    <3> QED
      BY <1>2, <1>3, <1>4
  <2> HIDE DEF T
  <2> QED
    BY <1>2, <2>1, Induction
<1>6. Typed(Len(bs)) /\ Same(Len(bs)) /\ Once(Len(bs))
  <2> HIDE DEF Typed, Same, Once
  <2> QED
    BY <1>2, <1>5
<1> DEFINE ps == f[Len(bs)]
           n == Len(bs)
<1>7. ps \in Seq(PortType) /\ DOMAIN ps = 1..Len(ps) /\ DOMAIN bs = 1..n
  BY <1>6
<1>8. /\ \A a \in DOMAIN ps : \E k \in DOMAIN bs : bs[k].public # 0 /\ ps[a] = I!Port(bs[k])
      /\ \A k \in DOMAIN bs : bs[k].public # 0 => \E a \in DOMAIN ps : ps[a] = I!Port(bs[k])
      /\ \A a, b \in DOMAIN ps : ps[a] = ps[b] => a = b
  BY <1>6, <1>7
<1> HIDE DEF ps, n
<1>9. Range(ps) = {I!Port(b) : b \in {b \in Range(bs) : b.public # 0}}
  BY <1>8 DEF Range
<1> QED
  BY <1>7, <1>8, <1>9 DEF ps, f

\* A sequence without duplicates has as many elements as its range.
LEMMA CountRange ==
  ASSUME NEW X, NEW s \in Seq(X), \A i, j \in DOMAIN s : s[i] = s[j] => i = j
  PROVE  Len(s) = Cardinality(Range(s))
<1>1. Len(s) \in Nat /\ DOMAIN s = 1..Len(s) /\ s \in [1..Len(s) -> Range(s)]
  BY DEF Range
<1>2. s \in Bijection(1..Len(s), Range(s))
  BY <1>1 DEF Range, Bijection, Injection, Surjection, IsInjective
<1>3. ExistsBijection(1..Len(s), Range(s))
  BY <1>2 DEF ExistsBijection
<1> QED
  BY <1>1, <1>3, FS_CountingElements

\* A finite set can be made a sequence.
LEMMA SetToSeqFacts ==
  ASSUME NEW S, IsFiniteSet(S)
  PROVE  I!SetToSeq(S) \in Seq(S)
<1> DEFINE n == I!Cardinality(S)
<1>1. n = Cardinality(S)
  BY DEF I!Cardinality, Cardinality
<1>2. n \in Nat /\ ExistsBijection(1..n, S)
  BY <1>1, FS_CardinalityType
<1> HIDE DEF n
<1>3. PICK f \in [1..n -> S] : I!IsInjective(f)
  BY <1>2 DEF ExistsBijection, Bijection, Injection, IsInjective, I!IsInjective
<1>4. I!SetToSeq(S) = CHOOSE g \in [1..n -> S] : I!IsInjective(g)
  BY DEF I!SetToSeq, n
<1>5. I!SetToSeq(S) \in [1..n -> S]
  BY <1>3, <1>4
<1> QED
  BY <1>2, <1>5

\* The published addresses of a container's ports.
Bound(raw) == {I!Port(b) : b \in Range(raw.bindings)}

\* Docker's list gives every published address once.
LEMMA APIPortsFacts ==
  ASSUME NEW raw \in Known
  PROVE  LET ps == I!APIPorts(raw)
         IN  /\ ps \in Seq(PortType) /\ Range(ps) = Bound(raw)
             /\ \A i, j \in DOMAIN ps : ps[i] = ps[j] => i = j
             /\ \A p \in Bound(raw) : p \in PortType /\ p.host # 0
<1> DEFINE E == {I!Unpublished(e) : e \in raw.exposed}
           es == I!SetToSeq(E)
           bs == raw.bindings \o es
<1>1. /\ raw.bindings \in Seq(Binding)
      /\ raw.exposed \subseteq Nat \X STRING /\ IsFiniteSet(raw.exposed)
  BY KnownAssumption
<1>2. es \in Seq(E)
  <2>1. IsFiniteSet(E)
    <3> DEFINE f == [e \in raw.exposed |-> I!Unpublished(e)]
    <3>1. f \in Surjection(raw.exposed, E)
      BY DEF Surjection
    <3> QED
      BY <3>1, <1>1, FS_Surjection
  <2> HIDE DEF E
  <2> QED
    BY <2>1, SetToSeqFacts
<1>3. /\ Binding \subseteq Listable /\ E \subseteq Listable
      /\ \A b \in Binding : b.public # 0
      /\ \A b \in E : b.public = 0
  BY <1>1, PortFields DEF Listable
<1> HIDE DEF E, es
<1>4. /\ raw.bindings \in Seq(Listable) /\ es \in Seq(Listable)
      /\ \A i \in DOMAIN raw.bindings : raw.bindings[i] \in Binding
      /\ \A i \in DOMAIN es : es[i] \in E
  BY <1>1, <1>2, <1>3
<1>5. bs \in Seq(Listable)
  BY <1>4
<1>6. Range(bs) = Range(raw.bindings) \cup Range(es)
  BY <1>4, ConcatFacts
<1>7. {b \in Range(bs) : b.public # 0} = Range(raw.bindings)
  <2>1. (\A b \in Range(raw.bindings) : b.public # 0) /\ \A b \in Range(es) : b.public = 0
    BY <1>3, <1>4 DEF Range
  <2> HIDE DEF bs
  <2> QED
    BY <2>1, <1>6
<1>8. I!APIPorts(raw) = I!Collecting(bs)[Len(bs)]
  BY DEF I!APIPorts, bs, es, E
<1> HIDE DEF bs
<1>9. \A p \in Bound(raw) : p \in PortType /\ p.host # 0
  BY <1>3, <1>4, PortFields DEF Bound, Range
<1>10. LET ps == I!Collecting(bs)[Len(bs)]
       IN  /\ ps \in Seq(PortType)
           /\ Range(ps) = {I!Port(b) : b \in Range(raw.bindings)}
           /\ \A i, j \in DOMAIN ps : ps[i] = ps[j] => i = j
  BY <1>5, <1>7, CollectingFacts
<1> QED
  BY <1>8, <1>9, <1>10 DEF Bound

\* A card shows the published ports up to three, and counts the others.
LEMMA CardFacts ==
  ASSUME NEW c, c.ports \in Seq(PortType)
  PROVE  LET shown == I!Card(c)
         IN  /\ shown.element = c.short /\ shown.name = c.name /\ shown.image = c.image
             /\ shown.state = c.state /\ shown.labels = c.labels
             /\ c.state # "running" => shown.ports = <<>> /\ shown.more = 0
             /\ c.state = "running" /\ Len(c.ports) <= 3 =>
                    /\ Range(shown.ports) = {p \in Range(c.ports) : p.host # 0}
                    /\ shown.more = 0
             /\ c.state = "running" /\ (\A p \in Range(c.ports) : p.host # 0) =>
                    Len(shown.ports) + shown.more = Len(c.ports)
<1> DEFINE ps == IF c.state = "running" THEN c.ports ELSE <<>>
           K == {p \in Range(ps) : p.host # 0}
           first == I!firstN(ps, 3)
           shown == I!Card(c)
<1>1. /\ shown.element = c.short /\ shown.name = c.name /\ shown.image = c.image
      /\ shown.state = c.state /\ shown.labels = c.labels
      /\ shown.ports = Kept(first, K)
      /\ shown.more = IF Len(ps) > 3 THEN Len(ps) - 3 ELSE 0
  <2>1. I!Range(ps) = Range(ps)
    BY DEF I!Range, Range
  <2>2. I!Kept(first, K) = Kept(first, K)
    BY DEF I!Kept, Kept, I!Keeping, Keeping
  <2>3. I!CardPorts(c) = ps
    BY DEF I!CardPorts
  <2> HIDE DEF ps
  <2>4. I!PortsShown(c) = I!Kept(first, K)
    BY <2>1, <2>3 DEF I!PortsShown
  <2>5. I!More(c) = IF Len(ps) > 3 THEN Len(ps) - 3 ELSE 0
    BY <2>3 DEF I!More
  <2> HIDE DEF first, K
  <2> QED
    BY <2>2, <2>4, <2>5 DEF I!Card
<1>2. ps \in Seq(PortType) /\ Len(ps) \in Nat
  OBVIOUS
<1>3. /\ c.state # "running" => ps = <<>>
      /\ c.state = "running" => ps = c.ports
  OBVIOUS
<1> HIDE DEF ps, shown
<1>4. /\ first \in Seq(PortType)
      /\ Len(ps) <= 3 => first = ps
      /\ Len(ps) > 3 => Len(first) = 3
      /\ \A i \in DOMAIN first : i \in DOMAIN ps /\ first[i] = ps[i]
  BY <1>2 DEF I!firstN
<1> HIDE DEF first
<1>5. /\ Kept(first, K) \in Seq(PortType)
      /\ \A x : x \in Range(Kept(first, K)) <=> x \in K /\ x \in Range(first)
      /\ (\A i \in DOMAIN first : first[i] \in K) => Len(Kept(first, K)) = Len(first)
  BY <1>4, KeepingFacts
<1>6. ASSUME c.state # "running" PROVE shown.ports = <<>> /\ shown.more = 0
  <2>1. ps = <<>> /\ first = <<>>
    BY <1>3, <1>4, <1>6
  <2>2. Len(Kept(first, K)) = 0
    BY <2>1, <1>5
  <2> QED
    BY <1>1, <1>5, <2>1, <2>2
<1>7. ASSUME c.state = "running", Len(c.ports) <= 3
      PROVE  Range(shown.ports) = {p \in Range(c.ports) : p.host # 0} /\ shown.more = 0
  <2>1. first = c.ports /\ ps = c.ports
    BY <1>3, <1>4, <1>7
  <2>2. K = {p \in Range(c.ports) : p.host # 0}
    BY <2>1
  <2> HIDE DEF K
  <2> QED
    BY <1>1, <1>2, <1>5, <1>7, <2>1, <2>2
<1>8. ASSUME c.state = "running", \A p \in Range(c.ports) : p.host # 0
      PROVE  Len(shown.ports) + shown.more = Len(c.ports)
  <2>1. ps = c.ports
    BY <1>3, <1>8
  <2>2. \A i \in DOMAIN first : first[i] \in K
    BY <2>1, <1>4, <1>8 DEF Range
  <2>3. Len(shown.ports) = Len(first)
    BY <1>1, <1>5, <2>2
  <2>4. CASE Len(ps) <= 3
    <3>1. Len(shown.ports) = Len(c.ports) /\ shown.more = 0
      BY <1>1, <1>2, <1>4, <2>1, <2>3, <2>4
    <3> QED
      BY <3>1, <1>2, <2>1
  <2>5. CASE Len(ps) > 3
    <3> DEFINE n == Len(ps)
    <3>1. n \in Nat /\ n > 3 /\ n = Len(c.ports)
      BY <1>2, <2>1, <2>5
    <3>2. Len(shown.ports) = 3 /\ shown.more = n - 3
      BY <1>1, <1>4, <2>3, <2>5
    <3> HIDE DEF n
    <3> QED
      BY <3>1, <3>2
  <2> QED
    BY <1>2, <2>4, <2>5
<1> QED
  BY <1>1, <1>6, <1>7, <1>8 DEF shown

\* An inspection gives every published address, and exposed ports without one.
LEMMA InspectedFacts ==
  ASSUME NEW raw \in Known
  PROVE  /\ IsFiniteSet(I!InspectedPorts(raw)) /\ IsFiniteSet(Bound(raw))
         /\ I!InspectedPorts(raw) \subseteq PortType
         /\ {p \in I!InspectedPorts(raw) : p.host # 0} = Bound(raw)
         /\ \A ps \in I!SetToSeqs(I!InspectedPorts(raw)) :
                /\ ps \in Seq(PortType) /\ Range(ps) = I!InspectedPorts(raw)
                /\ Len(ps) = Cardinality(I!InspectedPorts(raw))
<1> DEFINE S == I!InspectedPorts(raw)
           F == raw.exposed \ {p.container : p \in Bound(raw)}
           U == {I!Port(I!Unpublished(e)) : e \in F}
<1>1. S = Bound(raw) \cup U
  <2>1. I!Range(raw.bindings) = Range(raw.bindings)
    BY DEF I!Range, Range
  <2> QED
    BY <2>1 DEF I!InspectedPorts, Bound
<1>2. /\ \A p \in Bound(raw) : p \in PortType /\ p.host # 0
      /\ IsFiniteSet(Bound(raw))
  <2>1. LET ps == I!APIPorts(raw) IN ps \in Seq(PortType) /\ Range(ps) = Bound(raw)
    BY APIPortsFacts
  <2>2. IsFiniteSet(Bound(raw))
    BY <2>1, RangeFinite
  <2> QED
    BY <2>2, APIPortsFacts
<1>3. F \subseteq Nat \X STRING /\ IsFiniteSet(F)
  <2>1. raw.exposed \subseteq Nat \X STRING /\ IsFiniteSet(raw.exposed)
    BY KnownAssumption
  <2> QED
    BY <2>1, FS_Subset
<1> HIDE DEF F
<1>4. \A p \in U : p \in PortType /\ p.host = 0
  BY <1>3, PortFields DEF Listable
<1>5. IsFiniteSet(U)
  <2> DEFINE f == [e \in F |-> I!Port(I!Unpublished(e))]
  <2>1. f \in Surjection(F, U)
    BY DEF Surjection
  <2> QED
    BY <2>1, <1>3, FS_Surjection
<1> HIDE DEF U, S
<1>6. IsFiniteSet(S)
  BY <1>1, <1>2, <1>5, FS_Union
<1>7. S \subseteq PortType /\ {p \in S : p.host # 0} = Bound(raw)
  BY <1>1, <1>2, <1>4
<1>8. ASSUME NEW ps \in I!SetToSeqs(S)
      PROVE  ps \in Seq(PortType) /\ Range(ps) = S /\ Len(ps) = Cardinality(S)
  <2>1. ps \in SetToSeqs(S)
    BY DEF I!SetToSeqs, SetToSeqs, I!IsInjective, IsInjective, I!Cardinality, Cardinality
  <2>2. /\ ps \in Seq(S) /\ Range(ps) = S
        /\ \A i, j \in DOMAIN ps : ps[i] = ps[j] => i = j
    BY <1>6, <2>1, ArrangedFacts
  <2>3. Len(ps) = Cardinality(S)
    BY <2>2, CountRange
  <2>4. ps \in Seq(PortType)
    BY <1>7, <2>2
  <2> QED
    BY <2>2, <2>3, <2>4
<1> QED
  BY <1>2, <1>6, <1>7, <1>8 DEF S

-----------------------------------------------------------------------------
(* The link InferRepoURL makes of a reference.                               *)

\* The tokens that are not names.
Marks == {"/", ":", "@", "port", "tag", "sha256", "hex"}

\* What stands before a point of a sequence is what was put there.
LEMMA UptoConcat ==
  ASSUME NEW T, NEW s \in Seq(T), NEW r \in Seq(T)
  PROVE  /\ I!Upto(s \o r, Len(s) + 1) = s
         /\ s \o r \in Seq(T) /\ Len(s \o r) = Len(s) + Len(r)
         /\ DOMAIN (s \o r) = 1..(Len(s) + Len(r))
         /\ \A i \in 1..Len(s) : (s \o r)[i] = s[i]
         /\ \A i \in 1..Len(r) : (s \o r)[Len(s) + i] = r[i]
         /\ r = <<>> => s \o r = s
  BY DEF I!Upto

\* A set has one greatest and one least number.
LEMMA OneExtreme ==
  ASSUME NEW S \in SUBSET Nat, NEW m \in S
  PROVE  /\ (\A i \in S : m >= i) => I!Max(S) = m
         /\ (\A i \in S : m =< i) => I!Min(S) = m
<1>1. ASSUME \A i \in S : m >= i PROVE I!Max(S) = m
  <2>1. \A x \in S : (\A y \in S : x >= y) => x = m
    BY <1>1
  <2> QED
    BY <1>1, <2>1 DEF I!Max
<1>2. ASSUME \A i \in S : m =< i PROVE I!Min(S) = m
  <2>1. \A x \in S : (\A y \in S : x =< y) => x = m
    BY <1>2
  <2> QED
    BY <1>2, <2>1 DEF I!Min
<1> QED
  BY <1>1, <1>2

\* A digest is stripped, and nothing of what it follows.
LEMMA DigestStripped ==
  ASSUME NEW T, Marks \subseteq T, NEW s \in Seq(T), \A i \in DOMAIN s : s[i] # "@",
         NEW d \in {<<>>, <<"@", "sha256", ":", "hex">>}
  PROVE  I!StripDigest(s \o d) = s
<1> DEFINE img == s \o d
           ats == I!Positions(img, "@")
<1>1. d \in Seq(T)
  <2>1. "@" \in T /\ "sha256" \in T /\ ":" \in T /\ "hex" \in T
    BY DEF Marks
  <2>2. <<"@", "sha256", ":", "hex">> \in Seq(T)
    BY <2>1
  <2>3. <<>> \in Seq(T)
    OBVIOUS
  <2> QED
    BY <2>2, <2>3
<1>2. /\ I!Upto(img, Len(s) + 1) = s
      /\ img \in Seq(T) /\ DOMAIN img = 1..(Len(s) + Len(d))
      /\ \A i \in 1..Len(s) : img[i] = s[i]
      /\ \A i \in 1..Len(d) : img[Len(s) + i] = d[i]
      /\ d = <<>> => img = s
  BY <1>1, UptoConcat
<1> HIDE DEF img
<1>3. CASE d = <<>>
  <2>1. ats = {}
    BY <1>2, <1>3 DEF I!Positions
  <2> QED
    BY <1>2, <1>3, <2>1 DEF I!StripDigest, img
<1>4. CASE d = <<"@", "sha256", ":", "hex">>
  <2>1. ats = {Len(s) + 1}
    <3>1. \A i \in ats : i = Len(s) + 1
      <4> TAKE i \in ats
      <4>1. i \in 1..(Len(s) + 4) /\ img[i] = "@"
        BY <1>2, <1>4 DEF I!Positions
      <4>2. i \notin 1..Len(s)
        BY <1>2, <4>1
      <4>3. ASSUME NEW j \in 2..4, i = Len(s) + j PROVE FALSE
        BY <1>2, <1>4, <4>1, <4>3
      <4> QED
        BY <4>1, <4>2, <4>3
    <3>2. Len(s) + 1 \in ats
      BY <1>2, <1>4 DEF I!Positions
    <3> QED
      BY <3>1, <3>2
  <2>2. I!Min(ats) = Len(s) + 1
    BY <2>1, OneExtreme
  <2> QED
    BY <1>2, <2>1, <2>2 DEF I!StripDigest, img
<1> QED
  BY <1>3, <1>4

\* A tag is stripped, and without one what follows the last colon, if there is one.
LEMMA TagStripped ==
  ASSUME NEW T, Marks \subseteq T, NEW s \in Seq(T), NEW r \in Seq(T),
         \A i \in DOMAIN r : r[i] # ":"
  PROVE  /\ I!StripTag(s \o <<":">> \o r) = s
         /\ I!StripTag(r) = r
<1> DEFINE t == <<":">> \o r
           img == s \o t
           colons == I!Positions(img, ":")
<1>1. t \in Seq(T) /\ t[1] = ":" /\ Len(t) = Len(r) + 1
      /\ (\A i \in 2..Len(t) : t[i] = r[i - 1])
  BY DEF Marks
<1>2. s \o <<":">> \o r = img
  BY DEF Marks
<1> HIDE DEF t
<1>3. /\ I!Upto(img, Len(s) + 1) = s
      /\ img \in Seq(T) /\ DOMAIN img = 1..(Len(s) + Len(t))
      /\ \A i \in 1..Len(t) : img[Len(s) + i] = t[i]
  <2>1. /\ I!Upto(s \o t, Len(s) + 1) = s
        /\ s \o t \in Seq(T) /\ DOMAIN (s \o t) = 1..(Len(s) + Len(t))
        /\ \A i \in 1..Len(t) : (s \o t)[Len(s) + i] = t[i]
    <3>1. t \in Seq(T)
      BY <1>1
    <3> QED
      BY <3>1, UptoConcat
  <2> QED
    BY <2>1 DEF img
<1> HIDE DEF img
<1>4. Len(s) + 1 \in colons
  BY <1>1, <1>3 DEF I!Positions
<1>5. \A i \in colons : Len(s) + 1 >= i
  <2> SUFFICES ASSUME NEW i \in colons, i > Len(s) + 1 PROVE FALSE
    BY <1>3 DEF I!Positions
  <2>1. i \in 1..(Len(s) + Len(t)) /\ img[i] = ":"
    BY <1>3 DEF I!Positions
  <2>2. i - Len(s) \in 2..Len(t) /\ i = Len(s) + (i - Len(s))
    BY <2>1
  <2>3. img[i] = t[i - Len(s)]
    BY <1>3, <2>2
  <2>4. t[i - Len(s)] = r[i - Len(s) - 1] /\ i - Len(s) - 1 \in DOMAIN r
    BY <1>1, <2>2
  <2> QED
    BY <2>1, <2>3, <2>4
<1>6. I!Max(colons) = Len(s) + 1
  <2>1. colons \in SUBSET Nat
    BY <1>3 DEF I!Positions
  <2> QED
    BY <1>4, <1>5, <2>1, OneExtreme
<1>7. I!StripTag(img) = s
  BY <1>3, <1>4, <1>6 DEF I!StripTag
<1>8. I!StripTag(r) = r
  <2>1. I!Positions(r, ":") = {}
    BY DEF I!Positions
  <2> QED
    BY <2>1 DEF I!StripTag
<1> QED
  BY <1>2, <1>7, <1>8

\* What TrimPrefix finds and leaves, for a prefix of two tokens.
LEMMA Trimmed ==
  ASSUME NEW T, NEW s \in Seq(T), NEW a \in T, NEW b \in T
  PROVE  /\ I!IsPrefix(<<a, b>>, s) <=> Len(s) >= 2 /\ s[1] = a /\ s[2] = b
         /\ I!TrimPrefix(s, <<a, b>>) =
                IF Len(s) >= 2 /\ s[1] = a /\ s[2] = b THEN SubSeq(s, 3, Len(s)) ELSE s
<1>1. \A x \in Seq(T) : Len(x) = 2 => x = <<x[1], x[2]>>
  <2> SUFFICES ASSUME NEW x \in Seq(T), Len(x) = 2 PROVE x = <<x[1], x[2]>>
    OBVIOUS
  <2>1. x[1] \in T /\ x[2] \in T
    <3>1. 1 \in 1..Len(x) /\ 2 \in 1..Len(x)
      OBVIOUS
    <3>2. x[1] \in T
      BY <3>1, ElementOfSeq
    <3>3. x[2] \in T
      BY <3>1, ElementOfSeq
    <3> QED
      BY <3>2, <3>3
  <2>2. <<x[1], x[2]>> \in Seq(T) /\ Len(<<x[1], x[2]>>) = 2
    BY <2>1
  <2> QED
    BY <2>2, SeqEqual
<1>2. /\ SubSeq(<<a, b>>, 1, 2) = <<a, b>>
      /\ Len(s) >= 2 => SubSeq(s, 1, 2) = <<s[1], s[2]>>
  <2>1. /\ SubSeq(<<a, b>>, 1, 2) \in Seq(T) /\ Len(SubSeq(<<a, b>>, 1, 2)) = 2
        /\ SubSeq(<<a, b>>, 1, 2)[1] = a /\ SubSeq(<<a, b>>, 1, 2)[2] = b
    <3>1. <<a, b>> \in Seq(T) /\ Len(<<a, b>>) = 2 /\ <<a, b>>[1] = a /\ <<a, b>>[2] = b
      OBVIOUS
    <3> QED
      BY <3>1
  <2>2. Len(s) >= 2 =>
          /\ SubSeq(s, 1, 2) \in Seq(T) /\ Len(SubSeq(s, 1, 2)) = 2
          /\ SubSeq(s, 1, 2)[1] = s[1] /\ SubSeq(s, 1, 2)[2] = s[2]
    OBVIOUS
  <2> QED
    BY <1>1, <2>1, <2>2
<1>3. I!IsPrefix(<<a, b>>, s) <=> Len(s) >= 2 /\ s[1] = a /\ s[2] = b
  BY <1>1, <1>2 DEF I!IsPrefix
<1> QED
  BY <1>3 DEF I!TrimPrefix

\* The references RepoURLNamesImage speaks of: not only an identifier, and of a
\* registry with a dot or of Docker Hub.
Told(image) ==
    image.path # <<>> /\ (image.host = <<>> \/ Range(image.host) \cap Dotted # {})

Tokens(image) == Range(image.host) \cup Range(image.path) \cup Marks

\* What a reference is made of.
LEMMA ReferenceFacts ==
  ASSUME NEW raw \in Known, Told(raw.image)
  PROVE  LET T == Tokens(raw.image)
             host == raw.image.host
             path == raw.image.path
         IN  /\ host \in Seq(T) /\ path \in Seq(T) /\ Marks \subseteq T
             /\ I!IsPath(path)
             /\ raw.image.tag \in {<<>>, <<":", "tag">>}
             /\ raw.image.digest \in {<<>>, <<"@", "sha256", ":", "hex">>}
             /\ \/ host = <<>>
                \/ \E x \in Dotted : host = <<x, "/">> \/ host = <<x, ":", "port", "/">>
             /\ host = <<>> =>
                    /\ path # <<"hex">>
                    /\ Len(path) > 1 => path[1] \notin Dotted \cup {"localhost"}
<1> DEFINE host == raw.image.host
           path == raw.image.path
           T == Tokens(raw.image)
<1>1. host \in Seq(STRING) /\ path \in Seq(STRING) /\ I!IsReference(raw.image)
  BY KnownAssumption
<1>2. path # <<>> /\ (host = <<>> \/ Range(host) \cap Dotted # {})
  BY DEF Told
<1>3. /\ I!IsHost(host) /\ I!IsPath(path)
      /\ raw.image.tag \in {<<>>, <<":", "tag">>}
      /\ raw.image.digest \in {<<>>, <<"@", "sha256", ":", "hex">>}
      /\ host = <<>> =>
            /\ path # <<"hex">>
            /\ Len(path) > 1 => path[1] \notin Dotted \cup {"localhost"}
  BY <1>1, <1>2 DEF I!IsReference
<1>4. T = Range(host) \cup Range(path) \cup Marks
  BY DEF Tokens
<1> HIDE DEF host, path, T
<1>5. host \in Seq(T) /\ path \in Seq(T)
  <2>1. \A s \in Seq(STRING) : s \in Seq(Range(s))
    BY DEF Range
  <2>2. \A s \in Seq(Range(host)) \cup Seq(Range(path)) : s \in Seq(T)
    BY <1>4
  <2> QED
    BY <1>1, <2>1, <2>2
<1>6. CASE host = <<>>
  BY <1>3, <1>4, <1>5, <1>6 DEF host, path, T
<1>7. CASE host # <<>>
  <2>1. PICK x \in Dotted : x \in Range(host)
    BY <1>2, <1>7
  <2>2. PICK i \in DOMAIN host : host[i] = x
    BY <2>1 DEF Range
  <2>3. x # "/" /\ x # ":" /\ x # "port" /\ x # "localhost"
    BY <2>1, DottedAssumption
  <2>4. CASE \E h \in Dotted \cup {"localhost"} : host = <<h, "/">>
    <3>1. PICK h \in Dotted \cup {"localhost"} : host = <<h, "/">>
      BY <2>4
    <3>2. i \in 1..2
      BY <2>2, <3>1
    <3>3. h = x
      BY <2>2, <2>3, <3>1, <3>2
    <3> QED
      BY <1>3, <1>4, <1>5, <1>7, <3>1, <3>3 DEF host, path, T
  <2>5. CASE host = <<host[1], ":", "port", "/">>
    <3> DEFINE h == host[1]
    <3> HIDE DEF h
    <3>1. host = <<h, ":", "port", "/">>
      BY <2>5 DEF h
    <3>2. i \in 1..4
      BY <2>2, <3>1
    <3>3. h = x
      BY <2>2, <2>3, <3>1, <3>2
    <3> QED
      BY <1>3, <1>4, <1>5, <1>7, <3>1, <3>3 DEF host, path, T
  <2> QED
    BY <1>3, <1>7, <2>4, <2>5 DEF I!IsHost
<1> QED
  BY <1>6, <1>7

\* Without tag and digest a reference has its host and its path, unless it had no
\* tag and the port was taken for one.
LEMMA StrippedFacts ==
  ASSUME NEW raw \in Known, Told(raw.image)
  PROVE  LET img == I!StripTag(I!StripDigest(I!Spelled(raw.image)))
             host == raw.image.host
         IN  \/ img = host \o raw.image.path
             \/ \E x \in Dotted : host = <<x, ":", "port", "/">> /\ img = <<x>>
<1> DEFINE host == raw.image.host
           path == raw.image.path
           tag == raw.image.tag
           digest == raw.image.digest
           T == Tokens(raw.image)
           whole == host \o path
<1>1. /\ host \in Seq(T) /\ path \in Seq(T) /\ Marks \subseteq T
      /\ I!IsPath(path)
      /\ tag \in {<<>>, <<":", "tag">>}
      /\ digest \in {<<>>, <<"@", "sha256", ":", "hex">>}
      /\ \/ host = <<>>
         \/ \E x \in Dotted : host = <<x, "/">> \/ host = <<x, ":", "port", "/">>
  BY ReferenceFacts
<1>2. I!Spelled(raw.image) = (whole \o tag) \o digest
  BY DEF I!Spelled
<1> HIDE DEF host, path, tag, digest, T
<1>3. \A i \in DOMAIN path : path[i] \notin {":", "@"}
  BY <1>1 DEF I!IsPath
<1>4. \A x \in Dotted : x # ":" /\ x # "@"
  BY DottedAssumption
<1>5. \A i \in DOMAIN host : host[i] # "@"
  <2>1. ASSUME NEW x \in Dotted, host = <<x, "/">>, NEW i \in DOMAIN host
        PROVE  host[i] # "@"
    <3>1. i \in 1..2
      BY <2>1
    <3> QED
      BY <1>4, <2>1, <3>1
  <2>2. ASSUME NEW x \in Dotted, host = <<x, ":", "port", "/">>, NEW i \in DOMAIN host
        PROVE  host[i] # "@"
    <3>1. i \in 1..4
      BY <2>2
    <3> QED
      BY <1>4, <2>2, <3>1
  <2> QED
    BY <1>1, <2>1, <2>2
<1>6. /\ whole \in Seq(T) /\ DOMAIN whole = 1..(Len(host) + Len(path))
      /\ \A i \in DOMAIN whole : whole[i] # "@"
      /\ (\A i \in DOMAIN host : host[i] # ":") => \A i \in DOMAIN whole : whole[i] # ":"
  <2>1. /\ whole \in Seq(T) /\ DOMAIN whole = 1..(Len(host) + Len(path))
        /\ \A i \in 1..Len(host) : whole[i] = host[i]
        /\ \A i \in 1..Len(path) : whole[Len(host) + i] = path[i]
    BY <1>1, UptoConcat
  <2>2. ASSUME NEW i \in DOMAIN whole
        PROVE  (\E j \in DOMAIN host : whole[i] = host[j]) \/ whole[i] \notin {":", "@"}
    <3>1. CASE i \in 1..Len(host)
      BY <1>1, <2>1, <3>1
    <3>2. CASE i \notin 1..Len(host)
      <4>1. i - Len(host) \in 1..Len(path) /\ i = Len(host) + (i - Len(host))
        BY <1>1, <2>1, <3>2
      <4>2. whole[i] = path[i - Len(host)] /\ i - Len(host) \in DOMAIN path
        BY <1>1, <2>1, <4>1
      <4> QED
        BY <1>3, <4>2
    <3> QED
      BY <3>1, <3>2
  <2> HIDE DEF whole
  <2> QED
    BY <1>5, <2>1, <2>2
<1> HIDE DEF whole
<1>7. I!StripDigest((whole \o tag) \o digest) = whole \o tag
  <2> DEFINE s == whole \o tag
  <2>1. tag \in Seq(T)
    <3>1. ":" \in T /\ "tag" \in T
      BY <1>1 DEF Marks
    <3>2. <<":", "tag">> \in Seq(T) /\ <<>> \in Seq(T)
      BY <3>1
    <3> QED
      BY <1>1, <3>2
  <2>2. s \in Seq(T)
    BY <1>6, <2>1
  <2>3. \A i \in DOMAIN s : s[i] # "@"
    <3>1. CASE tag = <<>>
      BY <1>6, <3>1
    <3>2. CASE tag = <<":", "tag">>
      BY <1>6, <3>2
    <3> QED
      BY <1>1, <3>1, <3>2
  <2> HIDE DEF s
  <2>4. I!StripDigest(s \o digest) = s
    BY <1>1, <2>2, <2>3, DigestStripped
  <2> QED
    BY <2>4 DEF s
<1>8. CASE tag = <<":", "tag">>
  <2>1. <<"tag">> \in Seq(T) /\ <<":", "tag">> = <<":">> \o <<"tag">>
    BY <1>1 DEF Marks
  <2>2. \A i \in DOMAIN <<"tag">> : <<"tag">>[i] # ":"
    OBVIOUS
  <2>3. I!StripTag(whole \o <<":">> \o <<"tag">>) = whole
    BY <1>1, <1>6, <2>1, <2>2, TagStripped
  <2>4. whole \o <<":", "tag">> = whole \o <<":">> \o <<"tag">>
    <3>1. ":" \in T
      BY <1>1 DEF Marks
    <3>2. <<":">> \in Seq(T)
      BY <3>1
    <3> QED
      BY <1>6, <2>1, <3>2
  <2>5. I!StripTag(I!StripDigest(I!Spelled(raw.image))) = whole
    BY <1>2, <1>7, <1>8, <2>3, <2>4
  <2> QED
    BY <2>5 DEF whole, host, path
<1>9. CASE tag = <<>>
  <2>1. whole \o tag = whole
    BY <1>6, <1>9
  <2>2. CASE \A i \in DOMAIN host : host[i] # ":"
    <3>1. I!StripTag(whole) = whole
      BY <1>1, <1>6, <2>2, TagStripped
    <3> QED
      BY <1>2, <1>7, <2>1, <3>1 DEF whole, host, path
  <2>3. CASE ~ \A i \in DOMAIN host : host[i] # ":"
    <3>1. PICK x \in Dotted : host = <<x, ":", "port", "/">>
      <4>1. ASSUME NEW x \in Dotted, host = <<x, "/">> PROVE FALSE
        <5>1. \A i \in 1..2 : host[i] # ":"
          BY <1>4, <4>1
        <5> QED
          BY <2>3, <4>1, <5>1
      <4> QED
        BY <1>1, <2>3, <4>1
    <3> DEFINE rest == <<"port", "/">> \o path
    <3>2. x \in T /\ <<x>> \in Seq(T)
      <4>1. host[1] = x /\ 1 \in DOMAIN host
        BY <3>1
      <4> QED
        BY <1>1, <4>1
    <3>3. <<"port", "/">> \in Seq(T)
      BY <1>1 DEF Marks
    <3>4. rest \in Seq(T) /\ \A i \in DOMAIN rest : rest[i] # ":"
      BY <1>1, <1>3, <3>3
    <3>5. whole = <<x>> \o <<":">> \o rest
      BY <1>1, <3>1, <3>2, <3>3 DEF whole, Marks
    <3> HIDE DEF rest
    <3>6. I!StripTag(<<x>> \o <<":">> \o rest) = <<x>>
      BY <1>1, <3>2, <3>4, TagStripped
    <3> QED
      BY <1>2, <1>7, <2>1, <3>1, <3>5, <3>6 DEF host
  <2> QED
    BY <2>2, <2>3
<1> QED
  BY <1>1, <1>8, <1>9

\* What InferRepoURL makes of a reference without tag and digest, case by case.
LEMMA InferredFacts ==
  ASSUME NEW T, NEW image, NEW img \in Seq(T),
         Marks \cup {"ghcr.io", "lscr.io", "linuxserver"} \subseteq T,
         img = I!StripTag(I!StripDigest(image)),
         ~(Len(img) >= 2 /\ img[1] = "sha256" /\ img[2] = ":")
  PROVE  LET After(token) ==
                 IF Len(img) >= 2 /\ img[1] = token /\ img[2] = "/"
                 THEN SubSeq(img, 3, Len(img)) ELSE img
             ghcr    == After("ghcr.io")
             cleaned == After("lscr.io")
             url     == I!InferRepoURL(image)
         IN  url = IF img = <<"hex">> THEN <<>>
                   ELSE IF img # ghcr /\ (\E i \in DOMAIN ghcr : ghcr[i] = "/")
                        THEN <<"github.com/">> \o SubSeq(ghcr, 1, 3)
                   ELSE IF Len(cleaned) >= 2 /\ cleaned[1] = "linuxserver" /\ cleaned[2] = "/"
                        THEN <<"github.com/linuxserver/docker-">>
                                 \o SubSeq(cleaned, 3, Len(cleaned))
                   ELSE IF \E i \in DOMAIN img : img[i] \in Dotted THEN <<>>
                   ELSE IF I!Positions(img, "/") = {} THEN <<"hub.docker.com/_/">> \o img
                   ELSE <<"hub.docker.com/r/">> \o img
<1> DEFINE After(token) ==
               IF Len(img) >= 2 /\ img[1] = token /\ img[2] = "/"
               THEN SubSeq(img, 3, Len(img)) ELSE img
           ghcr    == After("ghcr.io")
           cleaned == After("lscr.io")
<1>1. /\ "sha256" \in T /\ ":" \in T /\ "/" \in T
      /\ "ghcr.io" \in T /\ "lscr.io" \in T /\ "linuxserver" \in T
  BY DEF Marks
<1>2. I!TrimPrefix(img, <<"sha256", ":">>) = img
  BY <1>1, Trimmed
<1>3. I!TrimPrefix(img, <<"ghcr.io", "/">>) = ghcr
  BY <1>1, Trimmed
<1>4. I!TrimPrefix(img, <<"lscr.io", "/">>) = cleaned
  BY <1>1, Trimmed
<1>5. ghcr \in Seq(T) /\ cleaned \in Seq(T)
  OBVIOUS
<1> HIDE DEF ghcr, cleaned
<1>6. I!IsPrefix(<<"linuxserver", "/">>, cleaned) <=>
        Len(cleaned) >= 2 /\ cleaned[1] = "linuxserver" /\ cleaned[2] = "/"
  BY <1>1, <1>5, Trimmed
<1>7. I!Contains(ghcr, "/") <=> \E i \in DOMAIN ghcr : ghcr[i] = "/"
  BY <1>5 DEF I!Contains
<1>8. I!Range(img) \cap Dotted # {} <=> \E i \in DOMAIN img : img[i] \in Dotted
  BY DEF I!Range
<1>9. I!InferRepoURL(image) =
        IF img = <<"hex">> THEN <<>>
        ELSE IF img # ghcr /\ I!Contains(ghcr, "/")
             THEN <<"github.com/">> \o SubSeq(ghcr, 1, 3)
        ELSE IF I!IsPrefix(<<"linuxserver", "/">>, cleaned)
             THEN <<"github.com/linuxserver/docker-">> \o SubSeq(cleaned, 3, Len(cleaned))
        ELSE IF I!Range(img) \cap Dotted # {} THEN <<>>
        ELSE IF I!Positions(img, "/") = {} THEN <<"hub.docker.com/_/">> \o img
        ELSE <<"hub.docker.com/r/">> \o img
  BY <1>2, <1>3, <1>4 DEF I!InferRepoURL
<1>10. I!InferRepoURL(image) =
        IF img = <<"hex">> THEN <<>>
        ELSE IF img # ghcr /\ (\E i \in DOMAIN ghcr : ghcr[i] = "/")
             THEN <<"github.com/">> \o SubSeq(ghcr, 1, 3)
        ELSE IF Len(cleaned) >= 2 /\ cleaned[1] = "linuxserver" /\ cleaned[2] = "/"
             THEN <<"github.com/linuxserver/docker-">> \o SubSeq(cleaned, 3, Len(cleaned))
        ELSE IF \E i \in DOMAIN img : img[i] \in Dotted THEN <<>>
        ELSE IF I!Positions(img, "/") = {} THEN <<"hub.docker.com/_/">> \o img
        ELSE <<"hub.docker.com/r/">> \o img
  BY <1>6, <1>7, <1>8, <1>9
<1> QED
  BY <1>10 DEF ghcr, cleaned

\* A sequence without its first two elements, and with them again.
LEMMA FromThird ==
  ASSUME NEW T, NEW s \in Seq(T), Len(s) >= 2
  PROVE  LET r == SubSeq(s, 3, Len(s))
         IN  /\ r \in Seq(T) /\ Len(r) = Len(s) - 2
             /\ \A i \in 1..(Len(s) - 2) : r[i] = s[i + 2]
             /\ <<s[1], s[2]>> \o r = s
<1> DEFINE r == SubSeq(s, 3, Len(s))
           a == <<s[1], s[2]>>
<1>1. r \in Seq(T) /\ Len(r) = Len(s) - 2 /\ \A i \in 1..(Len(s) - 2) : r[i] = s[i + 2]
  <2>1. CASE Len(s) = 2
    <3>1. r = <<>>
      BY <2>1
    <3> QED
      BY <2>1, <3>1
  <2>2. CASE Len(s) # 2
    <3> DEFINE n == Len(s)
    <3>1. n \in Int /\ n >= 3 /\ \A i \in 3..n : s[i] \in T
      BY <2>2
    <3> HIDE DEF n
    <3>2. /\ SubSeq(s, 3, n) \in Seq(T) /\ Len(SubSeq(s, 3, n)) = n - 2
          /\ \A i \in 1..(n - 2) : SubSeq(s, 3, n)[i] = s[3 + i - 1]
      BY <3>1, SubSeqProperties
    <3>3. \A i \in 1..(n - 2) : SubSeq(s, 3, n)[i] = s[i + 2]
      <4> TAKE i \in 1..(n - 2)
      <4>1. 3 + i - 1 = i + 2
        BY <3>1
      <4> QED
        BY <3>2, <4>1
    <3>4. /\ SubSeq(s, 3, n) \in Seq(T) /\ Len(SubSeq(s, 3, n)) = n - 2
          /\ \A i \in 1..(n - 2) : SubSeq(s, 3, n)[i] = s[i + 2]
      BY <3>2, <3>3
    <3> HIDE DEF r
    <3>5. r = SubSeq(s, 3, n)
      BY DEF n, r
    <3>6. r \in Seq(T) /\ Len(r) = n - 2 /\ \A i \in 1..(n - 2) : r[i] = s[i + 2]
      BY <3>4, <3>5
    <3> QED
      BY <3>6 DEF n
  <2> QED
    BY <2>1, <2>2
<1>2. a \in Seq(T) /\ Len(a) = 2 /\ a[1] = s[1] /\ a[2] = s[2]
  <2>1. 1 \in 1..Len(s) /\ 2 \in 1..Len(s)
    OBVIOUS
  <2>2. s[1] \in T
    BY <2>1, ElementOfSeq
  <2>3. s[2] \in T
    BY <2>1, ElementOfSeq
  <2> QED
    BY <2>2, <2>3
<1> HIDE DEF r, a
<1>3. /\ a \o r \in Seq(T) /\ Len(a \o r) = Len(a) + Len(r)
      /\ \A i \in 1..Len(a) : (a \o r)[i] = a[i]
      /\ \A i \in 1..Len(r) : (a \o r)[Len(a) + i] = r[i]
  <2>1. a \in Seq(T) /\ r \in Seq(T)
    BY <1>1, <1>2
  <2> QED
    BY <2>1, UptoConcat
<1>4. ASSUME NEW i \in 1..Len(s) PROVE (a \o r)[i] = s[i]
  <2>1. CASE i \in 1..2
    BY <1>2, <1>3, <2>1
  <2>2. CASE i \notin 1..2
    <3>1. i - 2 \in 1..Len(r) /\ i = Len(a) + (i - 2) /\ i = (i - 2) + 2
      BY <1>1, <1>2, <2>2
    <3>2. (a \o r)[i] = r[i - 2]
      BY <1>3, <3>1
    <3>3. r[i - 2] = s[i]
      BY <1>1, <3>1
    <3> QED
      BY <3>2, <3>3
  <2> QED
    BY <2>1, <2>2
<1>5. a \o r = s
  BY <1>1, <1>2, <1>3, <1>4, SeqEqual
<1> QED
  BY <1>1, <1>5 DEF a, r

\* A link is a site and what follows it.
LEMMA LinkParts ==
  ASSUME NEW T, NEW s \in Seq(T), NEW site
  PROVE  LET url == <<site>> \o s IN url # <<>> /\ Head(url) = site /\ Tail(url) = s
<1> DEFINE U == T \cup {site}
           url == <<site>> \o s
<1>1. s \in Seq(U) /\ <<site>> \in Seq(U)
  OBVIOUS
<1>2. url \in Seq(U) /\ Len(url) = Len(s) + 1 /\ url[1] = site
  BY <1>1
<1>3. \A i \in 1..Len(s) : url[i + 1] = s[i]
  BY <1>1
<1> HIDE DEF url
<1>4. Tail(url) \in Seq(U) /\ Len(Tail(url)) = Len(s)
      /\ \A i \in 1..Len(s) : Tail(url)[i] = s[i]
  BY <1>1, <1>2, <1>3
<1>5. Tail(url) = s
  BY <1>1, <1>4, SeqEqual
<1> QED
  BY <1>2, <1>5 DEF url

\* The link made of a reference names its repository, and there is one for an
\* image of Docker Hub without a dot.
LEMMA LinkFacts ==
  ASSUME NEW raw \in Known, Told(raw.image)
  PROVE  LET host  == raw.image.host
             path  == raw.image.path
             url   == I!InferRepoURL(I!Spelled(raw.image))
             owner == IF Head(url) = "github.com/linuxserver/docker-"
                      THEN <<"linuxserver", "/">> ELSE <<>>
             named == owner \o Tail(url)
         IN  /\ url # <<>> =>
                \/ named = path
                \/ "ghcr.io" \in Range(host) /\ named = SubSeq(path, 1, 3)
             /\ host = <<>> /\ Range(path) \cap Dotted = {} => url # <<>>
<1> DEFINE host  == raw.image.host
           path  == raw.image.path
           image == I!Spelled(raw.image)
           url   == I!InferRepoURL(image)
           img   == I!StripTag(I!StripDigest(image))
           T     == Tokens(raw.image) \cup {"ghcr.io", "lscr.io", "linuxserver"}
           After(token) ==
               IF Len(img) >= 2 /\ img[1] = token /\ img[2] = "/"
               THEN SubSeq(img, 3, Len(img)) ELSE img
           ghcr    == After("ghcr.io")
           cleaned == After("lscr.io")
           owner(u) == IF Head(u) = "github.com/linuxserver/docker-"
                       THEN <<"linuxserver", "/">> ELSE <<>>
           named(u) == owner(u) \o Tail(u)
           Right(u) ==
             /\ u # <<>> =>
                \/ named(u) = path
                \/ "ghcr.io" \in Range(host) /\ named(u) = SubSeq(path, 1, 3)
             /\ host = <<>> /\ Range(path) \cap Dotted = {} => u # <<>>
<1>1. /\ host \in Seq(T) /\ path \in Seq(T)
      /\ Marks \cup {"ghcr.io", "lscr.io", "linuxserver"} \subseteq T
      /\ I!IsPath(path)
      /\ \/ host = <<>>
         \/ \E x \in Dotted : host = <<x, "/">> \/ host = <<x, ":", "port", "/">>
      /\ host = <<>> =>
            /\ path # <<"hex">>
            /\ Len(path) > 1 => path[1] \notin Dotted \cup {"localhost"}
  <2>1. LET U == Tokens(raw.image)
        IN  /\ host \in Seq(U) /\ path \in Seq(U) /\ Marks \subseteq U
            /\ I!IsPath(path)
            /\ \/ host = <<>>
               \/ \E x \in Dotted : host = <<x, "/">> \/ host = <<x, ":", "port", "/">>
            /\ host = <<>> =>
                  /\ path # <<"hex">>
                  /\ Len(path) > 1 => path[1] \notin Dotted \cup {"localhost"}
    BY ReferenceFacts
  <2> HIDE DEF host, path
  <2> QED
    BY <2>1
<1>2. \/ img = host \o path
      \/ \E x \in Dotted : host = <<x, ":", "port", "/">> /\ img = <<x>>
  BY StrippedFacts
<1>3. /\ Len(path) \in Nat /\ Len(path) >= 1
      /\ \A i \in DOMAIN path : path[i] # ":" /\ (path[i] = "/" => i # 1 /\ i # Len(path))
  <2>1. Len(path) \in Nat /\ Len(path) % 2 = 1
    <3>1. Len(path) % 2 = 1
      BY <1>1 DEF I!IsPath
    <3>2. path \in Seq(T)
      BY <1>1
    <3> HIDE DEF path, T
    <3>3. Len(path) \in Nat
      BY <3>2
    <3> QED
      BY <3>1, <3>3
  <2>2. \A i \in DOMAIN path : path[i] # ":" /\ (path[i] = "/" <=> i % 2 = 0)
    BY <1>1 DEF I!IsPath
  <2> HIDE DEF host, path
  <2>3. Len(path) >= 1
    BY <2>1
  <2>4. \A i \in DOMAIN path : path[i] = "/" => i # 1 /\ i # Len(path)
    BY <2>1, <2>2
  <2> QED
    BY <2>1, <2>2, <2>3, <2>4
<1>4. /\ "ghcr.io" \in Dotted /\ "lscr.io" \in Dotted /\ "linuxserver" \notin Dotted
      /\ "sha256" \notin Dotted /\ "hex" \notin Dotted
      /\ \A x \in Dotted : x # "/" /\ x # ":" /\ x # "port"
  BY DottedAssumption
<1> HIDE DEF host, path, image, T
<1>5. img \in Seq(T)
  <2>1. CASE img = host \o path
    BY <1>1, <2>1
  <2>2. ASSUME NEW x \in Dotted, host = <<x, ":", "port", "/">>, img = <<x>>
        PROVE  img \in Seq(T)
    <3>1. 1 \in DOMAIN host /\ host[1] = x
      BY <2>2
    <3> QED
      BY <1>1, <2>2, <3>1
  <2> QED
    BY <1>2, <2>1, <2>2
<1>6. ASSUME ~(Len(img) >= 2 /\ img[1] = "sha256" /\ img[2] = ":")
      PROVE  url = IF img = <<"hex">> THEN <<>>
                   ELSE IF img # ghcr /\ (\E i \in DOMAIN ghcr : ghcr[i] = "/")
                        THEN <<"github.com/">> \o SubSeq(ghcr, 1, 3)
                   ELSE IF Len(cleaned) >= 2 /\ cleaned[1] = "linuxserver" /\ cleaned[2] = "/"
                        THEN <<"github.com/linuxserver/docker-">>
                                 \o SubSeq(cleaned, 3, Len(cleaned))
                   ELSE IF \E i \in DOMAIN img : img[i] \in Dotted THEN <<>>
                   ELSE IF I!Positions(img, "/") = {} THEN <<"hub.docker.com/_/">> \o img
                   ELSE <<"hub.docker.com/r/">> \o img
  BY <1>1, <1>5, <1>6, InferredFacts
<1> HIDE DEF img, url
\* Sites and what follows them.
<1>7. \A s \in Seq(T) :
        /\ Right(<<"github.com/linuxserver/docker-">> \o s)
              <=> \/ <<"linuxserver", "/">> \o s = path
                  \/ "ghcr.io" \in Range(host)
                        /\ <<"linuxserver", "/">> \o s = SubSeq(path, 1, 3)
        /\ \A site \in {"github.com/", "hub.docker.com/_/", "hub.docker.com/r/"} :
              Right(<<site>> \o s)
                <=> s = path \/ ("ghcr.io" \in Range(host) /\ s = SubSeq(path, 1, 3))
  <2> TAKE s \in Seq(T)
  <2>1. LET u == <<"github.com/linuxserver/docker-">> \o s
        IN  u # <<>> /\ Head(u) = "github.com/linuxserver/docker-" /\ Tail(u) = s
    BY LinkParts
  <2>2. ASSUME NEW site \in {"github.com/", "hub.docker.com/_/", "hub.docker.com/r/"}
        PROVE  Right(<<site>> \o s)
                <=> s = path \/ ("ghcr.io" \in Range(host) /\ s = SubSeq(path, 1, 3))
    <3> DEFINE u == <<site>> \o s
    <3>1. u # <<>> /\ Head(u) = site /\ Tail(u) = s
      BY LinkParts
    <3> HIDE DEF u
    <3>2. site # "github.com/linuxserver/docker-"
      OBVIOUS
    <3>3. owner(u) = <<>>
      BY <3>1, <3>2
    <3>4. <<>> \o s = s
      OBVIOUS
    <3>5. named(u) = s
      BY <3>1, <3>3, <3>4
    <3> HIDE DEF owner, named
    <3> QED
      BY <3>1, <3>5 DEF u
  <2>3. Right(<<"github.com/linuxserver/docker-">> \o s)
              <=> \/ <<"linuxserver", "/">> \o s = path
                  \/ "ghcr.io" \in Range(host)
                        /\ <<"linuxserver", "/">> \o s = SubSeq(path, 1, 3)
    <3> DEFINE u == <<"github.com/linuxserver/docker-">> \o s
    <3>1. u # <<>> /\ owner(u) = <<"linuxserver", "/">> /\ Tail(u) = s
      BY <2>1
    <3> HIDE DEF u
    <3> QED
      BY <3>1 DEF u
  <2> QED
    BY <2>2, <2>3
<1>8. host # <<>> => Right(<<>>)
  OBVIOUS
\* Two tokens stripped from a sequence and put before it again.
<1>9. \A s \in Seq(T) : Len(s) >= 2 /\ s[1] = "linuxserver" /\ s[2] = "/"
        => SubSeq(s, 3, Len(s)) \in Seq(T) /\ <<"linuxserver", "/">> \o SubSeq(s, 3, Len(s)) = s
  <2> TAKE s \in Seq(T)
  <2> HAVE Len(s) >= 2 /\ s[1] = "linuxserver" /\ s[2] = "/"
  <2> QED
    BY FromThird
\* Docker Hub.
<1>10. CASE host = <<>>
  <2>1. img = path
    BY <1>1, <1>2, <1>10
  <2>2. /\ img # <<"hex">> /\ ghcr = img /\ cleaned = img
        /\ ~(Len(img) >= 2 /\ img[1] = "sha256" /\ img[2] = ":")
    BY <1>1, <1>3, <1>4, <1>10, <2>1
  <2> HIDE DEF ghcr, cleaned
  <2>3. CASE Len(path) >= 2 /\ path[1] = "linuxserver" /\ path[2] = "/"
    <3>1. url = <<"github.com/linuxserver/docker-">> \o SubSeq(path, 3, Len(path))
      BY <1>6, <2>1, <2>2, <2>3
    <3> HIDE DEF Right
    <3>2. Right(url)
      BY <1>1, <1>7, <1>9, <2>3, <3>1
    <3> QED
      BY <3>2 DEF Right, host, path, url, image
  <2>4. CASE ~(Len(path) >= 2 /\ path[1] = "linuxserver" /\ path[2] = "/")
    <3>1. CASE \E i \in DOMAIN path : path[i] \in Dotted
      <4>1. url = <<>>
        BY <1>6, <2>1, <2>2, <2>4, <3>1
      <4>2. Right(url)
        BY <3>1, <4>1 DEF Range
      <4> QED
        BY <4>2 DEF host, path, url, image
    <3>2. CASE ~ \E i \in DOMAIN path : path[i] \in Dotted
      <4>1. \E site \in {"github.com/", "hub.docker.com/_/", "hub.docker.com/r/"} :
              url = <<site>> \o path
        BY <1>6, <2>1, <2>2, <2>4, <3>2
      <4> HIDE DEF Right
      <4>2. Right(url)
        BY <1>1, <1>7, <4>1
      <4> QED
        BY <4>2 DEF Right, host, path, url, image
    <3> QED
      BY <3>1, <3>2
  <2> QED
    BY <2>3, <2>4

\* A registry with a dot and no port.
<1>11. ASSUME NEW x \in Dotted, host = <<x, "/">>, img = host \o path
       PROVE  Right(url)
  <2>1. /\ Len(img) = Len(path) + 2 /\ img[1] = x /\ img[2] = "/"
        /\ \A i \in 1..Len(path) : img[i + 2] = path[i]
        /\ x \in Range(host) /\ host # <<>>
    <3>1. Len(host) = 2 /\ host[1] = x /\ host[2] = "/"
      BY <1>11
    <3> QED
      BY <1>1, <1>11, <3>1 DEF Range
  <2>2. SubSeq(img, 3, Len(img)) = path
    <3> DEFINE r == SubSeq(img, 3, Len(img))
    <3>1. r \in Seq(T) /\ Len(r) = Len(path) /\ \A i \in 1..Len(path) : r[i] = path[i]
      BY <1>3, <1>5, <2>1
    <3> HIDE DEF r
    <3>2. r = path
      BY <1>1, <3>1, SeqEqual
    <3> QED
      BY <3>2 DEF r
  <2>3. /\ img # <<"hex">> /\ img # path
        /\ ~(Len(img) >= 2 /\ img[1] = "sha256" /\ img[2] = ":")
        /\ \E i \in DOMAIN img : img[i] \in Dotted
    BY <1>3, <1>4, <1>5, <2>1
  <2>4. /\ ghcr = IF x = "ghcr.io" THEN path ELSE img
        /\ cleaned = IF x = "lscr.io" THEN path ELSE img
    <3> DEFINE r == SubSeq(img, 3, Len(img))
    <3>1. r = path
      BY <2>2
    <3>2. Len(img) >= 2 /\ img[1] = x /\ img[2] = "/"
      BY <1>3, <2>1
    <3>3. /\ ghcr = IF x = "ghcr.io" THEN r ELSE img
          /\ cleaned = IF x = "lscr.io" THEN r ELSE img
      BY <3>2
    <3> HIDE DEF ghcr, cleaned, r
    <3> QED
      BY <3>1, <3>3
  <2> HIDE DEF ghcr, cleaned, Right
  <2>5. CASE x = "ghcr.io" /\ \E i \in DOMAIN path : path[i] = "/"
    <3>1. url = <<"github.com/">> \o SubSeq(path, 1, 3)
      BY <1>6, <2>3, <2>4, <2>5
    <3>2. SubSeq(path, 1, 3) \in Seq(T)
      BY <1>1, <1>3, <2>5
    <3> QED
      BY <1>7, <2>1, <2>5, <3>1, <3>2
  <2>6. CASE x = "lscr.io" /\ Len(path) >= 2 /\ path[1] = "linuxserver" /\ path[2] = "/"
    <3>1. url = <<"github.com/linuxserver/docker-">> \o SubSeq(path, 3, Len(path))
      BY <1>6, <2>3, <2>4, <2>6
    <3> QED
      BY <1>1, <1>7, <1>9, <2>6, <3>1
  <2>7. CASE /\ ~(x = "ghcr.io" /\ \E i \in DOMAIN path : path[i] = "/")
             /\ ~(x = "lscr.io" /\ Len(path) >= 2 /\ path[1] = "linuxserver" /\ path[2] = "/")
    <3>1. ~(img # ghcr /\ \E i \in DOMAIN ghcr : ghcr[i] = "/")
      BY <2>4, <2>7
    <3>2. ~(Len(cleaned) >= 2 /\ cleaned[1] = "linuxserver" /\ cleaned[2] = "/")
      BY <1>4, <2>1, <2>4, <2>7
    <3>3. url = <<>>
      BY <1>6, <2>3, <3>1, <3>2
    <3> QED
      BY <1>8, <2>1, <3>3
  <2> QED
    BY <2>5, <2>6, <2>7
\* A registry with a dot and a port: there is no link.
<1>12. ASSUME NEW x \in Dotted, host = <<x, ":", "port", "/">>
       PROVE  Right(url)
  <2>1. img[1] = x /\ Len(img) >= 1 /\ (Len(img) >= 2 => img[2] = ":")
    <3>1. Len(host) = 4 /\ host[1] = x /\ host[2] = ":" /\ host # <<>>
      BY <1>12
    <3>2. CASE img = host \o path
      <4>1. /\ Len(img) = Len(host) + Len(path)
            /\ \A i \in 1..Len(host) : img[i] = host[i]
        BY <1>1, <3>2, UptoConcat
      <4> QED
        BY <1>3, <3>1, <4>1
    <3>3. ASSUME NEW y \in Dotted, host = <<y, ":", "port", "/">>, img = <<y>>
          PROVE  img[1] = x /\ Len(img) >= 1 /\ (Len(img) >= 2 => img[2] = ":")
      BY <3>1, <3>3
    <3> QED
      BY <1>2, <3>2, <3>3
  <2>2. /\ img # <<"hex">> /\ ghcr = img /\ cleaned = img
        /\ ~(Len(img) >= 2 /\ img[1] = "sha256" /\ img[2] = ":")
        /\ ~(Len(img) >= 2 /\ img[1] = "linuxserver" /\ img[2] = "/")
        /\ \E i \in DOMAIN img : img[i] \in Dotted
    BY <1>4, <1>5, <2>1
  <2> HIDE DEF ghcr, cleaned, Right
  <2>3. url = <<>>
    BY <1>6, <2>2
  <2>4. host # <<>>
    BY <1>12
  <2> QED
    BY <1>8, <2>3, <2>4
<1>13. CASE host # <<>>
  <2>1. Right(url)
    <3> HIDE DEF Right
    <3>1. ASSUME NEW x \in Dotted, host = <<x, "/">> PROVE Right(url)
      <4>1. img = host \o path
        <5>1. ASSUME NEW y \in Dotted, host = <<y, ":", "port", "/">> PROVE FALSE
          <6>1. Len(host) = 2 /\ Len(host) = 4
            BY <3>1, <5>1
          <6> QED
            BY <6>1
        <5> QED
          BY <1>2, <5>1
      <4> QED
        BY <1>11, <3>1, <4>1
    <3> QED
      BY <1>1, <1>12, <1>13, <3>1
  <2> QED
    BY <2>1 DEF host, path, url, image
<1> QED
  BY <1>10, <1>13

-----------------------------------------------------------------------------
\* The page shows what an inspection of its subject gives.
SubjectInv ==
    /\ subject \in Known \cup {Nothing}
    /\ route = Nothing => subject = Nothing /\ card = Nothing /\ detail = Nothing
    /\ card # Nothing =>
        /\ subject \in Known
        /\ \E d \in I!containerDetailFromInspect(subject) : card = I!Card(d)
    /\ detail # Nothing =>
        subject \in Known /\ detail \in I!containerDetailFromInspect(subject)

\* A page is made from an inspection of a container Docker knows.
LEMMA SubjectStep ==
  SubjectInv /\ [HandlersNext]_<<listVars, route, response, oneVars>> => SubjectInv'
<1> SUFFICES ASSUME SubjectInv, [HandlersNext]_<<listVars, route, response, oneVars>>
             PROVE  SubjectInv'
  OBVIOUS
<1> USE DEF SubjectInv
<1>1. \A r \in OneRoutes \cup ListRoutes \cup OtherRoutes : r # Nothing
  BY NothingAssumption
<1>2. ASSUME UNCHANGED oneVars, route = Nothing PROVE SubjectInv'
  BY <1>2 DEF oneVars
<1>3. ASSUME NEW p \in Param, PartialContainers(p) \/ APIContainers(p) PROVE SubjectInv'
  BY <1>2, <1>3 DEF PartialContainers, APIContainers, Respond
<1>4. ASSUME NEW r, NEW a, Request(r, a) PROVE SubjectInv'
  BY <1>2, <1>4 DEF Request, Respond
<1>5. ASSUME NEW r, NEW a, NotInspected(r, a) PROVE SubjectInv'
  BY <1>2, <1>5 DEF NotInspected, Respond
<1>6. ASSUME NEW r \in OneRoutes, NEW raw \in Known, InspectionPanics(r, raw)
      PROVE  SubjectInv'
  <2>1. /\ route = Nothing /\ route' = r /\ r # Nothing /\ subject' = raw
        /\ card' = card /\ detail' = detail
    BY <1>1, <1>6 DEF InspectionPanics, Respond
  <2> QED
    BY <2>1
<1>7. ASSUME NEW raw \in Known, handlePartialContainerCard(raw) PROVE SubjectInv'
  <2>1. /\ route = Nothing /\ route' = "card" /\ subject' = raw /\ detail' = detail
        /\ \E d \in I!containerDetailFromInspect(raw) : card' = I!Card(d)
    BY <1>7 DEF handlePartialContainerCard, Respond
  <2>2. "card" # Nothing
    BY <1>1 DEF OneRoutes
  <2> QED
    BY <2>1, <2>2
<1>8. ASSUME NEW r \in {"detail", "detailJSON"}, NEW raw \in Known, Detail(r, raw)
      PROVE  SubjectInv'
  <2>1. /\ route = Nothing /\ route' = r /\ subject' = raw /\ card' = card
        /\ detail' \in I!containerDetailFromInspect(raw)
    BY <1>8 DEF Detail, Respond
  <2>2. r # Nothing
    BY <1>1 DEF OneRoutes
  <2> QED
    BY <2>1, <2>2
<1>9. CASE NextRequest
  BY <1>9 DEF NextRequest
<1>10. CASE UNCHANGED <<listVars, route, response, oneVars>>
  BY <1>10 DEF oneVars
<1> QED
  BY <1>3, <1>4, <1>5, <1>6, <1>7, <1>8, <1>9, <1>10 DEF HandlersNext

\* So it always shows one, or none.
LEMMA Subjects == HandlersSpec => []SubjectInv
<1>1. HandlersInit => SubjectInv
  BY DEF HandlersInit, SubjectInv
<1> QED
  BY <1>1, SubjectStep, PTL DEF HandlersSpec

\* What the card from the list is made of.
LEMMA ListedCard ==
  ASSUME NEW raw \in Known
  PROVE  LET c == I!ContainerFromAPI(raw)
         IN  /\ c.short = I!ShortID(raw.id) /\ c.name = raw.name /\ c.state = raw.state
             /\ c.image = raw.listed /\ c.labels = raw.labels
             /\ c.ports \in Seq(PortType) /\ Range(c.ports) = Bound(raw)
             /\ Len(c.ports) = Cardinality(Bound(raw))
             /\ \A p \in Range(c.ports) : p.host # 0
<1> DEFINE ps == I!APIPorts(raw)
           c == I!ContainerFromAPI(raw)
<1>1. /\ ps \in Seq(PortType) /\ Range(ps) = Bound(raw)
      /\ \A i, j \in DOMAIN ps : ps[i] = ps[j] => i = j
      /\ \A p \in Bound(raw) : p \in PortType /\ p.host # 0
  BY APIPortsFacts
<1> HIDE DEF ps
<1>2. Len(ps) = Cardinality(Range(ps))
  BY <1>1, CountRange
<1>3. /\ c.short = I!ShortID(raw.id) /\ c.name = raw.name /\ c.state = raw.state
      /\ c.image = raw.listed /\ c.labels = raw.labels /\ c.ports = ps
  BY DEF I!ContainerFromAPI, ps
<1> HIDE DEF c
<1> QED
  BY <1>1, <1>2, <1>3 DEF c

\* A card made from an inspection has the element id, name, state and labels of
\* the card from the list, its image unless the list has an identifier there, and
\* its ports up to three, in whatever order those of the inspection came.
THEOREM CardsSayTheSame == HandlersSpec => []CardsAgree
<1>1. SubjectInv => CardsAgree
  <2> SUFFICES ASSUME SubjectInv, card # Nothing PROVE CardsAgree
    BY DEF CardsAgree
  <2>1. PICK raw \in Known : raw = subject
    BY DEF SubjectInv
  <2>2. PICK ps \in I!SetToSeqs(I!InspectedPorts(raw)) :
          card = I!Card([id |-> <<>>, short |-> I!ShortID(raw.id), name |-> raw.name,
                         image |-> I!Spelled(raw.image), state |-> raw.state,
                         status |-> raw.state, uptime |-> 0, labels |-> raw.labels,
                         ports |-> ps, repo |-> I!InferRepoURL(I!Spelled(raw.image))])
    BY <2>1 DEF SubjectInv, I!containerDetailFromInspect
  <2> DEFINE d == [id |-> <<>>, short |-> I!ShortID(raw.id), name |-> raw.name,
                   image |-> I!Spelled(raw.image), state |-> raw.state,
                   status |-> raw.state, uptime |-> 0, labels |-> raw.labels,
                   ports |-> ps, repo |-> I!InferRepoURL(I!Spelled(raw.image))]
             c == I!ContainerFromAPI(raw)
             listed == I!Card(c)
  <2>3. card = I!Card(d)
    BY <2>2
  <2>4. /\ d.short = I!ShortID(raw.id) /\ d.name = raw.name /\ d.state = raw.state
        /\ d.image = I!Spelled(raw.image) /\ d.labels = raw.labels /\ d.ports = ps
    OBVIOUS
  <2> HIDE DEF d, c
  <2>5. /\ c.short = I!ShortID(raw.id) /\ c.name = raw.name /\ c.state = raw.state
        /\ c.image = raw.listed /\ c.labels = raw.labels
        /\ c.ports \in Seq(PortType) /\ Range(c.ports) = Bound(raw)
        /\ Len(c.ports) = Cardinality(Bound(raw))
        /\ \A p \in Range(c.ports) : p.host # 0
    BY ListedCard DEF c
  <2>6. /\ IsFiniteSet(I!InspectedPorts(raw))
        /\ {p \in I!InspectedPorts(raw) : p.host # 0} = Bound(raw)
        /\ ps \in Seq(PortType) /\ Range(ps) = I!InspectedPorts(raw)
        /\ Len(ps) = Cardinality(I!InspectedPorts(raw))
    BY InspectedFacts
  <2>7. /\ card.element = listed.element /\ card.name = listed.name
        /\ card.state = listed.state /\ card.labels = listed.labels
        /\ raw.listed = I!Spelled(raw.image) => card.image = listed.image
    BY <2>3, <2>4, <2>5, <2>6, CardFacts
  <2>8. ASSUME raw.state # "running"
        PROVE  Range(card.ports) = Range(listed.ports) /\ card.more = listed.more
    <3>1. card.ports = <<>> /\ card.more = 0
      BY <2>3, <2>4, <2>6, <2>8, CardFacts
    <3>2. listed.ports = <<>> /\ listed.more = 0
      BY <2>5, <2>8, CardFacts
    <3> QED
      BY <3>1, <3>2
  <2>9. ASSUME raw.state = "running", Cardinality(I!InspectedPorts(raw)) <= 3
        PROVE  Range(card.ports) = Range(listed.ports) /\ card.more = listed.more
    <3>1. Cardinality(Bound(raw)) <= 3
      <4>1. Bound(raw) \subseteq I!InspectedPorts(raw)
        BY <2>6
      <4>2. /\ Cardinality(Bound(raw)) <= Cardinality(I!InspectedPorts(raw))
            /\ Cardinality(Bound(raw)) \in Nat
            /\ Cardinality(I!InspectedPorts(raw)) \in Nat
        BY <4>1, <2>6, FS_Subset, FS_CardinalityType
      <4> QED
        BY <4>2, <2>9
    <3>2. Range(card.ports) = {p \in Range(ps) : p.host # 0} /\ card.more = 0
      BY <2>3, <2>4, <2>6, <2>9, CardFacts
    <3>3. Range(listed.ports) = {p \in Range(c.ports) : p.host # 0} /\ listed.more = 0
      BY <2>5, <2>9, <3>1, CardFacts
    <3>4. {p \in Range(c.ports) : p.host # 0} = Bound(raw)
      BY <2>5
    <3> QED
      BY <3>2, <3>3, <3>4, <2>6
  <2>10. \A f \in {"element", "name", "state", "labels"} : card[f] = listed[f]
    BY <2>7
  <2>11. Cardinality(I!InspectedPorts(raw)) <= 3 =>
            Range(card.ports) = Range(listed.ports) /\ card.more = listed.more
    BY <2>8, <2>9
  <2> HIDE DEF listed
  <2> QED
    BY <2>1, <2>7, <2>10, <2>11 DEF CardsAgree, listed, c
<1> QED
  BY <1>1, Subjects, PTL

\* On the card from the list of a running container, every published address of
\* a port is shown or counted, once.
THEOREM EveryPortCounts == HandlersSpec => []PortsAccountedFor
<1>1. SubjectInv => PortsAccountedFor
  <2> SUFFICES ASSUME SubjectInv, subject # Nothing, subject.state = "running"
               PROVE  LET listed == I!Card(I!ContainerFromAPI(subject))
                      IN  Len(listed.ports) + listed.more
                            = Cardinality({I!Port(b) : b \in Range(subject.bindings)})
    BY DEF PortsAccountedFor
  <2>1. PICK raw \in Known : raw = subject
    BY DEF SubjectInv
  <2> DEFINE c == I!ContainerFromAPI(raw)
             listed == I!Card(c)
  <2>2. /\ c.state = raw.state /\ c.ports \in Seq(PortType)
        /\ Len(c.ports) = Cardinality(Bound(raw))
        /\ \A p \in Range(c.ports) : p.host # 0
    BY ListedCard
  <2> HIDE DEF c
  <2>3. Len(listed.ports) + listed.more = Len(c.ports)
    BY <2>1, <2>2, CardFacts
  <2> QED
    BY <2>1, <2>2, <2>3 DEF Bound, c
<1> QED
  BY <1>1, Subjects, PTL

\* Whatever the reference of a container, with or without registry, port, tag and
\* digest, the link of its detail panel names its repository.
THEOREM LinksNameImages == HandlersSpec => []RepoURLNamesImage
<1>1. SubjectInv => RepoURLNamesImage
  <2> SUFFICES ASSUME SubjectInv, detail # Nothing, Told(subject.image)
               PROVE  LET host  == subject.image.host
                          path  == subject.image.path
                          owner == IF Head(detail.repo) = "github.com/linuxserver/docker-"
                                   THEN <<"linuxserver", "/">> ELSE <<>>
                          named == owner \o Tail(detail.repo)
                      IN  /\ detail.repo # <<>> =>
                            \/ named = path
                            \/ "ghcr.io" \in Range(host) /\ named = SubSeq(path, 1, 3)
                          /\ host = <<>> /\ Range(path) \cap Dotted = {} =>
                                detail.repo # <<>>
    BY DEF RepoURLNamesImage, Told
  <2>1. PICK raw \in Known : raw = subject
    BY DEF SubjectInv
  <2>2. detail.repo = I!InferRepoURL(I!Spelled(raw.image))
    BY <2>1 DEF SubjectInv, I!containerDetailFromInspect
  <2> QED
    BY <2>1, <2>2, LinkFacts
<1> QED
  BY <1>1, Subjects, PTL
=============================================================================
