---------------------------- MODULE ContainerList ----------------------------
(***************************************************************************)
(* From what Docker lists to what a request is answered: ParseLabels of    *)
(* internal/docker/labels.go, grouping, filtering and sorting of           *)
(* internal/service/container.go, and the two handlers that use them,      *)
(* handlePartialContainers (HTML) and handleAPIContainers (JSON).          *)
(*                                                                         *)
(* A text is a member of a small set.  Rank orders texts as < does, Fold   *)
(* takes those that differ only in case to the same one, and Occurs is     *)
(* strings.Contains on folded texts.                                       *)
(*                                                                         *)
(* sort.Slice is not stable and the iteration over a map is in no order:   *)
(* what they give is any of the sequences the comparison allows, and a     *)
(* view is any member of a set of views.                                   *)
(***************************************************************************)
EXTENDS Integers, SequencesExt, FiniteSetsExt, Loops

CONSTANTS
    Listing,            \* the lists Docker may give, sequences of containers
    Param,              \* the parameters of a request
    Rank, Fold,         \* functions on texts
    Occurs(_, _)        \* whether the first text contains the second

\* No value for a filter, an absent label, a text without characters.
Empty == ""

\* The texts that are sorted.
Text == DOMAIN Rank

\* raw.priority is the set of integers the label denotes: none if it is absent
\* or no integer.
RawLabels == [group : Text, name : Text, priority : SUBSET Int, hide : STRING,
              tags : SUBSET STRING]

APIContainer == [id : STRING, name : Text, state : STRING, created : Int,
                 image : STRING, labels : RawLabels]

\* Docker gives no identifier and no name twice.
ASSUME ListingAssumption ==
    /\ Listing \subseteq Seq(APIContainer)
    /\ \A cs \in Listing : \A i, j \in DOMAIN cs :
        cs[i].id = cs[j].id \/ cs[i].name = cs[j].name => i = j

\* Of two different texts one is less than the other.
ASSUME RankAssumption ==
    /\ Rank \in [Text -> Int]
    /\ \A s, t \in Text : Rank[s] = Rank[t] => s = t
    /\ {Empty, "Ungrouped"} \subseteq Text

VARIABLES
    containers,         \* what Docker lists
    asked,              \* the parameters of the last request
    page,               \* the groups it was answered with, if it was for HTML
    json                \* the containers it was answered with otherwise

listVars == <<containers, asked, page, json>>

-----------------------------------------------------------------------------
(* Labels. *)

DefaultPriority == 50

\* Faulty variant: only one of the three ways to say yes is understood.
ParseLabelsStrictly(raw) ==
    [group    |-> raw.group,
     name     |-> raw.name,
     priority |-> IF raw.priority = {} THEN DefaultPriority
                  ELSE CHOOSE n \in raw.priority : TRUE,
     hide     |-> raw.hide = "true",
     tags     |-> raw.tags \ {Empty}]

ParseLabels(raw) ==
    [group    |-> raw.group,
     name     |-> raw.name,
     priority |-> IF raw.priority = {} THEN DefaultPriority
                  ELSE CHOOSE n \in raw.priority : TRUE,
     hide     |-> raw.hide \in {"true", "1", "yes"},
     tags     |-> raw.tags \ {Empty}]

\* Faulty variant: no name for containers without a group.
GroupNameBare(labels) == labels.group

GroupName(labels) == IF labels.group # Empty THEN labels.group ELSE "Ungrouped"

DisplayName(labels, name) == IF labels.name # Empty THEN labels.name ELSE name

EqualFold(s, t) == Fold[s] = Fold[t]

HasTag(labels, tag) == \E t \in labels.tags : EqualFold(t, tag)

\* ContainerFromAPI, and List without its cache: hidden containers are dropped.
\* An identifier of Docker's is long enough for ID[:12].
ContainerFromAPI(c) == [c EXCEPT !.labels = ParseLabels(@)]

List(cs) ==
    LET all == [i \in DOMAIN cs |-> ContainerFromAPI(cs[i])]
    IN  Kept(all, {c \in Range(all) : ~c.labels.hide})

-----------------------------------------------------------------------------
(* Sorting. *)

Sorted(S, Less(_, _)) ==
    {s \in SetToSeqs(S) : \A i, j \in DOMAIN s : i < j => ~Less(s[j], s[i])}

\* Faulty variant: containers of equal priority are left in any order.
ByPriorityOnly(c, d) == c.labels.priority < d.labels.priority

ByPriority(c, d) ==
    \/ c.labels.priority < d.labels.priority
    \/ /\ c.labels.priority = d.labels.priority
       /\ Rank[c.name] < Rank[d.name]

Before(sort, c, d) ==
    CASE sort = "name"    -> Rank[c.name] < Rank[d.name]
      [] sort = "status"  -> Rank[c.state] < Rank[d.state]
      [] sort = "created" -> c.created > d.created
      [] OTHER            -> ByPriority(c, d)

GroupBefore(g, h) ==
    \/ g.priority < h.priority
    \/ g.priority = h.priority /\ Rank[g.name] < Rank[h.name]

-----------------------------------------------------------------------------
(* ContainerService.ListGrouped. *)

\* Faulty variant: a group keeps the priority of its first container.
IntoGroupFirst(groups, c) ==
    LET n == GroupName(c.labels)
        g == IF n \in DOMAIN groups THEN groups[n]
             ELSE [name |-> n, priority |-> c.labels.priority, containers |-> {}]
    IN  [x \in DOMAIN groups \cup {n} |->
            IF x # n THEN groups[x] ELSE [g EXCEPT !.containers = @ \cup {c}]]

\* One turn of the loop: the group of c is made if it is new.
IntoGroup(groups, c) ==
    LET n == GroupName(c.labels)
        p == c.labels.priority
        g == IF n \in DOMAIN groups THEN groups[n]
             ELSE [name |-> n, priority |-> p, containers |-> {}]
    IN  [x \in DOMAIN groups \cup {n} |->
            IF x # n THEN groups[x]
            ELSE [g EXCEPT !.containers = @ \cup {c},
                           !.priority = IF p < @ THEN p ELSE @]]

\* The map of groups after i turns.
Grouping(cs) ==
    LET groups[i \in 0..Len(cs)] ==
            IF i = 0 THEN [n \in {} |-> Empty] ELSE IntoGroup(groups[i - 1], cs[i])
    IN  groups

Groups(cs) == Grouping(List(cs))[Len(List(cs))]

ListGrouped(cs) ==
    LET groups  == Groups(cs)
        options == [n \in DOMAIN groups |->
                      {[groups[n] EXCEPT !.containers = s] :
                          s \in Sorted(groups[n].containers, ByPriority)}]
        choices == {f \in [DOMAIN groups -> UNION Range(options)] :
                        \A n \in DOMAIN groups : f[n] \in options[n]}
    IN  UNION {Sorted(Range(f), GroupBefore) : f \in choices}

-----------------------------------------------------------------------------
(* ContainerService.Search. *)

\* Faulty variant: the group is not looked at.
MatchesAnyGroup(c, p) ==
    /\ p.status # Empty => EqualFold(c.state, p.status)
    /\ p.tag # Empty => HasTag(c.labels, p.tag)
    /\ p.query # Empty =>
        \/ Occurs(DisplayName(c.labels, c.name), p.query)
        \/ Occurs(c.image, p.query)
        \/ Occurs(c.id, p.query)

matchesSearch(c, p) ==
    /\ p.status # Empty => EqualFold(c.state, p.status)
    /\ p.group # Empty => EqualFold(GroupName(c.labels), p.group)
    /\ p.tag # Empty => HasTag(c.labels, p.tag)
    /\ p.query # Empty =>
        \/ Occurs(DisplayName(c.labels, c.name), p.query)
        \/ Occurs(c.image, p.query)
        \/ Occurs(c.id, p.query)

Search(cs, p) ==
    Sorted({c \in Range(List(cs)) : matchesSearch(c, p)},
           LAMBDA c, d : Before(p.sort, c, d))

-----------------------------------------------------------------------------
(* The handlers. *)

SearchResults(s) == <<[name |-> "Search Results", priority |-> 0, containers |-> s]>>

handlePartialContainers(cs, p) ==
    IF p.query # Empty \/ p.status # Empty \/ p.tag # Empty
    THEN {SearchResults(s) : s \in Search(cs, p)}
    ELSE IF p.group = Empty THEN ListGrouped(cs)
    ELSE {Kept(gs, {g \in Range(gs) : g.name = p.group}) : gs \in ListGrouped(cs)}

NoParam == [query |-> Empty, status |-> Empty, group |-> Empty, tag |-> Empty,
            sort |-> Empty]

\* The page as handleDashboard renders it: without any parameter.
Init ==
    /\ containers \in Listing
    /\ asked = NoParam
    /\ page \in ListGrouped(containers)
    /\ json = <<>>

ServePartial(p) ==
    /\ asked' = p
    /\ page' \in handlePartialContainers(containers, p)
    /\ json' = <<>>
    /\ UNCHANGED containers

ServeAPI(p) ==
    /\ asked' = p
    /\ json' \in Search(containers, p)
    /\ page' = <<>>
    /\ UNCHANGED containers

Next == \E p \in Param : ServePartial(p) \/ ServeAPI(p)

Spec == Init /\ [][Next]_listVars

-----------------------------------------------------------------------------
Hidden(c) == c.labels.hide \in {"true", "1", "yes"}

Shown == FlattenSeq([i \in DOMAIN page |-> page[i].containers]) \o json

Ids(S) == {c.id : c \in S}

Unfiltered(p) == \A f \in {"query", "status", "group", "tag"} : p[f] = Empty

Searched(p) == \E f \in {"query", "status", "tag"} : p[f] # Empty

\* Every group of a page has a name, and one that is not the pseudo-group of a
\* search has containers.
TypeOK ==
    /\ containers \in Listing
    /\ asked \in Param \cup {NoParam}
    /\ \A i \in DOMAIN page :
        /\ page[i].name # Empty
        /\ page[i].priority \in Int
        /\ page[i].containers = <<>> => Searched(asked)
    /\ page # <<>> => json = <<>>

\* Grouping, filtering and sorting lose no container and show none twice, and
\* neither the page nor the API shows a hidden one, whatever the order of
\* Docker's list and of the iteration over the map of groups.
NothingLostNothingHidden ==
    /\ Len(Shown) = Cardinality(Ids(Range(Shown)))
    /\ Ids(Range(Shown)) \subseteq Ids({c \in Range(containers) : ~Hidden(c)})
    /\ Unfiltered(asked) =>
        Ids(Range(Shown)) = Ids({c \in Range(containers) : ~Hidden(c)})

\* "Groups are sorted by the lowest priority value among their containers", and
\* priority "determines sort order within a group" (LABELS.md), although the
\* loop of ListGrouped meets the containers in Docker's order.
GroupsInOrder ==
    LET Lowest(g) == Min({c.labels.priority : c \in Range(g.containers)})
    IN  ~Searched(asked) =>
        /\ \A i, j \in DOMAIN page : i < j => Lowest(page[i]) <= Lowest(page[j])
        /\ \A i \in DOMAIN page : \A j, k \in DOMAIN page[i].containers :
            j < k => page[i].containers[j].labels.priority
                        <= page[i].containers[k].labels.priority

\* A page that is refreshed while nothing changes keeps its order: neither the
\* random order of the map nor the instability of the sort shows.  The sorts by
\* status and by creation do not have this.
RefreshKeepsOrder ==
    asked.sort \notin {"status", "created"} =>
        \A v, w \in handlePartialContainers(containers, asked) : v = w

\* The two ways of filtering by group, one in the handler and exact, one in
\* matchesSearch and blind to case: whatever the API gives is on the page of the
\* same parameters and nothing else is, but for one difference.  Without a search,
\* the containers of groups whose names differ from the one asked for in case
\* only are given by the API and are not on the page.
PageAndAPIAgree ==
    LET InCaseOnly(c) ==
            /\ ~Searched(asked) /\ asked.group # Empty
            /\ GroupName(c.labels) # asked.group
            /\ EqualFold(GroupName(c.labels), asked.group)
    IN  \A v \in handlePartialContainers(containers, asked),
           s \in Search(containers, asked) :
            LET shown == Range(FlattenSeq([i \in DOMAIN v |-> v[i].containers]))
            IN  /\ shown \subseteq Range(s)
                /\ Range(s) \ shown = {c \in Range(s) : InCaseOnly(c)}

\* Tags "can be used to filter containers in the search bar" (LABELS.md): a
\* search for a tag shows the containers that have it.
SearchBarFindsTags ==
    \A c \in Range(List(containers)) :
        (\E t \in c.labels.tags : asked.query # Empty /\ EqualFold(t, asked.query))
        /\ Unfiltered([asked EXCEPT !.query = Empty])
            => c.id \in Ids(Range(Shown))
==============================================================================
