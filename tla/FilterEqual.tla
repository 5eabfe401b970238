----------------------------- MODULE FilterEqual -----------------------------
(***************************************************************************)
(* Filter.Equal (filter.go:256-533) as callers use it: two holders of a    *)
(* *Filter compare them, in either direction and any number of times.      *)
(* Equal compares the scalar fields, then, list by list, sorts both        *)
(* filters' slices in place and returns false at the first list that       *)
(* differs.  Of the twenty-four string lists, which are all sorted with    *)
(* slices.Sort and compared alike, Path stands for all; Search and Sort    *)
(* are sorted with comparators that look at one key of each entry          *)
(* (Input, Direction).  "simple" stands for the scalars simpleCmp compares.*)
(* Strings, search inputs and directions are ordered values (naturals).    *)
(*                                                                         *)
(* slices.Sort and slices.SortFunc sort a slice of at most twelve entries  *)
(* by insertion sort, which keeps entries the comparator ties in their     *)
(* order; the instances here stay below that length.                       *)
(***************************************************************************)
EXTENDS Integers, SequencesExt

CONSTANTS
  Values,        \* the strings of list-valued dimensions, ordered
  SearchFields,  \* the Fields a Search entry may name
  Inputs,        \* the search inputs, ordered
  SortFields,    \* the Fields a Sort entry may name
  Directions,    \* pkg.Direction values, ordered as strings
  Holders,       \* the callers that hold a *Filter
  Requests       \* the filters the holders may construct

SearchEntry == [field: SearchFields, input: Inputs]
SortEntry == [field: SortFields, direction: Directions]

FilterRec ==
  [simple: {0, 1}, weekdayMode: {1, 2}, path: Seq(Values),
   search: Seq(SearchEntry), sort: Seq(SortEntry)]

ASSUME RequestsAssumption == Requests \subseteq [Holders -> FilterRec]

VARIABLES
  request,   \* each holder's filter as constructed (history)
  filters,   \* each holder's *Filter
  answer     \* the last result of x.Equal(y), per pair compared so far

vars == <<request, filters, answer>>

(* The lists in the order Equal compares them.                             *)
ListNames == <<"path", "search", "sort">>

(* The comparator of the Search entries: by Input, larger first.           *)
SearchLess(u, v) == u.input > v.input

(* The comparator of the Sort entries: by Direction, larger first.         *)
SortLess(u, v) == u.direction > v.direction

(* The comparator each list is sorted with.                                *)
ListLess(name, u, v) ==
  CASE name = "path" -> u < v
    [] name = "search" -> SearchLess(u, v)
    [] name = "sort" -> SortLess(u, v)

(***************************************************************************)
(* Insertion sort (slices.insertionSortCmpFunc): entry i moves left past   *)
(* every entry it is less than, and stops at the first it is not.          *)
(***************************************************************************)
InsertSorted(name, t, x) ==
  LET p == CHOOSE j \in 0..Len(t) :
             /\ j = 0 \/ ~ListLess(name, x, t[j])
             /\ \A k \in (j + 1)..Len(t) : ListLess(name, x, t[k])
  IN SubSeq(t, 1, p) \o <<x>> \o SubSeq(t, p + 1, Len(t))

SortList(name, s) ==
  LET sorted[i \in 0..Len(s)] ==
        IF i = 0 THEN <<>> ELSE InsertSorted(name, sorted[i - 1], s[i])
  IN sorted[Len(s)]

(* Equal's result, and the number of lists it sorted before it returned.   *)
SimpleCmp(f, g) == f.simple = g.simple

ListDiffers(f, g, k) ==
  SortList(ListNames[k], f[ListNames[k]])
    # SortList(ListNames[k], g[ListNames[k]])

EqualResult(f, g) ==
  SimpleCmp(f, g) /\ \A k \in 1..Len(ListNames) : ~ListDiffers(f, g, k)

ListsSorted(f, g) ==
  IF ~SimpleCmp(f, g) THEN 0
  ELSE IF EqualResult(f, g) THEN Len(ListNames)
  ELSE CHOOSE k \in 1..Len(ListNames) :
         ListDiffers(f, g, k) /\ \A j \in 1..(k - 1) : ~ListDiffers(f, g, j)

(* f with its first n lists sorted in place.                               *)
SortUpTo(f, n) ==
  [l \in DOMAIN f |->
     IF \E k \in 1..n : ListNames[k] = l THEN SortList(l, f[l]) ELSE f[l]]

Init ==
  /\ request \in Requests
  /\ filters = request
  /\ answer = [p \in {} |-> FALSE]

(* Mutant: only the receiver's slices are sorted before the comparison.    *)
EqualSortsReceiverOnly(x, y) ==
  LET f == filters[x]
      g == filters[y]
      differs(k) == SortList(ListNames[k], f[ListNames[k]])
                      # g[ListNames[k]]
      result == SimpleCmp(f, g) /\ \A k \in 1..Len(ListNames) : ~differs(k)
  IN /\ filters' = [filters EXCEPT ![x] = SortUpTo(f, Len(ListNames))]
     /\ answer' = (<<x, y>> :> result) @@ answer
     /\ UNCHANGED request

(* x.Equal(y): the whole method, with its sorts in place and early return. *)
Equal(x, y) ==
  LET f == filters[x]
      g == filters[y]
      n == ListsSorted(f, g)
  IN /\ filters' = [filters EXCEPT ![x] = SortUpTo(f, n),
                                   ![y] = SortUpTo(g, n)]
     /\ answer' = (<<x, y>> :> EqualResult(f, g)) @@ answer
     /\ UNCHANGED request

Next == \E x, y \in Holders : Equal(x, y)

Spec == Init /\ [][Next]_vars

(***************************************************************************)
(* Properties.                                                             *)
(***************************************************************************)
TypeOK ==
  /\ request \in [Holders -> FilterRec]
  /\ filters \in [Holders -> FilterRec]
  /\ DOMAIN answer \subseteq Holders \X Holders
  /\ \A p \in DOMAIN answer : answer[p] \in BOOLEAN

(* f and g hold the same entries in every list Equal compares.            *)
SameListsUpToOrder(f, g) ==
  \A k \in 1..Len(ListNames) : ToBag(f[ListNames[k]]) = ToBag(g[ListNames[k]])

(* No two Search entries share an Input, no two Sort entries a Direction. *)
KeysUnique(f) ==
  /\ \A i, j \in DOMAIN f.search : i # j => f.search[i].input # f.search[j].input
  /\ \A i, j \in DOMAIN f.sort :
       i # j => f.sort[i].direction # f.sort[j].direction

(* Over filters whose Search and Sort comparators order every entry, each *)
(* answer Equal gave, in whichever direction and after whatever earlier   *)
(* in-place sorts, says exactly whether the filters as constructed agree  *)
(* on the scalars and on the lists up to order.                           *)
EqualDecidesUpToOrder ==
  \A p \in DOMAIN answer :
    KeysUnique(request[p[1]]) /\ KeysUnique(request[p[2]])
      => answer[p] = (SimpleCmp(request[p[1]], request[p[2]])
                      /\ SameListsUpToOrder(request[p[1]], request[p[2]]))

(* The spec (section 8): filters that differ only in the order of their    *)
(* list-valued fields are Equal.  The dimension lists and Search are sets  *)
(* of predicates, so their order is immaterial; Sort is not (its order is  *)
(* the ORDER BY priority), so it is required to be the same sequence.      *)
EqualIgnoresOrder ==
  \A p \in DOMAIN answer :
    LET f == request[p[1]]
        g == request[p[2]]
    IN SimpleCmp(f, g) /\ f.weekdayMode = g.weekdayMode
       /\ ToBag(f.path) = ToBag(g.path) /\ ToBag(f.search) = ToBag(g.search)
       /\ f.sort = g.sort
         => answer[p] = TRUE

(* The spec (section 4.2): Equal is deep structural equality ignoring Ctx, *)
(* so Equal filters agree on every option, the week's first day included.  *)
EqualIsStructural ==
  \A p \in DOMAIN answer :
    answer[p]
      => request[p[1]].weekdayMode = request[p[2]].weekdayMode

=============================================================================
