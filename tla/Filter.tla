------------------------------- MODULE Filter -------------------------------
(***************************************************************************)
(* The Filter of pkg/analyzer/filter.go and its lifecycle across calls of  *)
(* the Analyzer: a caller builds a Filter and passes it to an analysis     *)
(* method, which takes it through getFilter (analyzer.go: validate it,     *)
(* then copy it); Growth and TotalVisitorsPageViews (visitors.go) then     *)
(* shift the copy to the previous period with getPreviousPeriod.           *)
(*                                                                         *)
(* Time is a number of time units since the zero time (time.Time{}), which *)
(* is 0; a day is Day units, so ToDate drops the time of day.  Of the      *)
(* twenty-five list-valued dimensions, Path, PathPattern (which interact)  *)
(* and Country (which is also filtered) are kept: every other list goes    *)
(* through the same removeDuplicates call as Path.  A search input is a    *)
(* record whose "padded" flag says it has surrounding white space.         *)
(***************************************************************************)
EXTENDS Integers, Sequences

CONSTANTS
  Day,          \* time.Hour * 24, in time units
  Today,        \* util.Today(): midnight (UTC) of the current day
  Now,          \* time.Now().UTC()
  Values,       \* strings given in list-valued dimensions (Path, ...)
  Codes,        \* strings given as country codes
  Texts,        \* the text of search inputs
  Requests      \* the filters callers construct (nil becomes NewFilter)

Zero == 0
Week == 7 * Day
Tomorrow == Today + Day

ASSUME DayAssumption == Day \in Nat \ {0}
ASSUME TodayAssumption == Today \in Nat /\ Today % Day = 0 /\ Today > Week
ASSUME NowAssumption == Now \in Today..(Today + Day - 1)

(* The strings CustomMetricType may hold; validate keeps only the two of   *)
(* pkg.CustomMetricTypeInteger and pkg.CustomMetricTypeFloat.              *)
CustomMetricTypes == {"", "integer", "float", "bogus"}
WeekdayMonday == 1
WeekdaySunday == 2

SearchEntry == [text: Texts, padded: BOOLEAN]

FilterType ==
  [from: Int, to: Int, importedUntil: Int, importedFrom: Int, importedTo: Int,
   includeTime: BOOLEAN,
   path: Seq(Values), pathPattern: Seq(Values), country: Seq(Codes),
   search: Seq(SearchEntry), offset: Int, limit: Int,
   customMetricType: CustomMetricTypes, weekdayMode: Int]

ASSUME RequestsAssumption == Requests \subseteq FilterType

VARIABLES
  request,   \* the Filter as the caller constructed it (history)
  filter,    \* the caller's *Filter, the struct getFilter is given
  copy,      \* filterCopy, the analyzer's working copy of the filter
  current,   \* the copy the current-period query was built from (history)
  phase      \* "idle", "current" (copy made), "previous" (period shifted)

vars == <<request, filter, copy, current, phase>>

(***************************************************************************)
(* removeDuplicates: the loop over the input with the set of keys seen,    *)
(* written as a recursive function over the number of items consumed.     *)
(***************************************************************************)
(* Mutant: the loop appends every item, the set of keys seen unused.       *)
RemoveDuplicatesKeepAll(in) ==
  LET loop[i \in 0..Len(in)] ==
        IF i = 0 THEN <<>> ELSE Append(loop[i - 1], in[i])
  IN loop[Len(in)]

RemoveDuplicates(in) ==
  LET loop[i \in 0..Len(in)] ==
        IF i = 0 THEN [keys |-> {}, list |-> <<>>]
        ELSE IF in[i] \in loop[i - 1].keys THEN loop[i - 1]
        ELSE [keys |-> loop[i - 1].keys \cup {in[i]},
              list |-> Append(loop[i - 1].list, in[i])]
  IN loop[Len(in)].list

ToDate(t) == t - (t % Day)

(* A country code is kept when it has length 2, or 3 behind a "!".         *)
IsCountryCode(c) ==
  Len(c) = 2 \/ (Len(c) = 3 /\ SubSeq(c, 1, 1) = "!")

TrimSpace(e) == [e EXCEPT !.padded = FALSE]

(***************************************************************************)
(* The steps of validate, in the order the code takes them.                *)
(***************************************************************************)
NormalizeTime(t, includeTime) ==
  IF t = Zero \/ includeTime THEN t ELSE ToDate(t)

TruncateRange(f) ==
  [f EXCEPT !.from = NormalizeTime(@, f.includeTime),
            !.to = NormalizeTime(@, f.includeTime)]

OrderRange(f) ==
  IF f.to # Zero /\ f.from > f.to
  THEN [f EXCEPT !.from = f.to, !.to = f.from]
  ELSE f

SplitImported(f) ==
  IF f.importedUntil = Zero \/ ~(f.from < f.importedUntil) THEN f
  ELSE IF f.to < f.importedUntil
  THEN [f EXCEPT !.importedFrom = f.from, !.importedTo = f.to]
  ELSE [f EXCEPT !.importedFrom = f.from, !.from = f.importedUntil,
                 !.importedTo = f.importedUntil - Day]

ClampTo(f) ==
  IF f.to # Zero /\ f.to > Tomorrow THEN [f EXCEPT !.to = Tomorrow] ELSE f

(* Mutant: an unknown WeekdayMode is kept instead of reset to Monday.      *)
NormalizeOptionsKeepWeekday(f) ==
  [f EXCEPT
    !.pathPattern = IF f.path # <<>> THEN <<>> ELSE @,
    !.search = [i \in DOMAIN @ |-> TrimSpace(@[i])],
    !.offset = IF @ < 0 THEN 0 ELSE @,
    !.limit = IF @ < 0 THEN 0 ELSE @,
    !.customMetricType = IF @ \in {"", "integer", "float"} THEN @ ELSE ""]

NormalizeOptions(f) ==
  [f EXCEPT
    !.pathPattern = IF f.path # <<>> THEN <<>> ELSE @,
    !.search = [i \in DOMAIN @ |-> TrimSpace(@[i])],
    !.offset = IF @ < 0 THEN 0 ELSE @,
    !.limit = IF @ < 0 THEN 0 ELSE @,
    !.customMetricType = IF @ \in {"", "integer", "float"} THEN @ ELSE "",
    !.weekdayMode = IF @ \in {WeekdayMonday, WeekdaySunday} THEN @
                    ELSE WeekdayMonday]

DeduplicateLists(f) ==
  [f EXCEPT
    !.country = SelectSeq(RemoveDuplicates(@), IsCountryCode),
    !.path = RemoveDuplicates(@),
    !.pathPattern = RemoveDuplicates(@)]

(* Mutant: the split at ImportedUntil before the inverted range is swapped.*)
ValidateSplitFirst(f) ==
  DeduplicateLists(NormalizeOptions(ClampTo(OrderRange(SplitImported(
    TruncateRange(f))))))

Validate(f) ==
  DeduplicateLists(NormalizeOptions(ClampTo(SplitImported(OrderRange(
    TruncateRange(f))))))

(***************************************************************************)
(* getPreviousPeriod: the range before the current one, re-validated when  *)
(* imported statistics are in use.  The range starts at importedFrom when  *)
(* validate moved From up to ImportedUntil.                                *)
(***************************************************************************)
EffectiveFrom(f) ==
  IF f.importedFrom # Zero /\ f.importedFrom < f.from
  THEN f.importedFrom ELSE f.from

(* Mutant: a multi-day range is shifted back by its length only, so the    *)
(* previous range ends on the day the current one starts.                  *)
PreviousRangeNoGap(f) ==
  LET from == EffectiveFrom(f)
      days == f.to - from
  IN IF from = f.to
     THEN IF f.to = Today
          THEN [from |-> from - Week, to |-> Now - Week, includeTime |-> TRUE]
          ELSE [from |-> from - Week, to |-> f.to - Week,
                includeTime |-> f.includeTime]
     ELSE IF days >= Day
          THEN [from |-> from - days, to |-> from, includeTime |-> f.includeTime]
          ELSE [from |-> from - Day, to |-> f.to - Day,
                includeTime |-> f.includeTime]

(* Mutant: the start of a multi-day range is not moved back the extra day. *)
PreviousRangeShortStart(f) ==
  LET from == EffectiveFrom(f)
      days == f.to - from
  IN IF from = f.to
     THEN IF f.to = Today
          THEN [from |-> from - Week, to |-> Now - Week, includeTime |-> TRUE]
          ELSE [from |-> from - Week, to |-> f.to - Week,
                includeTime |-> f.includeTime]
     ELSE IF days >= Day
          THEN [from |-> from - days, to |-> from - Day, includeTime |-> f.includeTime]
          ELSE [from |-> from - Day, to |-> f.to - Day,
                includeTime |-> f.includeTime]

(* Mutant: a today period keeps the caller's IncludeTime.                  *)
PreviousRangeTodayDate(f) ==
  LET from == EffectiveFrom(f)
      days == f.to - from
  IN IF from = f.to
     THEN IF f.to = Today
          THEN [from |-> from - Week, to |-> Now - Week,
                includeTime |-> f.includeTime]
          ELSE [from |-> from - Week, to |-> f.to - Week,
                includeTime |-> f.includeTime]
     ELSE IF days >= Day
          THEN [from |-> from - Day - days, to |-> from - Day, includeTime |-> f.includeTime]
          ELSE [from |-> from - Day, to |-> f.to - Day,
                includeTime |-> f.includeTime]

PreviousRange(f) ==
  LET from == EffectiveFrom(f)
      days == f.to - from
  IN IF from = f.to
     THEN IF f.to = Today
          THEN [from |-> from - Week, to |-> Now - Week, includeTime |-> TRUE]
          ELSE [from |-> from - Week, to |-> f.to - Week,
                includeTime |-> f.includeTime]
     ELSE IF days >= Day
          THEN [from |-> from - Day - days, to |-> from - Day, includeTime |-> f.includeTime]
          ELSE [from |-> from - Day, to |-> f.to - Day,
                includeTime |-> f.includeTime]

GetPreviousPeriod(f) ==
  LET r == PreviousRange(f)
      g == [f EXCEPT !.from = r.from, !.to = r.to, !.includeTime = r.includeTime]
  IN IF f.importedUntil # Zero THEN Validate(g) ELSE g

(***************************************************************************)
(* The lifecycle.                                                          *)
(***************************************************************************)
Init ==
  /\ request \in Requests
  /\ filter = request
  /\ copy = request
  /\ current = request
  /\ phase = "idle"

(* getFilter: validate the caller's filter in place, then copy it.  A      *)
(* caller may pass the same filter to any number of calls.                 *)
GetFilter ==
  /\ filter' = Validate(filter)
  /\ copy' = Validate(filter)
  /\ current' = Validate(filter)
  /\ phase' = "current"
  /\ UNCHANGED request

(* Growth (and TotalVisitorsPageViews), after the current-period query:    *)
(* they return ErrNoPeriodOrDay unless From and To are set.                *)
PreviousPeriod ==
  /\ phase = "current"
  /\ copy.from # Zero
  /\ copy.to # Zero
  /\ copy' = GetPreviousPeriod(copy)
  /\ phase' = "previous"
  /\ UNCHANGED <<request, filter, current>>

Next == GetFilter \/ PreviousPeriod

Spec == Init /\ [][Next]_vars

(***************************************************************************)
(* Properties.                                                             *)
(***************************************************************************)
TimeTypeOK ==
  /\ phase \in {"idle", "current", "previous"}
  /\ \A f \in {filter, copy, current} :
       /\ f.from \in Int /\ f.to \in Int
       /\ f.importedUntil \in Int /\ f.importedFrom \in Int
       /\ f.importedTo \in Int /\ f.includeTime \in BOOLEAN

(* The options validate brings into range.                                 *)
ValidatedOptions(f) ==
  /\ f.customMetricType \in {"", "integer", "float"}
  /\ f.weekdayMode \in {WeekdayMonday, WeekdaySunday}
  /\ f.offset \in Nat /\ f.limit \in Nat

(* Once getFilter ran, the caller's filter, the copy and the shifted copy  *)
(* carry only options validate accepts: no negative Offset or Limit in     *)
(* the SQL, a known WeekdayMode and CustomMetricType, also after           *)
(* getPreviousPeriod re-validated the copy.                                *)
OptionsValidated ==
  phase # "idle" => \A f \in {filter, copy, current} : ValidatedOptions(f)

(* Every filter has its type, and its options once getFilter ran.          *)
TypeOK ==
  /\ TimeTypeOK
  /\ {request, filter, copy, current} \subseteq FilterType
  /\ OptionsValidated

Ordered(f) == f.from # Zero /\ f.to # Zero /\ f.from <= f.to

(* The spec (section 8): after validation From <= To whenever both are     *)
(* set.  validate swaps an inverted range before it clamps To to tomorrow, *)
(* so a range that starts after tomorrow comes out inverted.               *)
ValidatedRangeOrdered ==
  phase # "idle" /\ current.from # Zero /\ current.to # Zero
    => current.from <= current.to

(* The spec (section 8): a caller's single-day range on the cut-off day     *)
(* itself, From = To = ImportedUntil, is read from the imported            *)
(* statistics: importedFrom and importedTo are both that day.              *)
ImportedSingleDay ==
  phase # "idle" /\ request.from = request.to
  /\ request.to = request.importedUntil /\ request.importedUntil # Zero
    => current.importedFrom = current.from /\ current.importedTo = current.to

(* getPreviousPeriod, for a range validate left ordered, yields a range    *)
(* that ends before the current range begins: the growth rate never        *)
(* compares a period with one that overlaps it.                            *)
PreviousPeriodBefore ==
  phase = "previous" /\ Ordered(current)
    => copy.to < EffectiveFrom(current)

(* getPreviousPeriod keeps the length of the range (but for "today", which *)
(* is compared with the same part of the day a week ago), also across the *)
(* re-validation that re-splits it at ImportedUntil.                       *)
PreviousPeriodSameLength ==
  phase = "previous" /\ Ordered(current)
  /\ ~(EffectiveFrom(current) = current.to /\ current.to = Today)
    => copy.to - EffectiveFrom(copy) = current.to - EffectiveFrom(current)

(* A time a caller gives is unset, or late enough that no previous period *)
(* getPreviousPeriod derives from it begins at the zero time, which its    *)
(* IsZero test would take for "no imported range" (any date after the      *)
(* first half of the time line up to tomorrow).                            *)
RecentTime(t) == t = Zero \/ 2 * ToDate(t) > Tomorrow + Day

(* The filters callers construct: importedFrom is unexported, so outside   *)
(* the package it is zero, and ImportedUntil is a cut-off date (spec       *)
(* section 8).                                                             *)
CallerRequests ==
  \A r \in Requests :
    /\ r.importedFrom = Zero
    /\ r.importedUntil % Day = 0
    /\ RecentTime(r.from) /\ RecentTime(r.to) /\ RecentTime(r.importedUntil)

(* Spec section 5 lets a caller reuse one filter across calls: getFilter   *)
(* validates the caller's struct in place, so every later call validates  *)
(* it again.  A second validate keeps an ordered range where the first    *)
(* left it, also when the first moved From up to ImportedUntil or clamped *)
(* To to tomorrow: every call that reuses the filter queries one range.   *)
RevalidateKeepsRange ==
  [][phase # "idle" /\ Ordered(filter)
       => filter'.from = filter.from /\ filter'.to = filter.to]_vars

=============================================================================
