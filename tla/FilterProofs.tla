---------------------------- MODULE FilterProofs ----------------------------
(***************************************************************************)
(* Proofs about Filter, for every day length, today and time of day the    *)
(* assumptions allow: the time fields stay integers through validate and  *)
(* getPreviousPeriod; the previous period ends before the current one      *)
(* begins and, for filters as callers construct them, has its length; and *)
(* a filter reused for a later call keeps its ordered range.               *)
(***************************************************************************)
EXTENDS Filter, TLAPS

RecordFields ==
  {"from", "to", "importedUntil", "importedFrom", "importedTo", "includeTime",
   "path", "pathPattern", "country", "search", "offset", "limit",
   "customMetricType", "weekdayMode"}

(* The time fields of a filter record.                                     *)
TimeFields(f) ==
  /\ DOMAIN f = RecordFields
  /\ f.from \in Int /\ f.to \in Int
  /\ f.importedUntil \in Int /\ f.importedFrom \in Int /\ f.importedTo \in Int
  /\ f.includeTime \in BOOLEAN

IInv ==
  /\ phase \in {"idle", "current", "previous"}
  /\ \A f \in {filter, copy, current} : TimeFields(f)
  /\ phase = "current" => copy = current
  /\ phase = "previous" => copy = GetPreviousPeriod(current)

LEMMA DayFacts ==
  /\ Day \in Nat /\ Day > 0 /\ Week > Day
  /\ Today \in Int /\ Now \in Int /\ Now - Week < Today
  /\ \A t \in Int : ToDate(t) \in Int /\ ToDate(t) <= t
<1>1. Day \in Nat /\ Day > 0
  BY DayAssumption
<1>2. \A t \in Int : t % Day \in 0..(Day - 1)
  BY <1>1
<1>. QED
  BY <1>1, <1>2, TodayAssumption, NowAssumption DEF Week, ToDate

(* NormalizeTime yields an integer no larger than its argument.            *)
LEMMA NormalizeTimeBound ==
  ASSUME NEW t \in Int, NEW i \in BOOLEAN
  PROVE  NormalizeTime(t, i) \in Int /\ NormalizeTime(t, i) <= t
BY DayFacts DEF NormalizeTime

(* A time bound on both ends of a filter's range.                          *)
Bounded(f, b) == f.from <= b /\ f.to <= b

LEMMA TruncateStage ==
  ASSUME NEW f, TimeFields(f), NEW b \in Int, Bounded(f, b)
  PROVE  TimeFields(TruncateRange(f)) /\ Bounded(TruncateRange(f), b)
<1>1. /\ NormalizeTime(f.from, f.includeTime) \in Int
      /\ NormalizeTime(f.from, f.includeTime) <= f.from
      /\ NormalizeTime(f.to, f.includeTime) \in Int
      /\ NormalizeTime(f.to, f.includeTime) <= f.to
  BY NormalizeTimeBound DEF TimeFields
<1>. QED
  BY <1>1 DEF TruncateRange, TimeFields, Bounded, RecordFields

LEMMA OrderStage ==
  ASSUME NEW f, TimeFields(f), NEW b \in Int, Bounded(f, b)
  PROVE  TimeFields(OrderRange(f)) /\ Bounded(OrderRange(f), b)
BY DEF OrderRange, TimeFields, Bounded, RecordFields

LEMMA SplitStage ==
  ASSUME NEW f, TimeFields(f)
  PROVE  TimeFields(SplitImported(f)) /\ SplitImported(f).to = f.to
BY DayFacts DEF SplitImported, TimeFields, RecordFields

LEMMA ClampStage ==
  ASSUME NEW f, TimeFields(f)
  PROVE  TimeFields(ClampTo(f)) /\ ClampTo(f).to <= f.to
BY DayFacts DEF ClampTo, Tomorrow, TimeFields, RecordFields

LEMMA OptionsStage ==
  ASSUME NEW f, TimeFields(f)
  PROVE  LET g == DeduplicateLists(NormalizeOptions(f))
         IN  TimeFields(g) /\ g.to = f.to
BY DEF DeduplicateLists, NormalizeOptions, TimeFields, RecordFields

(* validate keeps the time fields integers and never moves To past a bound *)
(* both ends of the range were below.                                      *)
LEMMA ValidateBound ==
  ASSUME NEW f, TimeFields(f), NEW b \in Int, Bounded(f, b)
  PROVE  TimeFields(Validate(f)) /\ Validate(f).to <= b
<1> DEFINE T == TruncateRange(f)
           O == OrderRange(T)
           S == SplitImported(O)
           C == ClampTo(S)
<1>1. TimeFields(T) /\ Bounded(T, b)
  BY TruncateStage
<1>2. TimeFields(O) /\ Bounded(O, b)
  BY <1>1, OrderStage
<1>3. TimeFields(S) /\ S.to = O.to
  BY <1>2, SplitStage
<1>4. TimeFields(C) /\ C.to <= S.to
  BY <1>3, ClampStage
<1>5. TimeFields(DeduplicateLists(NormalizeOptions(C)))
      /\ DeduplicateLists(NormalizeOptions(C)).to = C.to
  BY <1>4, OptionsStage
<1>6. C.to \in Int /\ S.to \in Int /\ O.to \in Int
  BY <1>2, <1>3, <1>4 DEF TimeFields
<1>. QED
  BY <1>2, <1>3, <1>4, <1>5, <1>6 DEF Validate, Bounded

(* validate keeps the time fields integers.                                *)
LEMMA ValidateTime ==
  ASSUME NEW f, TimeFields(f)
  PROVE  TimeFields(Validate(f))
<1>1. f.from \in Int /\ f.to \in Int
  BY DEF TimeFields
<1>2. Bounded(f, IF f.from > f.to THEN f.from ELSE f.to)
  BY <1>1 DEF Bounded
<1>. QED
  BY <1>1, <1>2, ValidateBound

(* Every case of getPreviousPeriod's shift starts and ends before the      *)
(* current range begins.                                                   *)
LEMMA PreviousRangeBefore ==
  ASSUME NEW f, TimeFields(f)
  PROVE  LET r == PreviousRange(f)
         IN  /\ r.from \in Int /\ r.to \in Int /\ r.includeTime \in BOOLEAN
             /\ r.from < EffectiveFrom(f) /\ r.to < EffectiveFrom(f)
<1> DEFINE from == EffectiveFrom(f)
           days == f.to - from
<1>1. from \in Int /\ f.to \in Int /\ f.includeTime \in BOOLEAN
  BY DEF EffectiveFrom, TimeFields
<1>2. CASE from = f.to /\ f.to = Today
  BY <1>1, <1>2, DayFacts, DayAssumption DEF PreviousRange, Week
<1>3. CASE from = f.to /\ f.to # Today
  BY <1>1, <1>3, DayFacts, DayAssumption DEF PreviousRange, Week
<1>4. CASE from # f.to /\ days >= Day
  BY <1>1, <1>4, DayFacts DEF PreviousRange
<1>5. CASE from # f.to /\ ~(days >= Day)
  BY <1>1, <1>5, DayFacts DEF PreviousRange
<1>. QED
  BY <1>2, <1>3, <1>4, <1>5

(* The previous period, re-validated or not, has integer time fields and   *)
(* ends before the current range begins.                                   *)
LEMMA GetPreviousPeriodBefore ==
  ASSUME NEW f, TimeFields(f)
  PROVE  /\ TimeFields(GetPreviousPeriod(f))
         /\ GetPreviousPeriod(f).to < EffectiveFrom(f)
<1> DEFINE r == PreviousRange(f)
           g == [f EXCEPT !.from = r.from, !.to = r.to,
                          !.includeTime = r.includeTime]
           b == EffectiveFrom(f) - 1
<1>1. r.from \in Int /\ r.to \in Int /\ r.includeTime \in BOOLEAN
      /\ r.from < EffectiveFrom(f) /\ r.to < EffectiveFrom(f)
  BY PreviousRangeBefore
<1>2. EffectiveFrom(f) \in Int
  BY DEF EffectiveFrom, TimeFields
<1>3. TimeFields(g) /\ Bounded(g, b) /\ b \in Int
  BY <1>1, <1>2 DEF TimeFields, Bounded, RecordFields
<1>4. TimeFields(Validate(g)) /\ Validate(g).to <= b
  BY <1>3, ValidateBound
<1>5. g.to < EffectiveFrom(f)
  BY <1>1, <1>3 DEF TimeFields
<1>6. CASE f.importedUntil # Zero
  <2>1. GetPreviousPeriod(f) = Validate(g)
    BY <1>6 DEF GetPreviousPeriod
  <2>. QED
    BY <1>2, <1>4, <2>1 DEF TimeFields
<1>7. CASE f.importedUntil = Zero
  <2>1. GetPreviousPeriod(f) = g
    BY <1>7 DEF GetPreviousPeriod
  <2>. QED
    BY <1>3, <1>5, <2>1
<1>. QED
  BY <1>6, <1>7

(***************************************************************************)
(* What validate leaves behind: both ends dates (unless IncludeTime, or    *)
(* From moved up to the cut-off), To at most tomorrow, and no range that    *)
(* straddles ImportedUntil.                                                *)
(***************************************************************************)
IsDate(t, f) == t = Zero \/ f.includeTime \/ t % Day = 0

Settled(f) ==
  /\ IsDate(f.to, f)
  /\ f.to = Zero \/ f.to <= Tomorrow
  /\ IsDate(f.from, f) \/ f.from = f.importedUntil
  /\ f.importedUntil = Zero \/ f.from >= f.importedUntil
     \/ f.to < f.importedUntil

RInv == phase # "idle" => Settled(filter)

LEMMA ToDateFacts ==
  ASSUME NEW t \in Int
  PROVE  /\ ToDate(t) % Day = 0
         /\ t % Day = 0 => ToDate(t) = t
         /\ t % Day # 0 => ToDate(t) < t
<1>1. Day \in Int /\ Day > 0
  BY DayAssumption
<1>2. \E q \in Int : ToDate(t) = q * Day
  BY <1>1 DEF ToDate
<1>3. \A q \in Int : (q * Day) % Day = 0
  BY <1>1
<1>4. t % Day \in 0..(Day - 1)
  BY <1>1
<1>. QED
  BY <1>1, <1>2, <1>3, <1>4 DEF ToDate

LEMMA NormalizeTimeDate ==
  ASSUME NEW f, TimeFields(f), NEW t \in Int
  PROVE  /\ IsDate(NormalizeTime(t, f.includeTime), f)
         /\ IsDate(t, f) => NormalizeTime(t, f.includeTime) = t
BY ToDateFacts DEF NormalizeTime, IsDate, TimeFields

(* Every filter validate returns is settled.                               *)
LEMMA ValidateSettled ==
  ASSUME NEW f, TimeFields(f)
  PROVE  Settled(Validate(f))
<1> DEFINE T == TruncateRange(f)
           O == OrderRange(T)
           S == SplitImported(O)
           C == ClampTo(S)
           D == DeduplicateLists(NormalizeOptions(C))
<1>1. TimeFields(T) /\ TimeFields(O) /\ TimeFields(S) /\ TimeFields(C)
  BY TruncateStage, OrderStage, SplitStage, ClampStage, DayFacts DEF Bounded, TimeFields
<1>2. IsDate(T.from, f) /\ IsDate(T.to, f) /\ T.includeTime = f.includeTime
      /\ T.importedUntil = f.importedUntil
  BY NormalizeTimeDate DEF TruncateRange, TimeFields, RecordFields
<1>3. IsDate(O.from, f) /\ IsDate(O.to, f) /\ O.includeTime = f.includeTime
      /\ O.importedUntil = f.importedUntil
  BY <1>1, <1>2 DEF OrderRange, TimeFields, RecordFields
<1>4. /\ IsDate(S.to, f) /\ S.to = O.to
      /\ IsDate(S.from, f) \/ S.from = f.importedUntil
      /\ f.importedUntil = Zero \/ S.from >= f.importedUntil
         \/ S.to < f.importedUntil
      /\ S.includeTime = f.includeTime /\ S.importedUntil = f.importedUntil
  BY <1>1, <1>3 DEF SplitImported, TimeFields, RecordFields
<1>5. Tomorrow % Day = 0 /\ Tomorrow \in Int
  BY DayAssumption, TodayAssumption DEF Tomorrow
<1>6. Settled(C)
  BY <1>1, <1>4, <1>5 DEF ClampTo, Settled, IsDate, TimeFields, RecordFields
<1>7. D.from = C.from /\ D.to = C.to /\ D.includeTime = C.includeTime
      /\ D.importedUntil = C.importedUntil
  BY <1>1 DEF DeduplicateLists, NormalizeOptions, TimeFields, RecordFields
<1>. QED
  BY <1>6, <1>7 DEF Validate, Settled, IsDate

(* A second validate of a settled, ordered filter keeps its range.  A     *)
(* From that validate moved up to a cut-off inside a day goes back to the  *)
(* date, and the split moves it up to the cut-off again.                   *)
LEMMA RevalidateFixesRange ==
  ASSUME NEW f, TimeFields(f), Settled(f), Ordered(f)
  PROVE  Validate(f).from = f.from /\ Validate(f).to = f.to
<1> DEFINE T == TruncateRange(f)
           O == OrderRange(T)
           S == SplitImported(O)
           C == ClampTo(S)
<1>1. TimeFields(T) /\ TimeFields(O) /\ TimeFields(S)
  BY TruncateStage, OrderStage, SplitStage, DayFacts DEF Bounded, TimeFields
<1>2. T.to = f.to /\ T.from <= f.from /\ T.importedUntil = f.importedUntil
  BY NormalizeTimeBound, NormalizeTimeDate
  DEF TruncateRange, Settled, TimeFields, RecordFields
<1>3. O = T
  BY <1>1, <1>2 DEF OrderRange, Ordered, TimeFields
<1>4. S.from = f.from /\ S.to = f.to
  <2>1. CASE IsDate(f.from, f)
    <3>1. T.from = f.from
      BY <2>1, NormalizeTimeDate DEF TruncateRange, TimeFields, RecordFields
    <3>. QED
      BY <1>1, <1>2, <1>3, <3>1
      DEF SplitImported, Settled, Ordered, TimeFields, RecordFields
  <2>2. CASE ~IsDate(f.from, f)
    <3>1. f.from = f.importedUntil /\ f.importedUntil # Zero
      BY <2>2 DEF Settled, Ordered
    <3>2. T.from = ToDate(f.from) /\ ToDate(f.from) < f.from
      BY <2>2, ToDateFacts DEF TruncateRange, NormalizeTime, IsDate, Ordered,
                                TimeFields, RecordFields
    <3>. QED
      BY <1>1, <1>2, <1>3, <3>1, <3>2
      DEF SplitImported, Ordered, TimeFields, RecordFields
  <2>. QED
    BY <2>1, <2>2
<1>5. C = S
  <2>1. Tomorrow \in Int /\ S.to <= Tomorrow
    BY <1>4, DayFacts DEF Tomorrow, Settled, Ordered
  <2>. QED
    BY <1>1, <2>1 DEF ClampTo, TimeFields
<1>. QED
  BY <1>4, <1>5 DEF Validate, DeduplicateLists, NormalizeOptions

(***************************************************************************)
(* What validate keeps about the imported range: importedFrom is set only  *)
(* together with a split at a cut-off date, to a start before it, and     *)
(* afterwards From is the cut-off or the whole range lies before it.      *)
(***************************************************************************)
ImportedSet(f) ==
  /\ f.importedUntil % Day = 0
  /\ f.importedFrom # Zero =>
       /\ f.importedUntil # Zero /\ f.importedFrom < f.importedUntil
       /\ IsDate(f.importedFrom, f)
       /\ \/ f.from = f.importedUntil
          \/ f.to < f.importedUntil /\ f.importedFrom = f.from

(* Every time of the filter is a recent one.                               *)
Recent(f) ==
  /\ RecentTime(f.from) /\ RecentTime(f.to)
  /\ RecentTime(f.importedFrom) /\ RecentTime(f.importedUntil)

LInv ==
  /\ ImportedSet(filter) /\ Recent(filter)
  /\ phase # "idle" => current = filter

(* An integer less its remainder is a multiple of the divisor.           *)
LEMMA ModMultiple ==
  ASSUME NEW a \in Int, NEW d \in Int, d > 0
  PROVE  \E q \in Int : a - (a % d) = q * d
BY SMTT(30)

(* Differences of dates are dates.                                         *)
LEMMA DateDiff ==
  ASSUME NEW a \in Int, NEW b \in Int, a % Day = 0, b % Day = 0
  PROVE  (a - b) % Day = 0
<1>1. Day \in Int /\ Day > 0
  BY DayAssumption
<1>2. PICK qa \in Int : a - (a % Day) = qa * Day
  BY <1>1, ModMultiple
<1>3. PICK qb \in Int : b - (b % Day) = qb * Day
  BY <1>1, ModMultiple
<1>4. \A q \in Int : (q * Day) % Day = 0
  BY <1>1
<1>5. a - b = (qa - qb) * Day
  BY <1>1, <1>2, <1>3
<1>. QED
  BY <1>4, <1>5

(* validate keeps the imported range tied to the split.                    *)
LEMMA ValidateImported ==
  ASSUME NEW f, TimeFields(f), ImportedSet(f)
  PROVE  ImportedSet(Validate(f))
<1> DEFINE T == TruncateRange(f)
           O == OrderRange(T)
           S == SplitImported(O)
           C == ClampTo(S)
           D == DeduplicateLists(NormalizeOptions(C))
           U == f.importedUntil
<1>1. TimeFields(T) /\ TimeFields(O) /\ TimeFields(S) /\ TimeFields(C)
  BY TruncateStage, OrderStage, SplitStage, ClampStage, DayFacts DEF Bounded, TimeFields
<1>2. /\ T.from <= f.from /\ T.to <= f.to
      /\ IsDate(T.from, f) /\ IsDate(T.to, f)
      /\ T.includeTime = f.includeTime /\ T.importedUntil = U
      /\ T.importedFrom = f.importedFrom
  BY NormalizeTimeBound, NormalizeTimeDate DEF TruncateRange, TimeFields, RecordFields
<1>3. /\ O.from \in {T.from, T.to} /\ O.to \in {T.from, T.to}
      /\ O.from <= T.from
      /\ IsDate(O.from, f) /\ IsDate(O.to, f)
      /\ O.includeTime = f.includeTime /\ O.importedUntil = U
      /\ O.importedFrom = f.importedFrom
  BY <1>1, <1>2 DEF OrderRange, TimeFields, RecordFields
<1>4. ImportedSet(S)
  <2>1. CASE U = Zero \/ ~(O.from < U)
    <3>1. S = O
      BY <1>3, <2>1 DEF SplitImported
    <3>2. f.importedFrom # Zero => O.from = U
      <4> SUFFICES ASSUME f.importedFrom # Zero PROVE O.from = U
        OBVIOUS
      <4>1. U # Zero /\ ~(O.from < U) /\ f.importedFrom < U
        BY <2>1 DEF ImportedSet
      <4>2. f.from = U
        BY <1>1, <1>2, <1>3, <4>1 DEF ImportedSet, TimeFields
      <4>. QED
        BY <1>1, <1>2, <1>3, <4>1, <4>2 DEF TimeFields
    <3>. QED
      BY <1>3, <3>1, <3>2 DEF ImportedSet, IsDate
  <2>2. CASE U # Zero /\ O.from < U
    BY <1>1, <1>3, <2>2 DEF SplitImported, ImportedSet, IsDate, TimeFields, RecordFields
  <2>. QED
    BY <2>1, <2>2
<1>5. C.from = S.from /\ C.to <= S.to /\ C.importedFrom = S.importedFrom
      /\ C.importedUntil = S.importedUntil /\ C.includeTime = S.includeTime
  BY <1>1, DayFacts DEF ClampTo, Tomorrow, TimeFields, RecordFields
<1>6. ImportedSet(C)
  BY <1>1, <1>4, <1>5 DEF ImportedSet, IsDate, TimeFields
<1>7. D.from = C.from /\ D.to = C.to /\ D.includeTime = C.includeTime
      /\ D.importedUntil = C.importedUntil /\ D.importedFrom = C.importedFrom
  BY <1>1 DEF DeduplicateLists, NormalizeOptions, TimeFields, RecordFields
<1>. QED
  BY <1>6, <1>7 DEF Validate, ImportedSet, IsDate

(* NormalizeTime keeps a time recent.                                      *)
LEMMA RecentNormalize ==
  ASSUME NEW t \in Int, NEW i \in BOOLEAN, RecentTime(t)
  PROVE  RecentTime(NormalizeTime(t, i))
<1>1. CASE t = Zero \/ i
  BY <1>1 DEF NormalizeTime
<1>2. CASE t # Zero /\ ~i
  <2>1. ToDate(t) \in Int /\ ToDate(t) % Day = 0
    BY DayFacts, ToDateFacts
  <2>2. ToDate(ToDate(t)) = ToDate(t)
    BY <2>1, ToDateFacts
  <2>. QED
    BY <1>2, <2>2 DEF NormalizeTime, RecentTime
<1>. QED
  BY <1>1, <1>2

(* Tomorrow is a date, and a recent one.                                  *)
LEMMA RecentTomorrow ==
  Tomorrow \in Int /\ Tomorrow % Day = 0 /\ Tomorrow > Day /\ RecentTime(Tomorrow)
<1>1. Day \in Int /\ Day > 0
  BY DayAssumption
<1>7. Today \in Int /\ Today > 0
  BY DayAssumption, TodayAssumption DEF Week
<1>2. PICK q \in Int : Today - (Today % Day) = q * Day
  BY <1>1, <1>7, ModMultiple
<1>3. Tomorrow = (q + 1) * Day
  BY <1>1, <1>2, TodayAssumption DEF Tomorrow
<1>4. \A k \in Int : (k * Day) % Day = 0
  BY <1>1
<1>5. Tomorrow \in Int /\ Tomorrow % Day = 0 /\ Tomorrow > Day
  <2>1. Tomorrow % Day = 0
    BY <1>3, <1>4
  <2>. QED
    BY <1>1, <1>7, <2>1 DEF Tomorrow
<1>6. ToDate(Tomorrow) = Tomorrow
  BY <1>5, ToDateFacts
<1>. QED
  BY <1>1, <1>5, <1>6 DEF RecentTime

(* validate keeps every time recent.                                       *)
LEMMA ValidateRecent ==
  ASSUME NEW f, TimeFields(f), Recent(f)
  PROVE  Recent(Validate(f))
<1> DEFINE T == TruncateRange(f)
           O == OrderRange(T)
           S == SplitImported(O)
           C == ClampTo(S)
           D == DeduplicateLists(NormalizeOptions(C))
           Times == {T.from, T.to, f.importedUntil, Tomorrow, f.importedFrom}
<1>1. TimeFields(T) /\ TimeFields(O) /\ TimeFields(S) /\ TimeFields(C)
  BY TruncateStage, OrderStage, SplitStage, ClampStage, DayFacts DEF Bounded, TimeFields
<1>2. \A x \in Times : RecentTime(x)
  <2>1. RecentTime(T.from) /\ RecentTime(T.to)
    BY RecentNormalize DEF TruncateRange, Recent, TimeFields, RecordFields
  <2>. QED
    BY <2>1, RecentTomorrow DEF Recent
<1>3. /\ O.from \in Times /\ O.to \in Times /\ O.importedFrom = f.importedFrom
      /\ O.importedUntil = f.importedUntil
  BY <1>1 DEF OrderRange, TruncateRange, TimeFields, RecordFields
<1>4. /\ S.from \in Times /\ S.to \in Times /\ S.importedFrom \in Times
      /\ S.importedUntil = f.importedUntil
  BY <1>1, <1>3 DEF SplitImported, TimeFields, RecordFields
<1>5. /\ C.from \in Times /\ C.to \in Times /\ C.importedFrom \in Times
      /\ C.importedUntil = f.importedUntil
  BY <1>1, <1>4 DEF ClampTo, TimeFields, RecordFields
<1>6. D.from = C.from /\ D.to = C.to /\ D.importedFrom = C.importedFrom
      /\ D.importedUntil = C.importedUntil
  BY <1>1 DEF DeduplicateLists, NormalizeOptions, TimeFields, RecordFields
<1>. QED
  BY <1>2, <1>5, <1>6 DEF Validate, Recent

(* A day and a week are whole numbers of days.                            *)
LEMMA DayWeekDates ==
  Day % Day = 0 /\ Week % Day = 0 /\ Week \in Int
<1>1. Day \in Int /\ Day > 0
  BY DayAssumption
<1>2. \A k \in Int : (k * Day) % Day = 0
  BY <1>1
<1>3. Day = 1 * Day /\ Week = 7 * Day
  BY <1>1 DEF Week
<1>. QED
  BY <1>1, <1>2, <1>3

(* getPreviousPeriod's shift of a range of dates is a range of dates of    *)
(* the same length, and it only starts at the zero time when it is empty. *)
LEMMA PreviousRangeLength ==
  ASSUME NEW c, TimeFields(c), Ordered(c),
         IsDate(EffectiveFrom(c), c), IsDate(c.to, c),
         2 * EffectiveFrom(c) > Tomorrow + Day, c.to <= Tomorrow,
         EffectiveFrom(c) <= c.to,
         ~(EffectiveFrom(c) = c.to /\ c.to = Today)
  PROVE  LET r == PreviousRange(c)
         IN  /\ r.to - r.from = c.to - EffectiveFrom(c)
             /\ r.includeTime = c.includeTime
             /\ IsDate(r.from, c) /\ IsDate(r.to, c)
             /\ r.from = r.to \/ r.from > 0
<1> DEFINE e == EffectiveFrom(c)
           days == c.to - e
           r == PreviousRange(c)
<1>1. e \in Int /\ c.to \in Int /\ Day \in Int /\ Day > 0 /\ Week \in Int
      /\ Tomorrow \in Int /\ Tomorrow > Day
  <2>1. e \in Int /\ c.to \in Int
    BY DEF EffectiveFrom, TimeFields
  <2>. QED
    BY <2>1, DayFacts, DayWeekDates, RecentTomorrow
<1>2. e # Zero /\ c.to # Zero
  BY <1>1 DEF Ordered, Zero
<1>3. ~c.includeTime => e % Day = 0 /\ c.to % Day = 0
  BY <1>2 DEF IsDate
<1>4. CASE e = c.to
  <2>1. r = [from |-> e - Week, to |-> c.to - Week, includeTime |-> c.includeTime]
    BY <1>4 DEF PreviousRange
  <2>2. ~c.includeTime => (e - Week) % Day = 0 /\ (c.to - Week) % Day = 0
    BY <1>1, <1>3, DayWeekDates, DateDiff
  <2>. QED
    BY <1>1, <1>4, <2>1, <2>2 DEF IsDate
<1>5. CASE e # c.to /\ days >= Day
  <2>1. r = [from |-> e - Day - days, to |-> e - Day, includeTime |-> c.includeTime]
    BY <1>5 DEF PreviousRange
  <2>2. ~c.includeTime => (e - Day - days) % Day = 0
    <3> HAVE ~c.includeTime
    <3>1. (e - Day) % Day = 0
      BY <1>1, <1>3, DayWeekDates, DateDiff
    <3>2. days % Day = 0
      BY <1>1, <1>3, DateDiff
    <3>3. \A a, b \in Int : a % Day = 0 /\ b % Day = 0 => (a - b) % Day = 0
      BY DateDiff
    <3>4. e - Day \in Int /\ days \in Int
      BY <1>1
    <3>. QED
      BY <3>1, <3>2, <3>3, <3>4
  <2>3. e - Day - days > 0
    BY <1>1
  <2>4. r.to - r.from = days /\ r.includeTime = c.includeTime
    BY <1>1, <2>1
  <2>5. ~c.includeTime => (e - Day) % Day = 0
    BY <1>1, <1>3, DayWeekDates, DateDiff
  <2>6. IsDate(r.from, c) /\ IsDate(r.to, c)
    BY <2>1, <2>2, <2>5 DEF IsDate
  <2>. QED
    BY <2>1, <2>3, <2>4, <2>6
<1>6. CASE e # c.to /\ ~(days >= Day)
  <2>1. r = [from |-> e - Day, to |-> c.to - Day, includeTime |-> c.includeTime]
    BY <1>6 DEF PreviousRange
  <2>2. ~c.includeTime => (e - Day) % Day = 0 /\ (c.to - Day) % Day = 0
    BY <1>1, <1>3, DayWeekDates, DateDiff
  <2>3. e - Day > 0
    BY <1>1
  <2>. QED
    BY <1>1, <2>1, <2>2, <2>3 DEF IsDate
<1>. QED
  BY <1>4, <1>5, <1>6

(* For a settled, ordered range of recent dates whose imported range is   *)
(* tied to its split, getPreviousPeriod keeps the length (but for today),  *)
(* also through the re-validation at the cut-off.                          *)
LEMMA GetPreviousPeriodSameLength ==
  ASSUME NEW c, TimeFields(c), Settled(c), ImportedSet(c), Recent(c), Ordered(c),
         ~(EffectiveFrom(c) = c.to /\ c.to = Today)
  PROVE  GetPreviousPeriod(c).to - EffectiveFrom(GetPreviousPeriod(c))
           = c.to - EffectiveFrom(c)
<1> DEFINE e == EffectiveFrom(c)
           U == c.importedUntil
           x == c.importedFrom
           r == PreviousRange(c)
           g == [c EXCEPT !.from = r.from, !.to = r.to, !.includeTime = r.includeTime]
<1>1. /\ e \in Int /\ U \in Int /\ x \in Int /\ c.from \in Int /\ c.to \in Int
      /\ e <= c.from /\ c.from <= c.to /\ e # Zero
  BY DEF EffectiveFrom, TimeFields, Ordered
<1>2. IsDate(e, c)
  BY DEF EffectiveFrom, Settled, ImportedSet, IsDate
<1>3. 2 * e > Tomorrow + Day
  <2>1. RecentTime(e)
    BY DEF EffectiveFrom, Recent
  <2>2. ToDate(e) <= e /\ ToDate(e) \in Int /\ Tomorrow \in Int /\ Day \in Int
    BY <1>1, DayFacts, RecentTomorrow
  <2>. QED
    BY <1>1, <2>1, <2>2 DEF RecentTime
<1>4. IsDate(c.to, c) /\ c.to <= Tomorrow
  BY DEF Settled, Ordered
<1>5. /\ r.to - r.from = c.to - e /\ r.includeTime = c.includeTime
      /\ IsDate(r.from, c) /\ IsDate(r.to, c) /\ (r.from = r.to \/ r.from > 0)
      /\ r.from \in Int /\ r.to \in Int /\ r.to < e /\ r.from < e
  BY <1>1, <1>2, <1>3, <1>4, PreviousRangeLength, PreviousRangeBefore
<1>6. x # Zero => e < U
  BY <1>1 DEF ImportedSet, EffectiveFrom
<1>7. /\ TimeFields(g) /\ g.from = r.from /\ g.to = r.to
      /\ g.includeTime = c.includeTime /\ g.importedFrom = x /\ g.importedUntil = U
  BY <1>5 DEF TimeFields, RecordFields
<1>8. CASE U = Zero
  <2>1. GetPreviousPeriod(c) = g
    BY <1>8 DEF GetPreviousPeriod
  <2>2. x = Zero
    BY <1>8 DEF ImportedSet
  <2>3. EffectiveFrom(g) = r.from
    BY <1>7, <2>2 DEF EffectiveFrom
  <2>. QED
    BY <1>5, <1>7, <2>1, <2>3
<1>9. CASE U # Zero
  <2> DEFINE T == TruncateRange(g)
             O == OrderRange(T)
             S == SplitImported(O)
             C == ClampTo(S)
             D == DeduplicateLists(NormalizeOptions(C))
  <2>1. GetPreviousPeriod(c) = D
    BY <1>9 DEF GetPreviousPeriod, Validate
  <2>2. T = g
    <3>1. IsDate(g.from, g) /\ IsDate(g.to, g)
      BY <1>5, <1>7 DEF IsDate
    <3>2. NormalizeTime(g.from, g.includeTime) = g.from
          /\ NormalizeTime(g.to, g.includeTime) = g.to
      BY <1>5, <1>7, <3>1, NormalizeTimeDate
    <3>. QED
      BY <1>7, <3>2 DEF TruncateRange, TimeFields, RecordFields
  <2>3. O = g
    <3>1. ~(g.from > g.to)
      BY <1>1, <1>5, <1>7
    <3>. QED
      BY <2>2, <3>1 DEF OrderRange
  <2>4. S.to = r.to /\ EffectiveFrom(S) = r.from /\ TimeFields(S)
    <3>1. CASE ~(r.from < U)
      <4>1. S = g
        BY <1>7, <2>3, <3>1 DEF SplitImported
      <4>2. x = Zero
        BY <1>1, <1>5, <1>6, <3>1
      <4>. QED
        BY <1>7, <4>1, <4>2 DEF EffectiveFrom
    <3>2. CASE r.from < U /\ r.to < U
      <4>1. S = [g EXCEPT !.importedFrom = r.from, !.importedTo = r.to]
        BY <1>7, <1>9, <2>3, <3>2 DEF SplitImported
      <4>. QED
        BY <1>5, <1>7, <4>1 DEF EffectiveFrom, TimeFields, RecordFields
    <3>3. CASE r.from < U /\ ~(r.to < U)
      <4>1. S = [g EXCEPT !.importedFrom = r.from, !.from = U,
                          !.importedTo = U - Day]
        BY <1>7, <1>9, <2>3, <3>3 DEF SplitImported
      <4>2. r.from # Zero
        BY <1>5, <3>3 DEF Zero
      <4>3. S.importedFrom = r.from /\ S.from = U /\ S.to = r.to
        BY <1>7, <4>1 DEF TimeFields, RecordFields
      <4>4. EffectiveFrom(S) = r.from
        BY <3>3, <4>2, <4>3 DEF EffectiveFrom
      <4>. QED
        BY <2>3, <1>7, <4>3, <4>4, SplitStage
    <3>. QED
      BY <3>1, <3>2, <3>3
  <2>5. C = S
    <3>1. Tomorrow \in Int /\ S.to <= Tomorrow
      BY <1>1, <1>4, <1>5, <2>4, RecentTomorrow
    <3>. QED
      BY <2>4, <3>1 DEF ClampTo, TimeFields
  <2>6. D.to = S.to /\ EffectiveFrom(D) = EffectiveFrom(S)
    BY <2>4, <2>5 DEF DeduplicateLists, NormalizeOptions, EffectiveFrom,
                     TimeFields, RecordFields
  <2>. QED
    BY <1>5, <2>1, <2>4, <2>6
<1>. QED
  BY <1>8, <1>9

LEMMA InitIInv == Init => IInv
<1> SUFFICES ASSUME Init PROVE IInv
  OBVIOUS
<1>1. TimeFields(request)
  BY RequestsAssumption DEF Init, FilterType, TimeFields, RecordFields
<1>. QED
  BY <1>1 DEF Init, IInv

LEMMA NextIInv == IInv /\ [Next]_vars => IInv'
<1> SUFFICES ASSUME IInv, [Next]_vars PROVE IInv'
  OBVIOUS
<1>1. CASE GetFilter
  <2>1. TimeFields(Validate(filter))
    BY ValidateTime DEF IInv
  <2>. QED
    BY <1>1, <2>1 DEF GetFilter, IInv
<1>2. CASE PreviousPeriod
  <2>1. copy = current /\ TimeFields(current)
    BY <1>2 DEF PreviousPeriod, IInv
  <2>2. TimeFields(GetPreviousPeriod(current))
    BY <2>1, GetPreviousPeriodBefore
  <2>. QED
    BY <1>2, <2>1, <2>2 DEF PreviousPeriod, IInv
<1>3. CASE UNCHANGED vars
  BY <1>3 DEF vars, IInv
<1>. QED
  BY <1>1, <1>2, <1>3 DEF Next

(* The time fields of the caller's filter, the copy and the shifted copy   *)
(* stay integers through any sequence of getFilter and getPreviousPeriod   *)
(* calls (filter.go validate, visitors.go getPreviousPeriod).              *)
THEOREM TimeTypeCorrect == Spec => []TimeTypeOK
<1>1. IInv => TimeTypeOK
  BY DEF IInv, TimeTypeOK, TimeFields
<1>. QED
  BY InitIInv, NextIInv, <1>1, PTL DEF Spec

(* For every day length, today, time of day and cut-off, the range Growth *)
(* compares with (getPreviousPeriod, visitors.go:530-565, re-validated at  *)
(* the cut-off) ends before the current range begins.                      *)
THEOREM PreviousPeriodBeforeTheorem == Spec => []PreviousPeriodBefore
<1>1. IInv => PreviousPeriodBefore
  BY GetPreviousPeriodBefore DEF IInv, PreviousPeriodBefore
<1>. QED
  BY InitIInv, NextIInv, <1>1, PTL DEF Spec

(***************************************************************************)
(* The options of TypeOK.                                                  *)
(***************************************************************************)
(* Offset and Limit are integers, as a Filter's int fields are.            *)
IntOptions(f) == f.offset \in Int /\ f.limit \in Int

OInv ==
  /\ \A f \in {filter, copy, current} : IntOptions(f)
  /\ OptionsValidated

(* The time statements of validate leave the options.                     *)
LEMMA TimeStagesKeepOptions ==
  ASSUME NEW f, TimeFields(f)
  PROVE  LET c == ClampTo(SplitImported(OrderRange(TruncateRange(f))))
         IN  /\ DOMAIN c = RecordFields
             /\ c.offset = f.offset /\ c.limit = f.limit
<1>1. /\ DOMAIN TruncateRange(f) = RecordFields
      /\ TruncateRange(f).offset = f.offset /\ TruncateRange(f).limit = f.limit
  BY DEF TruncateRange, TimeFields, RecordFields
<1> DEFINE T == TruncateRange(f)
<1>2. /\ DOMAIN OrderRange(T) = RecordFields
      /\ OrderRange(T).offset = f.offset /\ OrderRange(T).limit = f.limit
  BY <1>1 DEF OrderRange, RecordFields
<1> DEFINE O == OrderRange(T)
<1>3. /\ DOMAIN SplitImported(O) = RecordFields
      /\ SplitImported(O).offset = f.offset /\ SplitImported(O).limit = f.limit
  BY <1>2 DEF SplitImported, RecordFields
<1>. QED
  BY <1>3 DEF ClampTo, RecordFields

(* validate brings every option into range.                                *)
LEMMA ValidateOptions ==
  ASSUME NEW f, TimeFields(f), IntOptions(f)
  PROVE  IntOptions(Validate(f)) /\ ValidatedOptions(Validate(f))
<1> DEFINE c == ClampTo(SplitImported(OrderRange(TruncateRange(f))))
           o == NormalizeOptions(c)
<1>1. DOMAIN c = RecordFields /\ c.offset \in Int /\ c.limit \in Int
  BY TimeStagesKeepOptions DEF IntOptions
<1>2. DOMAIN o = RecordFields
  BY <1>1 DEF NormalizeOptions
<1>3. o.offset \in Nat /\ o.limit \in Nat
  BY <1>1 DEF NormalizeOptions, RecordFields
<1>4. o.customMetricType \in {"", "integer", "float"}
  BY <1>1 DEF NormalizeOptions, RecordFields
<1>5. o.weekdayMode \in {WeekdayMonday, WeekdaySunday}
  BY <1>1 DEF NormalizeOptions, RecordFields
<1>6. /\ DeduplicateLists(o).offset = o.offset
      /\ DeduplicateLists(o).limit = o.limit
      /\ DeduplicateLists(o).customMetricType = o.customMetricType
      /\ DeduplicateLists(o).weekdayMode = o.weekdayMode
  BY <1>2 DEF DeduplicateLists, RecordFields
<1>7. Validate(f) = DeduplicateLists(o)
  BY DEF Validate
<1>8. ValidatedOptions(Validate(f))
  BY <1>3, <1>4, <1>5, <1>6, <1>7, Zenon DEF ValidatedOptions
<1>9. IntOptions(Validate(f))
  <2>1. o.offset \in Int /\ o.limit \in Int
    BY <1>3
  <2>. QED
    BY <1>6, <1>7, <2>1, Zenon DEF IntOptions
<1>. QED
  BY <1>8, <1>9

(* getPreviousPeriod moves the range and keeps validated options.          *)
LEMMA GetPreviousPeriodOptions ==
  ASSUME NEW f, TimeFields(f), IntOptions(f), ValidatedOptions(f)
  PROVE  IntOptions(GetPreviousPeriod(f)) /\ ValidatedOptions(GetPreviousPeriod(f))
<1> DEFINE r == PreviousRange(f)
           g == [f EXCEPT !.from = r.from, !.to = r.to, !.includeTime = r.includeTime]
<1>1. IntOptions(g) /\ ValidatedOptions(g)
  BY DEF TimeFields, RecordFields, IntOptions, ValidatedOptions
<1>2. TimeFields(g)
  <2>1. r.from \in Int /\ r.to \in Int /\ r.includeTime \in BOOLEAN
    BY PreviousRangeBefore DEF TimeFields
  <2>. QED
    BY <2>1 DEF TimeFields, RecordFields
<1>3. IntOptions(Validate(g)) /\ ValidatedOptions(Validate(g))
  BY <1>1, <1>2, ValidateOptions
<1>. QED
  BY <1>1, <1>3 DEF GetPreviousPeriod

LEMMA InitOInv == Init => OInv
<1> SUFFICES ASSUME Init PROVE OInv
  OBVIOUS
<1>1. IntOptions(request)
  BY RequestsAssumption DEF Init, FilterType, IntOptions
<1>. QED
  BY <1>1 DEF Init, OInv, OptionsValidated

LEMMA NextOInv == IInv /\ OInv /\ [Next]_vars => OInv'
<1> SUFFICES ASSUME IInv, OInv, [Next]_vars PROVE OInv'
  OBVIOUS
<1>1. CASE GetFilter
  <2>1. IntOptions(Validate(filter)) /\ ValidatedOptions(Validate(filter))
    BY ValidateOptions DEF IInv, OInv
  <2>. QED
    BY <1>1, <2>1 DEF GetFilter, OInv, OptionsValidated
<1>2. CASE PreviousPeriod
  <2>1. /\ phase = "current" /\ TimeFields(copy)
        /\ IntOptions(copy) /\ ValidatedOptions(copy)
    BY <1>2 DEF PreviousPeriod, IInv, OInv, OptionsValidated
  <2>2. IntOptions(GetPreviousPeriod(copy))
        /\ ValidatedOptions(GetPreviousPeriod(copy))
    BY <2>1, GetPreviousPeriodOptions
  <2>. QED
    BY <1>2, <2>2 DEF PreviousPeriod, OInv, OptionsValidated
<1>3. CASE UNCHANGED vars
  BY <1>3 DEF vars, OInv, OptionsValidated
<1>. QED
  BY <1>1, <1>2, <1>3 DEF Next

(* The options conjunct of TypeOK, for all constants: once getFilter       *)
(* validated the caller's filter (filter.go:584-645), neither it nor the   *)
(* copy nor the copy getPreviousPeriod shifted and re-validated            *)
(* (visitors.go:530-565) carries a negative Offset or Limit, an unknown    *)
(* WeekdayMode or an unknown CustomMetricType.                             *)
THEOREM OptionsValidatedTheorem == Spec => []OptionsValidated
<1>1. Init => IInv /\ OInv
  BY InitIInv, InitOInv
<1>2. IInv /\ OInv /\ [Next]_vars => IInv' /\ OInv'
  BY NextIInv, NextOInv
<1>3. OInv => OptionsValidated
  BY DEF OInv
<1>. QED
  BY <1>1, <1>2, <1>3, PTL DEF Spec

LEMMA InitRInv == Init => RInv
BY DEF Init, RInv

LEMMA NextRInv == IInv /\ RInv /\ [Next]_vars => RInv'
<1> SUFFICES ASSUME IInv, RInv, [Next]_vars PROVE RInv'
  OBVIOUS
<1>1. CASE GetFilter
  <2>1. Settled(Validate(filter))
    BY ValidateSettled DEF IInv
  <2>. QED
    BY <1>1, <2>1 DEF GetFilter, RInv
<1>2. CASE PreviousPeriod
  BY <1>2 DEF PreviousPeriod, RInv
<1>3. CASE UNCHANGED vars
  BY <1>3 DEF vars, RInv
<1>. QED
  BY <1>1, <1>2, <1>3 DEF Next

(* For every day length, today and cut-off: a caller that reuses a filter  *)
(* (spec section 5) gets the same ordered range from every getFilter after *)
(* the first, although validate (filter.go:544-582) rewrites the struct in *)
(* place each time and may have moved From up to ImportedUntil.            *)
THEOREM RevalidateKeepsRangeTheorem == Spec => RevalidateKeepsRange
<1>1. IInv /\ RInv /\ [Next]_vars
        => [phase # "idle" /\ Ordered(filter)
              => filter'.from = filter.from /\ filter'.to = filter.to]_vars
  <2> SUFFICES ASSUME IInv, RInv, [Next]_vars, phase # "idle", Ordered(filter)
               PROVE  filter'.from = filter.from /\ filter'.to = filter.to
    BY DEF vars
  <2>1. CASE GetFilter
    BY <2>1, RevalidateFixesRange DEF GetFilter, RInv, IInv
  <2>2. CASE PreviousPeriod
    BY <2>2 DEF PreviousPeriod
  <2>3. CASE UNCHANGED vars
    BY <2>3 DEF vars
  <2>. QED
    BY <2>1, <2>2, <2>3 DEF Next
<1>. QED
  BY InitIInv, NextIInv, InitRInv, NextRInv, <1>1, PTL
  DEF Spec, RevalidateKeepsRange

LEMMA InitLInv ==
  ASSUME CallerRequests
  PROVE  Init => LInv
<1> SUFFICES ASSUME Init PROVE LInv
  OBVIOUS
<1>1. request.importedFrom = Zero /\ request.importedUntil % Day = 0
      /\ RecentTime(request.from) /\ RecentTime(request.to)
      /\ RecentTime(request.importedUntil)
  BY DEF Init, CallerRequests
<1>2. RecentTime(Zero)
  BY DEF RecentTime
<1>. QED
  BY <1>1, <1>2 DEF Init, LInv, ImportedSet, Recent

LEMMA NextLInv == IInv /\ LInv /\ [Next]_vars => LInv'
<1> SUFFICES ASSUME IInv, LInv, [Next]_vars PROVE LInv'
  OBVIOUS
<1>1. CASE GetFilter
  <2>1. TimeFields(filter)
    BY DEF IInv
  <2>2. ImportedSet(Validate(filter)) /\ Recent(Validate(filter))
    BY <2>1, ValidateImported, ValidateRecent DEF LInv
  <2>. QED
    BY <1>1, <2>2 DEF GetFilter, LInv
<1>2. CASE PreviousPeriod
  BY <1>2 DEF PreviousPeriod, LInv
<1>3. CASE UNCHANGED vars
  BY <1>3 DEF vars, LInv
<1>. QED
  BY <1>1, <1>2, <1>3 DEF Next

(* For every day length, today and time of day, and filters as callers     *)
(* construct them (importedFrom unset, the cut-off a date, times far from *)
(* the zero time): the period Growth compares with (getPreviousPeriod,     *)
(* visitors.go:530-565) has the length of the current range, but for      *)
(* "today", also when it is re-validated and split at the cut-off and when *)
(* the caller reuses a filter an earlier call already split.              *)
THEOREM PreviousPeriodSameLengthTheorem ==
  ASSUME CallerRequests
  PROVE  Spec => []PreviousPeriodSameLength
<1>1. IInv /\ RInv /\ LInv => PreviousPeriodSameLength
  <2> SUFFICES ASSUME IInv, RInv, LInv, phase = "previous", Ordered(current),
                      ~(EffectiveFrom(current) = current.to /\ current.to = Today)
               PROVE  copy.to - EffectiveFrom(copy)
                        = current.to - EffectiveFrom(current)
    BY DEF PreviousPeriodSameLength
  <2>1. copy = GetPreviousPeriod(current) /\ TimeFields(current)
    BY DEF IInv
  <2>2. Settled(current) /\ ImportedSet(current) /\ Recent(current)
    BY DEF RInv, LInv
  <2>. QED
    BY <2>1, <2>2, GetPreviousPeriodSameLength
<1>. QED
  BY InitIInv, NextIInv, InitRInv, NextRInv, InitLInv, NextLInv, <1>1, PTL DEF Spec

=============================================================================
