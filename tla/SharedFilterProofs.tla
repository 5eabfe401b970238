------------------------- MODULE SharedFilterProofs -------------------------
(***************************************************************************)
(* A caller whose *Filter only one goroutine uses at a time gets the       *)
(* atomic getFilter: the statement-by-statement validate of SharedFilter   *)
(* implements Filter's GetFilter.  The invariant says, for each statement  *)
(* the goroutine is at, which prefix of validate the shared struct has     *)
(* been through since the last copy.                                       *)
(*                                                                         *)
(* With any number of goroutines, a filter validate leaves as it is is     *)
(* shared without harm: every statement of validate then writes back what  *)
(* it reads (FixedPointSteps), so the struct and every copy stay the       *)
(* caller's filter.                                                        *)
(***************************************************************************)
EXTENDS SharedFilter, TLAPS

(* validate's prefixes, named after the statement that comes next.         *)
AtTo(f) == [f EXCEPT !.from = F!NormalizeTime(@, f.includeTime)]
AtImport(f) == F!OrderRange(F!TruncateRange(f))
AtClamp(f) == F!SplitImported(AtImport(f))
AtRest(f) == F!ClampTo(AtClamp(f))

StateOf(g) ==
  CASE pc[g] \in {"idle", "from"} -> committed
    [] pc[g] = "to" -> AtTo(committed)
    [] pc[g] \in {"check", "swap"} -> F!TruncateRange(committed)
    [] pc[g] = "import" -> AtImport(committed)
    [] pc[g] = "clamp" -> AtClamp(committed)
    [] pc[g] = "rest" -> AtRest(committed)
    [] pc[g] = "copy" -> F!Validate(committed)

RecordFields ==
  {"from", "to", "importedUntil", "importedFrom", "importedTo", "includeTime",
   "path", "pathPattern", "country", "search", "offset", "limit",
   "customMetricType", "weekdayMode"}

IInv(g) ==
  /\ pc \in [Goroutines -> Steps]
  /\ DOMAIN committed = RecordFields
  /\ shared = StateOf(g)
  /\ pc[g] = "swap" =>
       LET t == F!TruncateRange(committed)
       IN t.to # F!Zero /\ t.from > t.to
  /\ last = IF published THEN committed ELSE request
  /\ ~published => committed = request

(* Every step of validate rewrites fields of the struct and adds none.    *)
LEMMA ValidateDomain ==
  ASSUME NEW f, DOMAIN f = RecordFields
  PROVE  DOMAIN F!Validate(f) = RecordFields
<1>1. DOMAIN F!TruncateRange(f) = RecordFields
  BY DEF F!TruncateRange
<1>2. DOMAIN AtImport(f) = RecordFields
  BY <1>1 DEF AtImport, F!OrderRange
<1>3. DOMAIN AtClamp(f) = RecordFields
  BY <1>2 DEF AtClamp, F!SplitImported
<1>4. DOMAIN AtRest(f) = RecordFields
  BY <1>3 DEF AtRest, F!ClampTo
<1>5. DOMAIN F!NormalizeOptions(AtRest(f)) = RecordFields
  BY <1>4 DEF F!NormalizeOptions
<1>6. DOMAIN F!DeduplicateLists(F!NormalizeOptions(AtRest(f))) = RecordFields
  BY <1>5 DEF F!DeduplicateLists
<1>. QED
  BY <1>6 DEF F!Validate, AtRest, AtClamp, AtImport

LEMMA RequestDomain ==
  ASSUME RequestsTyped, NEW r \in Requests
  PROVE  DOMAIN r = RecordFields
BY DEF RequestsTyped, F!FilterType, RecordFields

LEMMA InitIInv ==
  ASSUME RequestsTyped, NEW g, Goroutines = {g}
  PROVE  Init => IInv(g) /\ F!Init
<1> SUFFICES ASSUME Init PROVE IInv(g) /\ F!Init
  OBVIOUS
<1>1. pc[g] = "idle" /\ pc \in [Goroutines -> Steps]
  BY DEF Init, Steps
<1>2. DOMAIN committed = RecordFields
  BY RequestDomain DEF Init
<1>. QED
  BY <1>1, <1>2 DEF Init, IInv, StateOf, F!Init

LEMMA NextIInv ==
  ASSUME NEW g, Goroutines = {g}
  PROVE  IInv(g) /\ [Next]_vars => IInv(g)' /\ [F!Next]_(F!vars)
<1> SUFFICES ASSUME IInv(g), [Next]_vars PROVE IInv(g)' /\ [F!Next]_(F!vars)
  OBVIOUS
<1> USE DEF IInv
<1>1. pc[g] \in Steps
  BY DEF Steps
<1> DEFINE c == committed
<1>2. CASE Call(g)
  BY <1>2 DEF Call, StateOf, Steps, F!vars
<1>3. CASE NormalizeFrom(g)
  BY <1>3 DEF NormalizeFrom, Exec, StateOf, AtTo, Steps, F!vars
<1>4. CASE NormalizeTo(g)
  BY <1>4 DEF NormalizeTo, Exec, StateOf, AtTo, F!TruncateRange, Steps,
             RecordFields, F!vars
<1>5. CASE CheckRange(g)
  <2>1. pc'[g] = "swap" \/ pc'[g] = "import"
    BY <1>5 DEF CheckRange
  <2>2. pc'[g] = "import" => shared = AtImport(c)
    BY <1>5 DEF CheckRange, StateOf, AtImport, F!OrderRange
  <2>. QED
    BY <1>5, <2>1, <2>2 DEF CheckRange, StateOf, Steps, F!vars
<1>6. CASE SwapRange(g)
  BY <1>6 DEF SwapRange, Exec, StateOf, AtImport, F!OrderRange, F!TruncateRange,
             RecordFields, Steps, F!vars
<1>7. CASE Import(g)
  BY <1>7 DEF Import, Exec, StateOf, AtClamp, Steps, F!vars
<1>8. CASE Clamp(g)
  BY <1>8 DEF Clamp, Exec, StateOf, AtRest, Steps, F!vars
<1>9. CASE Rest(g)
  BY <1>9 DEF Rest, Exec, StateOf, AtRest, AtClamp, AtImport, F!Validate,
             Steps, F!vars
<1>10. CASE Copy(g)
  <2>1. shared = F!Validate(c)
    BY <1>10 DEF Copy, StateOf
  <2>2. DOMAIN F!Validate(c) = RecordFields
    BY ValidateDomain
  <2>3. F!GetFilter
    BY <1>10, <2>1 DEF Copy, F!GetFilter
  <2>. QED
    BY <1>10, <2>1, <2>2, <2>3 DEF Copy, StateOf, Steps, F!Next
<1>11. CASE UNCHANGED vars
  BY <1>11 DEF vars, StateOf, F!vars
<1>. QED
  BY <1>2, <1>3, <1>4, <1>5, <1>6, <1>7, <1>8, <1>9, <1>10, <1>11 DEF Next

(* A caller that runs one analysis call at a time on its *Filter gets the *)
(* atomic getFilter of analyzer.go: the statement-by-statement validate    *)
(* followed by the copy implements Filter's GetFilter, for every range,    *)
(* cut-off and time of day, when the callers construct Filter records.     *)
THEOREM SequentialGetFilterAtomic ==
  ASSUME RequestsTyped, NEW g, Goroutines = {g}
  PROVE  Spec => AtomicGetFilter
<1>1. Init => IInv(g) /\ F!Init
  BY InitIInv
<1>2. IInv(g) /\ [Next]_vars => IInv(g)' /\ [F!Next]_(F!vars)
  BY NextIInv
<1>. QED
  BY <1>1, <1>2, PTL DEF Spec, AtomicGetFilter, F!Spec


(***************************************************************************)
(* Sharing a filter validate leaves alone is race-free: every statement of *)
(* validate then writes back what it reads.                                 *)
(***************************************************************************)
(* The filters callers share: ones validate leaves as they are, whose      *)
(* cut-off is a date no later than tomorrow (imported statistics are of    *)
(* past days).                                                             *)
ReusedRequests ==
  \A r \in Requests :
    /\ F!Validate(r) = r
    /\ r.importedUntil % Day = 0
    /\ r.importedUntil <= F!Tomorrow

(* Filter's DayAssumption and TodayAssumption, which the instance F keeps *)
(* from the prover.                                                        *)
FilterClock == Day \in Nat \ {0} /\ Today \in Nat /\ Today % Day = 0

LEMMA ClockFacts ==
  ASSUME FilterClock
  PROVE  /\ Day \in Int /\ Day > 0
         /\ F!Tomorrow \in Int /\ F!Tomorrow % Day = 0
<1>1. Day \in Int /\ Day > 0 /\ Today \in Int /\ Today % Day = 0
  BY DEF FilterClock
<1>2. \E q \in Int : Today - (Today % Day) = q * Day
  BY <1>1, SMTT(30)
<1>3. PICK q \in Int : Today - (Today % Day) = q * Day
  BY <1>2
<1>4. F!Tomorrow = (q + 1) * Day
  BY <1>1, <1>3 DEF F!Tomorrow
<1>5. \A k \in Int : (k * Day) % Day = 0
  BY <1>1
<1>. QED
  BY <1>1, <1>4, <1>5

(* A time that is unset, carries the time of day or is a date.             *)
IsDate(t, f) == t = F!Zero \/ f.includeTime \/ t % Day = 0

LEMMA NormalizeTimeIsDate ==
  ASSUME FilterClock, NEW t \in Int, NEW f, f.includeTime \in BOOLEAN
  PROVE  /\ F!NormalizeTime(t, f.includeTime) \in Int
         /\ IsDate(F!NormalizeTime(t, f.includeTime), f)
         /\ IsDate(t, f) => F!NormalizeTime(t, f.includeTime) = t
<1>1. Day \in Int /\ Day > 0
  BY ClockFacts
<1>2. \E q \in Int : t - (t % Day) = q * Day
  BY <1>1, SMTT(30)
<1>3. \A q \in Int : (q * Day) % Day = 0
  BY <1>1, SMTT(30)
<1>. QED
  BY <1>1, <1>2, <1>3 DEF F!NormalizeTime, F!ToDate, IsDate, F!Zero

(* The options and list statements of validate leave the time fields.    *)
LEMMA RestKeepsTime ==
  ASSUME NEW f, DOMAIN f = RecordFields
  PROVE  LET g == F!DeduplicateLists(F!NormalizeOptions(f))
         IN  /\ DOMAIN g = RecordFields
             /\ g.from = f.from /\ g.to = f.to
             /\ g.importedFrom = f.importedFrom /\ g.importedTo = f.importedTo
<1>1. /\ DOMAIN F!NormalizeOptions(f) = RecordFields
      /\ F!NormalizeOptions(f).from = f.from /\ F!NormalizeOptions(f).to = f.to
      /\ F!NormalizeOptions(f).importedFrom = f.importedFrom
      /\ F!NormalizeOptions(f).importedTo = f.importedTo
  BY DEF F!NormalizeOptions, RecordFields
<1>. QED
  BY <1>1 DEF F!DeduplicateLists, RecordFields

(* A filter validate leaves as it is, with a cut-off that is a date no    *)
(* later than tomorrow, is left as it is by every statement of validate:  *)
(* its range is not inverted, and truncation, split and clamp each write   *)
(* back what they read.                                                    *)
LEMMA FixedPointSteps ==
  ASSUME FilterClock, NEW r \in F!FilterType, F!Validate(r) = r,
         r.importedUntil % Day = 0, r.importedUntil <= F!Tomorrow
  PROVE  /\ F!TruncateRange(r) = r
         /\ ~(r.to # F!Zero /\ r.from > r.to)
         /\ F!SplitImported(r) = r
         /\ F!ClampTo(r) = r
         /\ F!DeduplicateLists(F!NormalizeOptions(r)) = r
<1> DEFINE T == F!TruncateRange(r)
           O == F!OrderRange(T)
           S == F!SplitImported(O)
           C == F!ClampTo(S)
<1>1. /\ DOMAIN r = RecordFields
      /\ r.from \in Int /\ r.to \in Int /\ r.importedUntil \in Int
      /\ r.importedFrom \in Int /\ r.importedTo \in Int
      /\ r.includeTime \in BOOLEAN
  BY DEF F!FilterType, RecordFields
<1>2. /\ Day \in Int /\ Day > 0
      /\ F!Tomorrow \in Int /\ F!Tomorrow % Day = 0
  BY ClockFacts
<1>3. /\ T = [r EXCEPT !.from = F!NormalizeTime(r.from, r.includeTime),
                       !.to = F!NormalizeTime(r.to, r.includeTime)]
      /\ T.from \in Int /\ T.to \in Int
      /\ IsDate(T.from, r) /\ IsDate(T.to, r)
  BY <1>1, NormalizeTimeIsDate DEF F!TruncateRange
<1>4. /\ \/ O.from = T.from /\ O.to = T.to
         \/ O.from = T.to /\ O.to = T.from
      /\ O.includeTime = r.includeTime /\ O.importedUntil = r.importedUntil
  BY <1>1, <1>3 DEF F!OrderRange
<1>5. /\ S.to = O.to
      /\ S.from = O.from \/ S.from = r.importedUntil
      /\ S.includeTime = r.includeTime /\ S.importedUntil = r.importedUntil
  BY <1>1, <1>3, <1>4 DEF F!SplitImported, F!OrderRange
<1>6. /\ C.from = S.from
      /\ C.to = S.to \/ C.to = F!Tomorrow
  BY <1>1, <1>3 DEF F!ClampTo, F!SplitImported, F!OrderRange
<1>7. F!Validate(r) = F!DeduplicateLists(F!NormalizeOptions(C))
  BY DEF F!Validate
<1>8. DOMAIN C = RecordFields
  BY <1>1, <1>3 DEF F!ClampTo, F!SplitImported, F!OrderRange
<1>9. /\ C.from = r.from /\ C.to = r.to
      /\ C.importedFrom = r.importedFrom /\ C.importedTo = r.importedTo
  BY <1>7, <1>8, RestKeepsTime
<1>10. \A k \in RecordFields \ {"from", "to", "importedFrom", "importedTo"} :
          C[k] = r[k]
  BY <1>1, <1>3 DEF F!ClampTo, F!SplitImported, F!OrderRange, RecordFields
<1>11. r = [k \in RecordFields |-> r[k]]
  BY <1>1 DEF F!FilterType
<1>12. T = [k \in RecordFields |-> T[k]]
  BY <1>1, <1>3, <1>11
<1>13. O = [k \in RecordFields |-> O[k]]
  BY <1>1, <1>3, <1>12 DEF F!OrderRange
<1>14. S = [k \in RecordFields |-> S[k]]
  <2>1. CASE O.importedUntil = F!Zero \/ ~(O.from < O.importedUntil)
    BY <1>13, <2>1 DEF F!SplitImported
  <2>2. CASE ~(O.importedUntil = F!Zero \/ ~(O.from < O.importedUntil))
             /\ O.to < O.importedUntil
    <3>1. S = [O EXCEPT !.importedFrom = O.from, !.importedTo = O.to]
      BY <2>2 DEF F!SplitImported
    <3>. QED
      BY <1>13, <3>1
  <2>3. CASE ~(O.importedUntil = F!Zero \/ ~(O.from < O.importedUntil))
             /\ ~(O.to < O.importedUntil)
    <3>1. S = [O EXCEPT !.importedFrom = O.from, !.from = O.importedUntil,
                        !.importedTo = O.importedUntil - Day]
      BY <2>3 DEF F!SplitImported
    <3>. QED
      BY <1>13, <3>1
  <2>. QED
    BY <2>1, <2>2, <2>3
<1>15. C = [k \in RecordFields |-> C[k]]
  <2>1. CASE S.to # F!Zero /\ S.to > F!Tomorrow
    <3>1. C = [S EXCEPT !.to = F!Tomorrow]
      BY <2>1 DEF F!ClampTo
    <3>. QED
      BY <1>14, <3>1
  <2>2. CASE ~(S.to # F!Zero /\ S.to > F!Tomorrow)
    BY <1>14, <2>2 DEF F!ClampTo
  <2>. QED
    BY <2>1, <2>2
<1>16. C = r
  <2>1. \A k \in RecordFields : C[k] = r[k]
    BY <1>9, <1>10 DEF RecordFields
  <2>. QED
    BY <2>1, <1>11, <1>15
<1>17. IsDate(r.from, r) /\ IsDate(r.to, r)
  <2>1. IsDate(r.importedUntil, r) /\ IsDate(F!Tomorrow, r)
    BY <1>2 DEF IsDate
  <2>. QED
    BY <1>3, <1>4, <1>5, <1>6, <1>9, <2>1
<1>18. T = r
  <2>1. /\ F!NormalizeTime(r.from, r.includeTime) = r.from
        /\ F!NormalizeTime(r.to, r.includeTime) = r.to
    BY <1>1, <1>17, NormalizeTimeIsDate
  <2>. QED
    BY <1>1, <1>3, <2>1, <1>11
<1>19. ~(r.to # F!Zero /\ r.from > r.to)
  <2> SUFFICES ASSUME r.to # F!Zero, r.from > r.to PROVE FALSE
    OBVIOUS
  <2>1. O.from = r.to /\ O.to = r.from
    BY <1>18 DEF F!OrderRange
  <2>2. S.from = r.importedUntil
    BY <1>1, <1>5, <1>6, <1>9, <2>1
  <2>3. r.to = F!Tomorrow
    BY <1>1, <1>5, <1>6, <1>9, <2>1
  <2>4. r.from = r.importedUntil
    BY <1>6, <1>9, <2>2
  <2>. QED
    BY <1>1, <2>3, <2>4
<1>20. O = r
  BY <1>18, <1>19 DEF F!OrderRange
<1>21. S = r
  <2>1. \A k \in RecordFields \ {"to"} : S[k] = C[k]
    <3>1. CASE S.to # F!Zero /\ S.to > F!Tomorrow
      <4>1. C = [S EXCEPT !.to = F!Tomorrow]
        BY <3>1 DEF F!ClampTo
      <4>. QED
        BY <1>14, <4>1
    <3>2. CASE ~(S.to # F!Zero /\ S.to > F!Tomorrow)
      BY <3>2 DEF F!ClampTo
    <3>. QED
      BY <3>1, <3>2
  <2>2. S.to = r.to
    BY <1>5, <1>20
  <2>3. \A k \in RecordFields : S[k] = r[k]
    BY <1>16, <2>1, <2>2 DEF RecordFields
  <2>. QED
    BY <2>3, <1>11, <1>14
<1>. QED
  BY <1>7, <1>16, <1>18, <1>19, <1>20, <1>21

(* The shared struct, the last copy and the history all stay the caller's *)
(* filter, and no goroutine is ever about to swap its range.               *)
SInv ==
  /\ request \in Requests
  /\ shared = request /\ committed = request /\ last = request
  /\ pc \in [Goroutines -> Steps \ {"swap"}]

LEMMA InitSInv == Init => SInv
BY DEF Init, SInv, Steps

LEMMA NextSInv ==
  ASSUME FilterClock, RequestsTyped, ReusedRequests
  PROVE  SInv /\ [Next]_vars => SInv'
<1> SUFFICES ASSUME SInv, [Next]_vars PROVE SInv'
  OBVIOUS
<1> DEFINE r == request
<1>1. /\ F!TruncateRange(r) = r
      /\ ~(r.to # F!Zero /\ r.from > r.to)
      /\ F!SplitImported(r) = r
      /\ F!ClampTo(r) = r
      /\ F!DeduplicateLists(F!NormalizeOptions(r)) = r
  BY FixedPointSteps DEF SInv, RequestsTyped, ReusedRequests
<1>2. DOMAIN r = RecordFields
  BY RequestDomain DEF SInv
<1>3. /\ [r EXCEPT !.from = F!NormalizeTime(@, r.includeTime)] = r
      /\ [r EXCEPT !.to = F!NormalizeTime(@, r.includeTime)] = r
  <2>1. /\ F!NormalizeTime(r.from, r.includeTime) = r.from
        /\ F!NormalizeTime(r.to, r.includeTime) = r.to
    BY <1>1, <1>2 DEF F!TruncateRange, RecordFields
  <2>2. r = [k \in RecordFields |-> r[k]]
    BY DEF SInv, RequestsTyped, F!FilterType, RecordFields
  <2>. QED
    BY <1>2, <2>1, <2>2 DEF RecordFields
<1>4. ASSUME NEW g \in Goroutines,
             \/ Call(g) \/ NormalizeFrom(g) \/ NormalizeTo(g) \/ CheckRange(g)
             \/ SwapRange(g) \/ Import(g) \/ Clamp(g) \/ Rest(g) \/ Copy(g)
      PROVE  SInv'
  <2>1. CASE Call(g)
    BY <2>1 DEF Call, SInv, Steps
  <2>2. CASE NormalizeFrom(g)
    BY <1>3, <2>2 DEF NormalizeFrom, Exec, SInv, Steps
  <2>3. CASE NormalizeTo(g)
    BY <1>3, <2>3 DEF NormalizeTo, Exec, SInv, Steps
  <2>4. CASE CheckRange(g)
    BY <1>1, <2>4 DEF CheckRange, SInv, Steps
  <2>5. CASE SwapRange(g)
    BY <2>5 DEF SwapRange, Exec, SInv
  <2>6. CASE Import(g)
    BY <1>1, <2>6 DEF Import, Exec, SInv, Steps
  <2>7. CASE Clamp(g)
    BY <1>1, <2>7 DEF Clamp, Exec, SInv, Steps
  <2>8. CASE Rest(g)
    BY <1>1, <2>8 DEF Rest, Exec, SInv, Steps
  <2>9. CASE Copy(g)
    BY <2>9 DEF Copy, SInv, Steps
  <2>. QED
    BY <1>4, <2>1, <2>2, <2>3, <2>4, <2>5, <2>6, <2>7, <2>8, <2>9
<1>5. CASE UNCHANGED vars
  BY <1>5 DEF vars, SInv
<1>. QED
  BY <1>4, <1>5 DEF Next

(* ValidatedReuseRaceFree holds for any number of goroutines, day length   *)
(* and today: analysis calls that run concurrently on a *Filter validate   *)
(* leaves as it is, with a cut-off date no later than tomorrow, neither    *)
(* change the caller's struct (validate, filter.go:540-645) nor get        *)
(* anything but it from getFilter (analyzer.go:103).                       *)
THEOREM ValidatedReuseRaceFreeTheorem ==
  ASSUME FilterClock, RequestsTyped, ReusedRequests
  PROVE  Spec => []ValidatedReuseRaceFree
<1>1. Init => SInv
  BY InitSInv
<1>2. SInv /\ [Next]_vars => SInv'
  BY NextSInv
<1>3. SInv => ValidatedReuseRaceFree
  BY DEF SInv, ValidatedReuseRaceFree
<1>. QED
  BY <1>1, <1>2, <1>3, PTL DEF Spec
=============================================================================
