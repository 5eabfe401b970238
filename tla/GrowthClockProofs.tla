------------------------- MODULE GrowthClockProofs -------------------------
(***************************************************************************)
(* Proof that the Growth call of GrowthClock misses the time of day of     *)
(* "today" only when midnight passes between getFilter and                 *)
(* getPreviousPeriod: with the clock read twice on one day, the previous   *)
(* period of today always ends at the same time of day a week before.      *)
(***************************************************************************)
EXTENDS GrowthClock, TLAPS

(* The constants as MCGrowthClock gives them: a positive day length, a     *)
(* first call on a midnight, and callers' filters as Filter types them.    *)
ClockAssumptions ==
  /\ Day \in Nat \ {0}
  /\ Start \in Int /\ Start % Day = 0
  /\ Requests \subseteq Clock(Start, Start)!FilterType

ToDay(t) == Clock(Start, Start)!ToDate(t)

GInv ==
  /\ phase \in {"idle", "current", "previous"}
  /\ now \in Int /\ today \in Int /\ today = ToDay(now)
  /\ calledOn \in Int /\ calledOn <= today
  /\ "includeTime" \in DOMAIN filter /\ "includeTime" \in DOMAIN copy
  /\ phase = "current" => copy = current
  /\ TodayMissedOnlyAcrossMidnight

(* util.Today() never goes back as time.Now() advances.                    *)
LEMMA ToDateMonotone ==
  ASSUME NEW d \in Int, d > 0, NEW a \in Int, NEW b \in Int, a <= b
  PROVE  a - (a % d) <= b - (b % d)
<1>1. PICK qa \in Int : a - (a % d) = qa * d
  BY SMTT(30)
<1>2. PICK qb \in Int : b - (b % d) = qb * d
  BY SMTT(30)
<1>3. a % d \in 0..(d - 1) /\ b % d \in 0..(d - 1)
  OBVIOUS
<1>4. qa * d < qb * d + d
  BY <1>1, <1>2, <1>3
<1>5. qa <= qb
  BY <1>4, SMTT(30)
<1>. QED
  BY <1>1, <1>2, <1>5, SMTT(30)

(* Every step of validate keeps IncludeTime, whatever the clock reads.     *)
LEMMA ValidateKeepsIncludeTime ==
  ASSUME NEW t, NEW n, NEW g, "includeTime" \in DOMAIN g
  PROVE  /\ "includeTime" \in DOMAIN Clock(t, n)!Validate(g)
         /\ Clock(t, n)!Validate(g).includeTime = g.includeTime
<1>1. /\ "includeTime" \in DOMAIN Clock(t, n)!TruncateRange(g)
      /\ Clock(t, n)!TruncateRange(g).includeTime = g.includeTime
  BY DEF Clock!TruncateRange
<1> DEFINE g1 == Clock(t, n)!TruncateRange(g)
<1>2. /\ "includeTime" \in DOMAIN Clock(t, n)!OrderRange(g1)
      /\ Clock(t, n)!OrderRange(g1).includeTime = g.includeTime
  BY <1>1 DEF Clock!OrderRange
<1> DEFINE g2 == Clock(t, n)!OrderRange(g1)
<1>3. /\ "includeTime" \in DOMAIN Clock(t, n)!SplitImported(g2)
      /\ Clock(t, n)!SplitImported(g2).includeTime = g.includeTime
  BY <1>2 DEF Clock!SplitImported
<1> DEFINE g3 == Clock(t, n)!SplitImported(g2)
<1>4. /\ "includeTime" \in DOMAIN Clock(t, n)!ClampTo(g3)
      /\ Clock(t, n)!ClampTo(g3).includeTime = g.includeTime
  BY <1>3 DEF Clock!ClampTo
<1> DEFINE g4 == Clock(t, n)!ClampTo(g3)
<1>5. /\ "includeTime" \in DOMAIN Clock(t, n)!NormalizeOptions(g4)
      /\ Clock(t, n)!NormalizeOptions(g4).includeTime = g.includeTime
  BY <1>4 DEF Clock!NormalizeOptions
<1> DEFINE g5 == Clock(t, n)!NormalizeOptions(g4)
<1>6. /\ "includeTime" \in DOMAIN Clock(t, n)!DeduplicateLists(g5)
      /\ Clock(t, n)!DeduplicateLists(g5).includeTime = g.includeTime
  BY <1>5 DEF Clock!DeduplicateLists
<1>. QED
  BY <1>6 DEF Clock!Validate

(* getPreviousPeriod on the one-day period of the day util.Today() reads   *)
(* turns IncludeTime on, also across the re-validation at ImportedUntil.   *)
LEMMA PreviousOfTodayIncludesTime ==
  ASSUME NEW t, NEW n, NEW f, "includeTime" \in DOMAIN f,
         Clock(t, n)!EffectiveFrom(f) = f.to, f.to = t
  PROVE  /\ "includeTime" \in DOMAIN Clock(t, n)!GetPreviousPeriod(f)
         /\ Clock(t, n)!GetPreviousPeriod(f).includeTime = TRUE
<1>1. Clock(t, n)!PreviousRange(f).includeTime = TRUE
  BY DEF Clock!PreviousRange
<1> DEFINE r == Clock(t, n)!PreviousRange(f)
           g == [f EXCEPT !.from = r.from, !.to = r.to, !.includeTime = r.includeTime]
<1>2. "includeTime" \in DOMAIN g /\ g.includeTime = TRUE
  BY <1>1
<1>3. /\ "includeTime" \in DOMAIN Clock(t, n)!Validate(g)
      /\ Clock(t, n)!Validate(g).includeTime = TRUE
  <2>1. \A h : "includeTime" \in DOMAIN h =>
               /\ "includeTime" \in DOMAIN Clock(t, n)!Validate(h)
               /\ Clock(t, n)!Validate(h).includeTime = h.includeTime
    BY ValidateKeepsIncludeTime
  <2>. QED
    BY <1>2, <2>1, Zenon
<1>. QED
  BY <1>2, <1>3 DEF Clock!GetPreviousPeriod


LEMMA InitGInv == ClockAssumptions /\ Init => GInv
<1> SUFFICES ASSUME ClockAssumptions, Init PROVE GInv
  OBVIOUS
<1>1. request \in Clock(Start, Start)!FilterType
  BY DEF ClockAssumptions, Init, Clock!Init
<1>2. "includeTime" \in DOMAIN request
  BY <1>1 DEF Clock!FilterType
<1>3. ToDay(Start) = Start
  BY DEF ClockAssumptions, ToDay, Clock!ToDate
<1>. QED
  BY <1>2, <1>3 DEF ClockAssumptions, Init, Clock!Init, GInv,
                    TodayMissedOnlyAcrossMidnight

LEMMA NextGInv == ClockAssumptions /\ GInv /\ [Next]_vars => GInv'
<1> SUFFICES ASSUME ClockAssumptions, GInv, [Next]_vars PROVE GInv'
  OBVIOUS
<1>1. CASE Call
  <2>1. PICK t \in Instants, n \in Instants :
          t = today /\ n = now /\ Clock(t, n)!GetFilter
    BY <1>1 DEF Call
  <2>2. /\ "includeTime" \in DOMAIN Clock(t, n)!Validate(filter)
    BY ValidateKeepsIncludeTime DEF GInv
  <2>3. /\ filter' = Clock(t, n)!Validate(filter)
        /\ copy' = filter' /\ current' = filter' /\ phase' = "current"
    BY <2>1 DEF Clock!GetFilter
  <2>. QED
    BY <1>1, <2>2, <2>3 DEF Call, GInv, TodayMissedOnlyAcrossMidnight
<1>2. CASE Previous
  <2>1. PICK t \in Instants, n \in Instants :
          t = today /\ n = now /\ Clock(t, n)!PreviousPeriod
    BY <1>2 DEF Previous
  <2>2. /\ phase = "current" /\ copy = current
        /\ copy' = Clock(t, n)!GetPreviousPeriod(copy)
        /\ phase' = "previous"
        /\ UNCHANGED <<request, filter, current>>
    BY <2>1 DEF Clock!PreviousPeriod, GInv
  <2>3. UNCHANGED <<today, now, calledOn>>
    BY <1>2 DEF Previous
  <2>4. \A f : "includeTime" \in DOMAIN f
                /\ Clock(t, n)!EffectiveFrom(f) = f.to /\ f.to = t
                => /\ "includeTime" \in DOMAIN Clock(t, n)!GetPreviousPeriod(f)
                   /\ Clock(t, n)!GetPreviousPeriod(f).includeTime = TRUE
    BY PreviousOfTodayIncludesTime
  <2>5. Clock(Start, Start)!EffectiveFrom(copy) = Clock(t, n)!EffectiveFrom(copy)
    BY DEF Clock!EffectiveFrom, Clock!Zero
  <2>6. "includeTime" \in DOMAIN copy'
    <3>1. CASE Clock(t, n)!EffectiveFrom(copy) = copy.to /\ copy.to = t
      BY <2>2, <2>4, <3>1 DEF GInv
    <3>2. CASE ~(Clock(t, n)!EffectiveFrom(copy) = copy.to /\ copy.to = t)
      <4>1. "includeTime" \in DOMAIN
              [copy EXCEPT !.from = Clock(t, n)!PreviousRange(copy).from,
                           !.to = Clock(t, n)!PreviousRange(copy).to,
                           !.includeTime = Clock(t, n)!PreviousRange(copy).includeTime]
        BY DEF GInv
      <4>2. \A h : "includeTime" \in DOMAIN h =>
                     "includeTime" \in DOMAIN Clock(t, n)!Validate(h)
        BY ValidateKeepsIncludeTime
      <4>. QED
        BY <2>2, <4>1, <4>2 DEF Clock!GetPreviousPeriod
    <3>. QED
      BY <3>1, <3>2
  <2>7. TodayMissedOnlyAcrossMidnight'
    <3> SUFFICES ASSUME current.to = calledOn,
                        Clock(Start, Start)!EffectiveFrom(current) = current.to,
                        ~copy'.includeTime
                 PROVE  today > calledOn
      BY <2>2, <2>3 DEF TodayMissedOnlyAcrossMidnight
    <3>1. today # calledOn
      <4> SUFFICES ASSUME today = calledOn PROVE FALSE
        OBVIOUS
      <4>1. copy'.includeTime = TRUE
        BY <2>1, <2>2, <2>4, <2>5 DEF GInv
      <4>. QED
        BY <4>1
    <3>. QED
      BY <3>1 DEF GInv
  <2>. QED
    BY <2>2, <2>3, <2>6, <2>7 DEF GInv
<1>3. CASE Tick
  <2>1. today' = ToDay(now') /\ now' = now + 1 /\ now' \in Int
    BY <1>3 DEF Tick, ToDay, GInv
  <2>2. \A a, b \in Int : a <= b => a - (a % Day) <= b - (b % Day)
    BY ToDateMonotone DEF ClockAssumptions
  <2>3. today <= today'
    BY <2>1, <2>2 DEF GInv, ToDay, Clock!ToDate
  <2>. QED
    BY <1>3, <2>1, <2>3 DEF Tick, GInv, TodayMissedOnlyAcrossMidnight
<1>4. CASE UNCHANGED vars
  BY <1>4 DEF vars, GInv, TodayMissedOnlyAcrossMidnight
<1>. QED
  BY <1>1, <1>2, <1>3, <1>4 DEF Next

(* TodayMissedOnlyAcrossMidnight holds for every day length, first         *)
(* midnight and callers' filters: Growth over today compares with the same *)
(* part of the day a week before unless midnight passed between its        *)
(* getFilter (visitors.go:359) and getPreviousPeriod (visitors.go:412).    *)
THEOREM GrowthMissesTodayOnlyAcrossMidnight ==
  ASSUME ClockAssumptions PROVE Spec => []TodayMissedOnlyAcrossMidnight
<1>1. Init => GInv
  BY InitGInv
<1>2. GInv /\ [Next]_vars => GInv'
  BY NextGInv
<1>3. GInv => TodayMissedOnlyAcrossMidnight
  BY DEF GInv
<1>. QED
  BY <1>1, <1>2, <1>3, PTL DEF Spec

=============================================================================
