----------------------------- MODULE GrowthClock -----------------------------
(***************************************************************************)
(* Growth (visitors.go:358-451) against a clock that moves.  Growth takes  *)
(* the filter through getFilter (visitors.go:359), runs the current-period *)
(* queries (lines 392 and 404) and only then shifts the copy with          *)
(* getPreviousPeriod (line 412), which reads util.Today() and time.Now()   *)
(* again (lines 539-541).  The store round-trips in between take any time, *)
(* so midnight may pass between the two reads.                             *)
(*                                                                         *)
(* Filter, whose clock is constant, is instantiated at each step with the *)
(* clock as it reads then: validate and getPreviousPeriod read today and   *)
(* now as they are when their step runs.                                   *)
(***************************************************************************)
EXTENDS Integers

CONSTANTS
  Day, Values, Codes, Texts, Requests,   \* as in Filter
  Start,     \* midnight of the day the first call is made
  LastNow    \* the last instant the clock reaches (the bound of Tick)

VARIABLES
  request, filter, copy, current, phase,   \* as in Filter
  today,     \* util.Today()
  now,       \* time.Now().UTC()
  calledOn   \* util.Today() when the last getFilter ran (history)

vars == <<request, filter, copy, current, phase, today, now, calledOn>>

Clock(t, n) == INSTANCE Filter WITH Today <- t, Now <- n

(* The instants the clock reads.                                           *)
Instants == Start..LastNow

Init ==
  /\ Clock(Start, Start)!Init
  /\ today = Start
  /\ now = Start
  /\ calledOn = Start

(* Growth, line 359: getFilter validates the caller's filter at today.    *)
Call ==
  /\ \E t, n \in Instants : t = today /\ n = now /\ Clock(t, n)!GetFilter
  /\ calledOn' = today
  /\ UNCHANGED <<today, now>>

(* Growth, line 412, after the current-period queries: getPreviousPeriod  *)
(* with the clock as it reads now.                                         *)
Previous ==
  /\ \E t, n \in Instants : t = today /\ n = now /\ Clock(t, n)!PreviousPeriod
  /\ UNCHANGED <<today, now, calledOn>>

(* The clock advances one unit; util.Today() is midnight of its day.      *)
Tick ==
  /\ now < LastNow
  /\ now' = now + 1
  /\ today' = Clock(Start, Start)!ToDate(now + 1)
  /\ UNCHANGED <<request, filter, copy, current, phase, calledOn>>

Next == Call \/ Previous \/ Tick

Spec == Init /\ [][Next]_vars

(***************************************************************************)
(* Properties.                                                             *)
(***************************************************************************)
(* The spec (section 8, scenario 6): Growth over the one-day period of    *)
(* today compares with the same day a week before up to the same time of  *)
(* day (IncludeTime set).  getPreviousPeriod (visitors.go:539) tests To    *)
(* against util.Today() read after the current-period queries, not at the *)
(* day getFilter validated at.  A Growth call over the one-day period of   *)
(* the day getFilter ran on, its imported part included (the re-validation *)
(* at ImportedUntil), loses the time of day only if midnight passed before *)
(* getPreviousPeriod ran; then that day is over and the whole day a week   *)
(* before is the right comparison.                                         *)
TodayMissedOnlyAcrossMidnight ==
  phase = "previous" /\ current.to = calledOn
  /\ Clock(Start, Start)!EffectiveFrom(current) = current.to
  /\ ~copy.includeTime
    => today > calledOn
=============================================================================
