---------------------------- MODULE MCGrowthClock ----------------------------
EXTENDS GrowthClock

MCDay == 2
MCStart == 20
MCValues == {"/"}
MCCodes == {"de"}
MCTexts == {"x"}

(* A day is two instants: the clock runs from instant 20, midnight of the  *)
(* first day, through the day starting at 22 to instant 24, midnight of   *)
(* the day after.                                                          *)
MCLastNow == 24

(* The fields a request leaves at their zero value.                        *)
Blank ==
  [from |-> 0, to |-> 0, importedUntil |-> 0, importedFrom |-> 0,
   importedTo |-> 0, includeTime |-> FALSE, path |-> <<>>,
   pathPattern |-> <<>>, country |-> <<>>, search |-> <<>>, offset |-> 0,
   limit |-> 0, customMetricType |-> "", weekdayMode |-> 0]

(* Dashboards asking for today, as dates.                                  *)
TodayRequests ==
  { [Blank EXCEPT !.from = 20, !.to = 20] }

(* Today, with imported data up to a day before, on or after it; a range  *)
(* of a week ending today; an inverted and a two-day range.                *)
GrowthRequests ==
  TodayRequests \cup
  { [Blank EXCEPT !.from = 14, !.to = 20, !.importedUntil = 20],
    [Blank EXCEPT !.from = 20, !.to = 20, !.importedUntil = 20],
    [Blank EXCEPT !.from = 20, !.to = 20, !.importedUntil = 22],
    [Blank EXCEPT !.from = 21, !.to = 20, !.importedUntil = 18],
    [Blank EXCEPT !.from = 20, !.to = 21, !.importedUntil = 16] }
=============================================================================
