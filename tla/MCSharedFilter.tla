--------------------------- MODULE MCSharedFilter ---------------------------
(***************************************************************************)
(* Small instances of SharedFilter: the time constants of MCFilter, and    *)
(* filters whose range is open, ordered, inverted or past tomorrow.        *)
(***************************************************************************)
EXTENDS SharedFilter

MCDay == 2
MCToday == 20
MCNow == 21
MCValues == {"/"}
MCCodes == {"de"}
MCTexts == {"x"}

Blank ==
  [from |-> 0, to |-> 0, importedUntil |-> 0, importedFrom |-> 0,
   importedTo |-> 0, includeTime |-> FALSE, path |-> <<>>,
   pathPattern |-> <<>>, country |-> <<>>, search |-> <<>>, offset |-> 0,
   limit |-> 0, customMetricType |-> "", weekdayMode |-> 0]

(* Ranges with ends unset, mid-day, on a date, at and past tomorrow (22),  *)
(* with and without a cut-off and the time of day.                         *)
RangeRequests ==
  { [Blank EXCEPT !.from = f, !.to = t, !.importedUntil = u,
                  !.includeTime = i] :
      f \in {0, 15, 16, 19, 25}, t \in {0, 16, 19, 22, 25},
      u \in {0, 18}, i \in BOOLEAN }

(* Inverted ranges that validate orders once and for all: one call or two *)
(* after each other leave the same filter.                                 *)
InvertedRequests ==
  { r \in RangeRequests : r.to # 0 /\ r.from > r.to /\ r.from <= 22
                          /\ r.importedUntil = 0 /\ ~r.includeTime }

MCTwo == {"g1", "g2"}
=============================================================================
