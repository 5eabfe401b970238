------------------------------ MODULE MCFilter ------------------------------
(***************************************************************************)
(* Small instances of Filter for TLC, and the reference definition of      *)
(* removeDuplicates the model of the loop is checked against.              *)
(***************************************************************************)
EXTENDS Filter, Functions, FiniteSets

MCDay == 2
MCToday == 20
MCNow == 21
MCValues == {"/", "/a"}
MCCodes == {"de", "!en", "invalid", ""}
MCTexts == {"x"}

(* The fields a request leaves at their zero value.                        *)
Blank ==
  [from |-> 0, to |-> 0, importedUntil |-> 0, importedFrom |-> 0,
   importedTo |-> 0, includeTime |-> FALSE, path |-> <<>>,
   pathPattern |-> <<>>, country |-> <<>>, search |-> <<>>, offset |-> 0,
   limit |-> 0, customMetricType |-> "", weekdayMode |-> 0]

(* Time ranges: midnights and noons before, on and after today and         *)
(* tomorrow (22), cut-offs (dates) before, at and after them, with and   *)
(* without the time of day.                                                *)
TimeRequests ==
  { [Blank EXCEPT !.from = f, !.to = t, !.importedUntil = u,
                  !.includeTime = i, !.path = p, !.pathPattern = pp] :
      f \in {0, 15, 16, 19, 20, 21, 22, 25},
      t \in {0, 15, 16, 19, 20, 21, 22, 25},
      u \in {0, 16, 18, 20, 24},
      i \in BOOLEAN,
      p \in {<<>>, <<"/">>},
      pp \in {<<>>, <<"/a">>} }

(* Every time range a dashboard sends: past dates up to today.             *)
PastTimeRequests ==
  { r \in TimeRequests : r.from <= Tomorrow /\ r.to <= Tomorrow
                         /\ r.importedUntil <= Tomorrow }

(* Ranges with a start and without a cut-off, which isolate how validate  *)
(* and getPreviousPeriod treat the range itself.                           *)
PlainRequests ==
  { r \in TimeRequests : r.from # 0 /\ r.importedUntil = 0 }

(* Ranges with a start and a cut-off.                                      *)
CutoffRequests ==
  { r \in TimeRequests : r.from # 0 /\ r.importedUntil # 0 }

(* List-valued dimensions and options, over a fixed range.                 *)
ListRequests ==
  { [Blank EXCEPT !.from = 16, !.to = 19, !.path = p, !.pathPattern = pp,
                  !.country = c, !.search = s, !.offset = o, !.limit = l,
                  !.customMetricType = m, !.weekdayMode = w] :
      p \in {<<>>, <<"/">>, <<"/", "/">>, <<"/a", "/", "/a">>,
             <<"/", "/a", "/", "/a">>},
      pp \in {<<>>, <<"/a", "/a">>},
      c \in {<<>>, <<"de", "!en", "invalid", "", "de">>, <<"", "!en", "!en">>},
      s \in {<<>>, <<[text |-> "x", padded |-> TRUE]>>},
      o \in {-1, 2}, l \in {-1, 0},
      m \in CustomMetricTypes, w \in {0, 2, 3} }

(* The time ranges and the list dimensions, each over the other's fixed   *)
(* values.                                                                 *)
FilterRequests == TimeRequests \cup ListRequests

(* The requests are ones callers can construct.                           *)
ASSUME FilterRequestsFromCallers == CallerRequests

(* The reference: the items of s at the positions where they first occur, *)
(* in the order of those positions.                                        *)
FirstOccurrences(s) ==
  LET firsts == SelectSeq([i \in 1..Len(s) |-> i],
                          LAMBDA i : \A j \in 1..(i - 1) : s[j] # s[i])
  IN [k \in 1..Len(firsts) |-> s[firsts[k]]]

(* validate leaves every list with each value of the caller's list once,   *)
(* in the order the caller first gave it, and only well-formed country     *)
(* codes; PathPattern survives only without Path.                          *)
ListsMatchReference ==
  phase # "idle" =>
    /\ copy.path = FirstOccurrences(request.path)
    /\ copy.pathPattern = IF request.path = <<>>
                          THEN FirstOccurrences(request.pathPattern) ELSE <<>>
    /\ copy.country = SelectSeq(FirstOccurrences(request.country),
                                IsCountryCode)
    /\ IsInjective(copy.path) /\ Range(copy.path) = Range(request.path)

=============================================================================
