--------------------------- MODULE MCFilterEqual ---------------------------
(***************************************************************************)
(* Two holders of filters with lists of up to two entries: entries in      *)
(* either order, Search entries with the same Input on different Fields,   *)
(* Sort entries with the same Direction on different Fields.               *)
(***************************************************************************)
EXTENDS FilterEqual

MCValues == {1, 2}
MCSearchFields == {"path", "entry_path"}
MCInputs == {1, 2}
MCSortFields == {"visitors", "path"}
MCDirections == {1, 2}
MCHolders == {"a", "b"}

(* The lists a holder may construct.                                       *)
MCPaths == {<<>>, <<1, 2>>, <<2, 1>>}
MCSearches ==
  {<<>>, <<[field |-> "path", input |-> 1], [field |-> "entry_path", input |-> 1]>>,
   <<[field |-> "entry_path", input |-> 1], [field |-> "path", input |-> 1]>>,
   <<[field |-> "path", input |-> 1], [field |-> "path", input |-> 2]>>,
   <<[field |-> "path", input |-> 2], [field |-> "path", input |-> 1]>>}
MCSorts ==
  {<<>>, <<[field |-> "visitors", direction |-> 1], [field |-> "path", direction |-> 1]>>,
   <<[field |-> "path", direction |-> 1], [field |-> "visitors", direction |-> 1]>>,
   <<[field |-> "visitors", direction |-> 1], [field |-> "path", direction |-> 2]>>,
   <<[field |-> "path", direction |-> 2], [field |-> "visitors", direction |-> 1]>>}

MCFilters ==
  [simple: {0, 1}, weekdayMode: {1, 2}, path: MCPaths, search: MCSearches,
   sort: MCSorts]

MCRequests == [MCHolders -> MCFilters]

(* Both holders start the week on Monday (EqualDecidesUpToOrder does not   *)
(* speak of WeekdayMode).                                                  *)
MondayRequests == {r \in MCRequests : \A h \in MCHolders : r[h].weekdayMode = 1}
=============================================================================
