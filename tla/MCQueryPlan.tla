---------------------------- MODULE MCQueryPlan ----------------------------
(***************************************************************************)
(* QueryPlan on validated filters.  A filter sets each dimension or not;   *)
(* ExitPath plays the part of EntryPath, Tags of Tag, and EventMeta of     *)
(* EventMetaKey, so those are left unset; Path and PathPattern are never   *)
(* both set (validate clears PathPattern when Path is given).              *)
(***************************************************************************)
EXTENDS QueryPlan, Sequences

MCEventNames == {"signup", "!signup"}

MCNegatedNames == {n \in MCEventNames : SubSeq(n, 1, 1) = "!"}

MCFilters ==
  {f \in [path: BOOLEAN, pathPattern: BOOLEAN, anyPath: BOOLEAN,
          entryPath: BOOLEAN, exitPath: {FALSE}, tag: BOOLEAN, tags: {FALSE},
          eventName: SUBSET MCEventNames, eventMetaKey: BOOLEAN,
          eventMeta: {FALSE},
          search: {{}, {"path"}, {"entry_path"}}, sort: {FALSE},
          customMetricKey: BOOLEAN, customMetricType: {"", "integer"},
          includeTitle: {FALSE}, includeCR: BOOLEAN, importedUntil: BOOLEAN,
          referrer: BOOLEAN, period: BOOLEAN] :
     ~(f.path /\ f.pathPattern)}

=============================================================================
