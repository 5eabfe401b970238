----------------------------- MODULE QueryPlan -----------------------------
(***************************************************************************)
(* The table selector and join planner of pkg/analyzer/filter.go           *)
(* (buildQuery, table, joinSessions, joinPageViews, joinOrLeftJoinEvents,  *)
(* joinEvents, leftJoinEvents, joinUniqueVisitorsByPeriod), driven by the  *)
(* analysis methods of visitors.go, events.go and analyzer.go that call    *)
(* it.  A call validates the caller's filter (module Filter) and builds    *)
(* one or more queries; a query is the queryBuilder buildQuery hands to    *)
(* query(): its FROM table, its fields and its join sub-builders.          *)
(*                                                                         *)
(* The filter is the validated copy, reduced to what planning reads: a     *)
(* list-valued dimension is TRUE when the list is non-empty, EventName is  *)
(* the set of names given, Search the set of fields searched.  Fields are  *)
(* the names of the Field catalog entries; an optional sub-builder is a    *)
(* set of at most one builder (nil is {}).                                 *)
(***************************************************************************)
EXTENDS Naturals

CONSTANTS
  EventNames,     \* event names a filter may hold, with and without "!"
  NegatedNames,   \* those of them that start with "!"
  Filters         \* the validated filters analysis methods are called with

ASSUME NegatedAssumption == NegatedNames \subseteq EventNames

Tables == {"sessions", "pageViews", "events"}

(* The Field catalog entries the planner and its callers name.             *)
PlanFields ==
  {"path", "entry_path", "exit_path", "entries", "exits", "hour", "minute",
   "day", "weekday", "tag_key", "tag_value", "tag_keys_raw",
   "tag_values_raw", "page_views_all", "sessions_all", "events_all",
   "event_name", "event_path", "event_title", "event_meta",
   "event_meta_keys", "event_meta_values", "event_meta_keys_raw",
   "event_meta_values_raw", "bounces", "bounce_rate", "views", "visitors",
   "relative_visitors", "sessions", "visitor_id", "session_id",
   "entry_title", "exit_title", "cr", "cr_period", "visitors_raw", "title",
   "hostname", "count", "event_time_spent", "custom_metric_avg",
   "custom_metric_total", "referrer_name", "referrer_icon", "referrer",
   "any_referrer", "any_referrer_icon", "referrer_name_imported",
   "any_referrer_imported", "language", "country"}

PlanFilter ==
  [path: BOOLEAN, pathPattern: BOOLEAN, anyPath: BOOLEAN,
   entryPath: BOOLEAN, exitPath: BOOLEAN, tag: BOOLEAN, tags: BOOLEAN,
   eventName: SUBSET EventNames, eventMetaKey: BOOLEAN, eventMeta: BOOLEAN,
   search: SUBSET PlanFields, sort: BOOLEAN, customMetricKey: BOOLEAN,
   customMetricType: {"", "integer"}, includeTitle: BOOLEAN,
   includeCR: BOOLEAN, importedUntil: BOOLEAN, referrer: BOOLEAN,
   period: BOOLEAN]

ASSUME FiltersAssumption == Filters \subseteq PlanFilter

Opt(S) == {o \in SUBSET S : \A x, y \in o : x = y}

Builder ==
  [from: Tables, fields: SUBSET PlanFields, groupBy: SUBSET PlanFields,
   filter: PlanFilter, final: BOOLEAN]

Query ==
  [filter: PlanFilter, from: Tables, fields: SUBSET PlanFields,
   join: Opt(Builder), joinSecond: Opt(Builder), leftJoin: Opt(Builder),
   joinThird: Opt(Builder), includeEventFilter: BOOLEAN, final: BOOLEAN]

VARIABLES
  filter,    \* the validated filter of the caller (period: From and To set)
  queries    \* the queries the last analysis call built

vars == <<filter, queries>>

(***************************************************************************)
(* The planner.                                                            *)
(***************************************************************************)
HasNegation(names) == names \cap NegatedNames # {}

CustomMetricSet(f) == f.customMetricType # "" /\ f.customMetricKey

Table(f, fields) ==
  LET tagFields == {"tag_key", "tag_value"} \cap fields # {}
      allSessions == "sessions_all" \in fields
  IN IF /\ \/ f.path \/ f.pathPattern \/ f.tags \/ f.tag
           \/ {"page_views_all", "path", "entries", "exits", "hour",
               "minute", "tag_keys_raw", "tag_values_raw"} \cap fields # {}
           \/ tagFields
           \/ "path" \in f.search
        /\ ~CustomMetricSet(f) \/ tagFields
        /\ ~allSessions
     THEN "pageViews"
     ELSE IF {"entry_path", "exit_path"} \cap fields # {} THEN "sessions"
     ELSE IF /\ \/ f.eventName # {}
                \/ {"event_name", "events_all"} \cap fields # {}
                \/ CustomMetricSet(f)
             /\ ~allSessions
     THEN "events"
     ELSE "sessions"

(* A join sub-query: the queryBuilder{from, fields, groupBy, filter,      *)
(* final} a join* method returns.                                          *)
SubQuery(table, fields, groupBy, f, final) ==
  [from |-> table, fields |-> fields, groupBy |-> groupBy, filter |-> f,
   final |-> final]

(* The entry (exit) path and title columns a sessions sub-query selects.   *)
SessionPathFields(f, fields, dim, pathField, titleField) ==
  IF dim \/ pathField \in fields \/ pathField \in f.search
  THEN {pathField} \cup (IF f.includeTitle THEN {titleField} ELSE {})
  ELSE {}

(* groupBy of joinSessions: the session key and the path columns.         *)
SessionGroupBy(f, fields) ==
  {"visitor_id", "session_id"}
  \cup SessionPathFields(f, fields, f.entryPath, "entry_path", "entry_title")
  \cup SessionPathFields(f, fields, f.exitPath, "exit_path", "exit_title")

(* sessionFields of joinSessions: also bounces and views when requested.  *)
SessionFields(f, fields) ==
  SessionGroupBy(f, fields) \cup ({"bounces", "views"} \cap fields)

(* Mutant: the views of an events query are not pulled from sessions.      *)
JoinSessionsNoEventViews(f, table, fields) ==
  IF \/ f.entryPath \/ f.exitPath
     \/ "bounces" \in fields
     \/ {"entry_path", "exit_path"} \cap fields # {}
  THEN {SubQuery("sessions", SessionFields(f, fields),
                 SessionGroupBy(f, fields), [f EXCEPT !.sort = FALSE],
                 "sessions_all" \in fields)}
  ELSE {}

JoinSessions(f, table, fields) ==
  IF \/ f.entryPath \/ f.exitPath
     \/ "bounces" \in fields
     \/ table = "events" /\ "views" \in fields
     \/ {"entry_path", "exit_path"} \cap fields # {}
  THEN {SubQuery("sessions", SessionFields(f, fields),
                 SessionGroupBy(f, fields), [f EXCEPT !.sort = FALSE],
                 "sessions_all" \in fields)}
  ELSE {}

(* pageViewFields of joinPageViews.                                        *)
PageViewFields(f, fields) ==
  {"visitor_id", "session_id"}
  \cup (IF f.pathPattern \/ f.path \/ "path" \in fields \/ "path" \in f.search
        THEN {"path"} ELSE {})
  \cup (IF {"tag_key", "tag_keys_raw"} \cap fields # {}
        THEN {"tag_keys_raw"} ELSE {})
  \cup (IF {"tag_value", "tag_values_raw"} \cap fields # {}
        THEN {"tag_values_raw"} ELSE {})

JoinPageViews(f, fields) ==
  IF \/ f.path \/ f.pathPattern \/ f.tag \/ f.tags \/ "path" \in f.search
     \/ {"tag_key", "tag_value", "tag_keys_raw", "tag_values_raw"}
          \cap fields # {}
  THEN {SubQuery("pageViews", PageViewFields(f, fields),
                 PageViewFields(f, fields), [f EXCEPT !.sort = FALSE], FALSE)}
  ELSE {}

(* The metadata columns joinEvents adds: both for a custom metric.        *)
EventMetaFields(f, fields) ==
  IF CustomMetricSet(f)
  THEN {"event_meta_keys_raw", "event_meta_values_raw"}
  ELSE (IF {"event_meta_keys_raw", "event_meta_keys", "event_meta",
            "event_meta_values"} \cap fields # {}
        THEN {"event_meta_keys_raw"} ELSE {})
       \cup (IF {"event_meta_values_raw", "event_meta_values",
                 "event_meta"} \cap fields # {}
             THEN {"event_meta_values_raw"} ELSE {})

(* eventFields of joinEvents.                                              *)
EventFields(f, fields) ==
  {"visitor_id", "session_id"} \cup EventMetaFields(f, fields)
  \cup ({"hour", "minute", "event_name", "event_path", "event_title"}
        \cap fields)

(* The filter of an inner-joined events sub-query.                         *)
EventsJoinFilter(f) == [f EXCEPT !.path = FALSE, !.anyPath = FALSE,
                                 !.sort = FALSE]

(* Mutant: events are joined only when the event name is requested.       *)
JoinEventsOnlyForNameField(f, fields) ==
  IF "event_name" \in fields
  THEN {SubQuery("events", EventFields(f, fields), EventFields(f, fields),
                 EventsJoinFilter(f), FALSE)}
  ELSE {}

JoinEvents(f, fields) ==
  IF f.eventName # {} \/ "event_name" \in fields
  THEN {SubQuery("events", EventFields(f, fields), EventFields(f, fields),
                 EventsJoinFilter(f), FALSE)}
  ELSE {}

(* eventFields of leftJoinEvents.                                          *)
LeftJoinEventFields(f, fields) ==
  {"visitor_id", "session_id", "event_name"}
  \cup (IF f.eventMeta \/ {"event_meta", "event_meta_values"} \cap fields # {}
        THEN {"event_meta_keys_raw", "event_meta_values_raw"}
        ELSE IF f.eventMetaKey \/ "event_meta_keys" \in fields
        THEN {"event_meta_keys_raw"}
        ELSE {})
  \cup ({"event_path", "event_title"} \cap fields)

(* The filter of a left-joined events sub-query.                           *)
EventsLeftJoinFilter(f) ==
  [f EXCEPT !.eventName = {}, !.eventMetaKey = FALSE, !.eventMeta = FALSE,
            !.sort = FALSE]

LeftJoinEvents(f, fields) ==
  {SubQuery("events", LeftJoinEventFields(f, fields),
            LeftJoinEventFields(f, fields), EventsLeftJoinFilter(f), FALSE)}

JoinOrLeftJoinEvents(f, q, fields) ==
  IF HasNegation(f.eventName)
  THEN [q EXCEPT !.includeEventFilter = TRUE,
                 !.leftJoin = LeftJoinEvents(f, fields)]
  ELSE [q EXCEPT !.joinSecond = JoinEvents(f, fields)]

(* The filter of the period denominator: only the time range and options. *)
PeriodFilter ==
  [path |-> FALSE, pathPattern |-> FALSE, anyPath |-> FALSE,
   entryPath |-> FALSE, exitPath |-> FALSE, tag |-> FALSE, tags |-> FALSE,
   eventName |-> {}, eventMetaKey |-> FALSE, eventMeta |-> FALSE,
   search |-> {}, sort |-> FALSE, customMetricKey |-> FALSE,
   customMetricType |-> "", includeTitle |-> FALSE, includeCR |-> FALSE,
   importedUntil |-> FALSE, referrer |-> FALSE, period |-> TRUE]

(* Mutant: the bucket defaults to the day instead of the hour.             *)
JoinUniqueVisitorsByPeriodDayDefault(fields) ==
  IF "cr_period" \in fields
  THEN LET bucket == IF "minute" \in fields THEN "minute" ELSE "day"
       IN {SubQuery("sessions", {bucket, "visitors_raw"}, {bucket},
                    PeriodFilter, FALSE)}
  ELSE {}

(* groupBy of joinUniqueVisitorsByPeriod: the outer query's time bucket.  *)
PeriodGroupBy(fields) ==
  IF "day" \in fields THEN "day"
  ELSE IF "minute" \in fields THEN "minute" ELSE "hour"

JoinUniqueVisitorsByPeriod(fields) ==
  IF "cr_period" \in fields
  THEN {SubQuery("sessions", {PeriodGroupBy(fields), "visitors_raw"},
                 {PeriodGroupBy(fields)}, PeriodFilter, FALSE)}
  ELSE {}

(* The queryBuilder buildQuery starts from (joinThird is set last).       *)
BaseQuery(f, fields) ==
  [filter |-> f, from |-> Table(f, fields), fields |-> fields, join |-> {},
   joinSecond |-> {}, leftJoin |-> {},
   joinThird |-> JoinUniqueVisitorsByPeriod(fields),
   includeEventFilter |-> FALSE, final |-> "sessions_all" \in fields]

(* buildQuery's first branch: event rows are requested or a custom metric *)
(* is given, and no tag field is.                                          *)
EventsQuery(f, fields) ==
  /\ \/ {"event_name", "events_all"} \cap fields # {}
     \/ f.customMetricKey \/ f.customMetricType # ""
  /\ {"tag_key", "tag_value"} \cap fields = {}

BuildQuery(f, fields) ==
  LET q == BaseQuery(f, fields)
  IN IF EventsQuery(f, fields)
     THEN [q EXCEPT !.from = "events", !.includeEventFilter = TRUE,
                    !.join = JoinSessions(f, "events", fields)]
     ELSE IF q.from = "events"
     THEN [q EXCEPT !.from = "sessions", !.fields = fields \ {"path"},
                    !.includeEventFilter = TRUE,
                    !.leftJoin = LeftJoinEvents(f, fields)]
     ELSE IF q.from = "pageViews"
     THEN JoinOrLeftJoinEvents(f,
            [q EXCEPT !.join = JoinSessions(f, q.from, fields)], fields)
     ELSE JoinOrLeftJoinEvents(f,
            [q EXCEPT !.join = JoinPageViews(f, fields)], fields)

(***************************************************************************)
(* The analysis methods: each validates the caller's filter and builds the *)
(* queries of its field list; Call records them.  A method that returns    *)
(* early builds no query.                                                  *)
(***************************************************************************)
Call(qs) == queries' = qs /\ UNCHANGED filter

CustomMetricFields(f) ==
  IF f.eventName # {} /\ CustomMetricSet(f)
  THEN {"custom_metric_avg", "custom_metric_total"} ELSE {}

(* The visitor summary of Total, Growth and ByPeriod/ByHour/ByMinute, with *)
(* the conversion-rate field cr given and the custom metric requested.    *)
SummaryFields(f, cr) ==
  {"visitors", "sessions", "views", "bounces", "bounce_rate"}
  \cup (IF f.includeCR THEN {cr} ELSE {}) \cup CustomMetricFields(f)

(* TotalVisitors, TotalPageViews and TotalSessions build a fresh filter    *)
(* with the time range and ImportedUntil only.                             *)
TotalsFilter(f) == [PeriodFilter EXCEPT !.importedUntil = f.importedUntil]

Attributes == {"language", "country"}

Active ==
  Call({BuildQuery(filter, {"hostname", "path", "visitors"}
                           \cup (IF filter.includeTitle THEN {"title"}
                                 ELSE {})),
        BuildQuery(filter, {"visitors"})})

Total == Call({BuildQuery(filter, SummaryFields(filter, "cr"))})

TotalVisitors == Call({BuildQuery(TotalsFilter(filter), {"visitors"})})

TotalPageViews == Call({BuildQuery(TotalsFilter(filter), {"views"})})

TotalSessions == Call({BuildQuery(TotalsFilter(filter), {"sessions"})})

(* The current and the previous period share one field list and plan.      *)
TotalVisitorsPageViews ==
  Call(IF filter.period THEN {BuildQuery(filter, {"visitors", "views"})}
       ELSE {})

ByPeriod == Call({BuildQuery(filter, {"day"} \cup SummaryFields(filter, "cr_period"))})

ByHour == Call({BuildQuery(filter, {"hour"} \cup SummaryFields(filter, "cr_period"))})

ByMinute ==
  Call({BuildQuery(filter, {"minute"} \cup SummaryFields(filter, "cr_period"))})

ByWeekdayAndHour ==
  Call({BuildQuery(filter, {"weekday", "hour", "visitors", "sessions",
                            "views", "bounces"})})

Growth ==
  Call(IF filter.period THEN {BuildQuery(filter, SummaryFields(filter, "cr"))}
       ELSE {})

ReferrerFields(f) ==
  LET common == {"visitors", "sessions", "relative_visitors", "bounces",
                 "bounce_rate"}
  IN IF ~f.importedUntil
     THEN common \cup {"referrer_name", "referrer_icon"}
          \cup (IF f.referrer THEN {"referrer"} ELSE {"any_referrer"})
     ELSE IF f.referrer \/ "referrer" \in f.search
     THEN common \cup {"referrer_name_imported", "any_referrer_icon",
                       "any_referrer_imported"}
     ELSE common \cup {"referrer_name", "any_referrer_icon", "any_referrer"}

Referrer == Call({BuildQuery(filter, ReferrerFields(filter))})

Events ==
  Call({BuildQuery(filter, {"event_name", "count", "visitors", "views", "cr",
                            "event_time_spent", "event_meta_keys"})})

Breakdown ==
  Call(IF filter.eventName = {} \/ ~filter.eventMetaKey THEN {}
       ELSE {BuildQuery(filter, {"event_name", "count", "visitors", "views",
                                 "cr", "event_time_spent",
                                 "event_meta_values"})})

List ==
  Call({BuildQuery(filter, {"event_name", "event_meta", "visitors", "count"})})

SelectByAttribute ==
  \E attr \in Attributes :
    Call({BuildQuery(filter, {attr, "visitors", "relative_visitors"})})

Init == filter \in Filters /\ queries = {}

Next ==
  \/ Active \/ Total \/ TotalVisitors \/ TotalPageViews \/ TotalSessions
  \/ TotalVisitorsPageViews \/ ByPeriod \/ ByHour \/ ByMinute
  \/ ByWeekdayAndHour \/ Growth \/ Referrer
  \/ Events \/ Breakdown \/ List \/ SelectByAttribute

Spec == Init /\ [][Next]_vars

(***************************************************************************)
(* Properties of every query the last call built.                          *)
(***************************************************************************)
TypeOK == filter \in PlanFilter /\ queries \subseteq Query

(* The columns a query needs from the sessions table: entry and exit path  *)
(* (as output or filter), bounces, and views when it reads events rows.    *)
SessionColumns(q) ==
  ({"entry_path", "exit_path", "bounces"} \cap q.fields)
  \cup (IF q.filter.entryPath THEN {"entry_path"} ELSE {})
  \cup (IF q.filter.exitPath THEN {"exit_path"} ELSE {})
  \cup (IF q.from = "events" THEN {"views"} \cap q.fields ELSE {})

SessionColumnAvailable(q, col) ==
  q.from = "sessions" \/ \E b \in q.join : b.from = "sessions" /\ col \in b.fields

(* An event-name filter is always applied to event rows: the query reads   *)
(* events and filters them itself, or it inner-joins an events sub-query   *)
(* that keeps the filter (positive names only), or it left-joins an        *)
(* unfiltered events sub-query and filters the joined rows itself, which   *)
(* is the only form a negated name ("!name") may take (joinOrLeftJoinEvents *)
(* and the three branches of buildQuery).                                  *)
EventFilterOK(q) ==
  q.filter.eventName # {} =>
    \/ q.from = "events" /\ q.includeEventFilter
    \/ /\ ~HasNegation(q.filter.eventName)
       /\ \E b \in q.joinSecond : b.from = "events"
                                /\ b.filter.eventName = q.filter.eventName
    \/ /\ q.includeEventFilter
       /\ \E b \in q.leftJoin : b.from = "events" /\ b.filter.eventName = {}

EventFilterApplied == \A q \in queries : EventFilterOK(q)

(* Every sessions column a query selects or filters on is read from the    *)
(* sessions table: the FROM table, or the joinSessions sub-query selects   *)
(* it (table and joinSessions agree on which fields need sessions).        *)
SessionColumnsOK(q) ==
  \A col \in SessionColumns(q) : SessionColumnAvailable(q, col)

SessionColumnsJoined == \A q \in queries : SessionColumnsOK(q)

(* The CR denominator of ByPeriod, ByHour and ByMinute is grouped by the   *)
(* time bucket of the outer query and carries no dimension filter          *)
(* (joinUniqueVisitorsByPeriod).                                           *)
PeriodBucketOK(q) ==
  "cr_period" \in q.fields =>
    \E b \in q.joinThird : b.groupBy \subseteq q.fields
                         /\ b.filter = PeriodFilter

PeriodBucketMatches == \A q \in queries : PeriodBucketOK(q)

(* The spec (section 4.3, rule 3): the primary table is events only when   *)
(* an event name is filtered or requested or the custom metric is fully    *)
(* specified (key and type).                                               *)
EventsTableOnlyForEvents ==
  \A q \in queries : q.from = "events" =>
    \/ q.filter.eventName # {}
    \/ {"event_name", "events_all"} \cap q.fields # {}
    \/ CustomMetricSet(q.filter)

(* A search on the entry or exit path is, like a filter on it, evaluated   *)
(* against the sessions columns.                                           *)
SearchedSessionColumnsJoined ==
  \A q \in queries :
    \A col \in q.filter.search \cap {"entry_path", "exit_path"} :
      SessionColumnAvailable(q, col)

(* The spec (section 4.3): an events sub-query that correlates events with *)
(* sessions or page views carries no Path or AnyPath filter, which belong  *)
(* to the page-view layer.                                                 *)
EventSubqueryUnscoped ==
  \A q \in queries : \A b \in q.joinSecond \cup q.leftJoin :
    ~b.filter.path /\ ~b.filter.anyPath

=============================================================================
