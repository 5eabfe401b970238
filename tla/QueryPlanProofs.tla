-------------------------- MODULE QueryPlanProofs --------------------------
(***************************************************************************)
(* Proofs about the planner of QueryPlan, for every set of event names and *)
(* every set of filters.  Every query an analysis call builds is           *)
(* BuildQuery(g, F) for a filter g and a field list F of the catalog; the  *)
(* properties are proved of BuildQuery for all such arguments, and then    *)
(* of every reachable state through the invariant that queries holds only  *)
(* such results.                                                           *)
(***************************************************************************)
EXTENDS QueryPlan, TLAPS

(* The queries buildQuery can produce from a well-typed filter.            *)
Built == {BuildQuery(g, F) : g \in PlanFilter, F \in SUBSET PlanFields}

IInv == filter \in PlanFilter /\ queries \subseteq Built

(***************************************************************************)
(* Types of the join sub-queries.                                          *)
(***************************************************************************)
LEMMA EmptyOpt ==
  ASSUME NEW S
  PROVE  {} \in Opt(S)
BY DEF Opt

LEMMA SubQueryOpt ==
  ASSUME NEW t \in Tables, NEW fs \in SUBSET PlanFields,
         NEW gb \in SUBSET PlanFields, NEW g \in PlanFilter,
         NEW fin \in BOOLEAN
  PROVE  {SubQuery(t, fs, gb, g, fin)} \in Opt(Builder)
<1>1. SubQuery(t, fs, gb, g, fin) \in Builder
  BY DEF SubQuery, Builder
<1>. QED
  BY <1>1 DEF Opt

LEMMA JoinSessionsType ==
  ASSUME NEW f \in PlanFilter, NEW F \in SUBSET PlanFields, NEW t \in Tables
  PROVE  JoinSessions(f, t, F) \in Opt(Builder)
<1>1. SessionGroupBy(f, F) \subseteq PlanFields
  BY DEF SessionGroupBy, SessionPathFields, PlanFields
<1>2. SessionFields(f, F) \subseteq PlanFields
  BY <1>1 DEF SessionFields, PlanFields
<1>3. [f EXCEPT !.sort = FALSE] \in PlanFilter
  BY DEF PlanFilter
<1>4. {SubQuery("sessions", SessionFields(f, F), SessionGroupBy(f, F),
                [f EXCEPT !.sort = FALSE], "sessions_all" \in F)}
        \in Opt(Builder)
  <2>1. "sessions" \in Tables /\ ("sessions_all" \in F) \in BOOLEAN
    BY DEF Tables
  <2>. QED
    BY <1>1, <1>2, <1>3, <2>1, SubQueryOpt, Zenon
<1>. QED
  BY <1>4, EmptyOpt DEF JoinSessions

LEMMA JoinPageViewsType ==
  ASSUME NEW f \in PlanFilter, NEW F \in SUBSET PlanFields
  PROVE  JoinPageViews(f, F) \in Opt(Builder)
<1>1. PageViewFields(f, F) \subseteq PlanFields
  BY DEF PageViewFields, PlanFields
<1>2. [f EXCEPT !.sort = FALSE] \in PlanFilter
  BY DEF PlanFilter
<1>3. {SubQuery("pageViews", PageViewFields(f, F), PageViewFields(f, F),
                [f EXCEPT !.sort = FALSE], FALSE)} \in Opt(Builder)
  BY <1>1, <1>2, SubQueryOpt DEF Tables
<1>. QED
  BY <1>3, EmptyOpt DEF JoinPageViews

LEMMA JoinEventsType ==
  ASSUME NEW f \in PlanFilter, NEW F \in SUBSET PlanFields
  PROVE  JoinEvents(f, F) \in Opt(Builder)
<1>1. EventFields(f, F) \subseteq PlanFields
  BY DEF EventFields, EventMetaFields, PlanFields
<1>2. EventsJoinFilter(f) \in PlanFilter
  BY DEF EventsJoinFilter, PlanFilter
<1>3. {SubQuery("events", EventFields(f, F), EventFields(f, F),
                EventsJoinFilter(f), FALSE)} \in Opt(Builder)
  BY <1>1, <1>2, SubQueryOpt DEF Tables
<1>. QED
  BY <1>3, EmptyOpt DEF JoinEvents

LEMMA LeftJoinEventsType ==
  ASSUME NEW f \in PlanFilter, NEW F \in SUBSET PlanFields
  PROVE  LeftJoinEvents(f, F) \in Opt(Builder)
<1>1. LeftJoinEventFields(f, F) \subseteq PlanFields
  BY DEF LeftJoinEventFields, PlanFields
<1>2. EventsLeftJoinFilter(f) \in PlanFilter
  BY DEF EventsLeftJoinFilter, PlanFilter
<1>. QED
  BY <1>1, <1>2, SubQueryOpt DEF LeftJoinEvents, Tables

LEMMA JoinUniqueVisitorsByPeriodType ==
  ASSUME NEW F \in SUBSET PlanFields
  PROVE  JoinUniqueVisitorsByPeriod(F) \in Opt(Builder)
<1>1. {PeriodGroupBy(F), "visitors_raw"} \subseteq PlanFields
        /\ {PeriodGroupBy(F)} \subseteq PlanFields
  BY DEF PeriodGroupBy, PlanFields
<1>2. PeriodFilter \in PlanFilter
  BY DEF PeriodFilter, PlanFilter
<1>3. {SubQuery("sessions", {PeriodGroupBy(F), "visitors_raw"},
                {PeriodGroupBy(F)}, PeriodFilter, FALSE)} \in Opt(Builder)
  BY <1>1, <1>2, SubQueryOpt DEF Tables
<1>. QED
  BY <1>3, EmptyOpt DEF JoinUniqueVisitorsByPeriod

(***************************************************************************)
(* The type of a planned query.                                            *)
(***************************************************************************)
LEMMA TableType ==
  ASSUME NEW f \in PlanFilter, NEW F \in SUBSET PlanFields
  PROVE  Table(f, F) \in Tables
BY DEF Table, Tables

LEMMA BaseQueryType ==
  ASSUME NEW f \in PlanFilter, NEW F \in SUBSET PlanFields
  PROVE  BaseQuery(f, F) \in Query
<1>1. Table(f, F) \in Tables
  BY TableType
<1>2. JoinUniqueVisitorsByPeriod(F) \in Opt(Builder)
  BY JoinUniqueVisitorsByPeriodType
<1>3. {} \in Opt(Builder)
  BY EmptyOpt
<1>. QED
  BY <1>1, <1>2, <1>3 DEF BaseQuery, Query

LEMMA JoinOrLeftJoinEventsType ==
  ASSUME NEW f \in PlanFilter, NEW F \in SUBSET PlanFields, NEW q \in Query
  PROVE  JoinOrLeftJoinEvents(f, q, F) \in Query
<1>1. LeftJoinEvents(f, F) \in Opt(Builder) /\ JoinEvents(f, F) \in Opt(Builder)
  BY LeftJoinEventsType, JoinEventsType
<1>. QED
  BY <1>1 DEF JoinOrLeftJoinEvents, Query

LEMMA BuildQueryType ==
  ASSUME NEW f \in PlanFilter, NEW F \in SUBSET PlanFields
  PROVE  BuildQuery(f, F) \in Query
<1> DEFINE q == BaseQuery(f, F)
<1>1. q \in Query
  BY BaseQueryType
<1>2. q.from \in Tables
  BY <1>1 DEF Query
<1>3. CASE EventsQuery(f, F)
  <2>1. JoinSessions(f, "events", F) \in Opt(Builder)
    BY JoinSessionsType DEF Tables
  <2>. QED
    BY <1>1, <1>3, <2>1 DEF BuildQuery, Query, Tables
<1>4. CASE ~EventsQuery(f, F) /\ q.from = "events"
  <2>1. LeftJoinEvents(f, F) \in Opt(Builder)
    BY LeftJoinEventsType
  <2>2. F \ {"path"} \in SUBSET PlanFields
    OBVIOUS
  <2>. QED
    BY <1>1, <1>4, <2>1, <2>2 DEF BuildQuery, Query, Tables
<1>5. CASE ~EventsQuery(f, F) /\ q.from = "pageViews"
  <2>1. [q EXCEPT !.join = JoinSessions(f, q.from, F)] \in Query
    BY <1>1, <1>2, JoinSessionsType DEF Query
  <2>. QED
    BY <1>5, <2>1, JoinOrLeftJoinEventsType DEF BuildQuery
<1>6. CASE ~EventsQuery(f, F) /\ q.from \notin {"events", "pageViews"}
  <2>1. [q EXCEPT !.join = JoinPageViews(f, F)] \in Query
    BY <1>1, JoinPageViewsType DEF Query
  <2>. QED
    BY <1>6, <2>1, JoinOrLeftJoinEventsType DEF BuildQuery
<1>. QED
  BY <1>3, <1>4, <1>5, <1>6

(***************************************************************************)
(* Event-name filters reach event rows.                                    *)
(***************************************************************************)
LEMMA LeftJoinEventsShape ==
  ASSUME NEW f \in PlanFilter, NEW F \in SUBSET PlanFields
  PROVE  \E b \in LeftJoinEvents(f, F) :
           b.from = "events" /\ b.filter.eventName = {}
<1>1. EventsLeftJoinFilter(f).eventName = {}
  BY DEF EventsLeftJoinFilter, PlanFilter
<1>. QED
  BY <1>1 DEF LeftJoinEvents, SubQuery

LEMMA JoinEventsShape ==
  ASSUME NEW f \in PlanFilter, NEW F \in SUBSET PlanFields, f.eventName # {}
  PROVE  \E b \in JoinEvents(f, F) :
           b.from = "events" /\ b.filter.eventName = f.eventName
<1>1. EventsJoinFilter(f).eventName = f.eventName
  BY DEF EventsJoinFilter, PlanFilter
<1>. QED
  BY <1>1 DEF JoinEvents, SubQuery

LEMMA JoinOrLeftJoinEventsFilter ==
  ASSUME NEW f \in PlanFilter, NEW F \in SUBSET PlanFields, NEW q \in Query,
         q.filter = f
  PROVE  EventFilterOK(JoinOrLeftJoinEvents(f, q, F))
<1> DEFINE r == JoinOrLeftJoinEvents(f, q, F)
<1>1. r.filter = f
  BY DEF JoinOrLeftJoinEvents, Query
<1>2. CASE HasNegation(f.eventName)
  <2>1. r.includeEventFilter /\ r.leftJoin = LeftJoinEvents(f, F)
    BY <1>2 DEF JoinOrLeftJoinEvents, Query
  <2>. QED
    BY <1>1, <2>1, LeftJoinEventsShape DEF EventFilterOK
<1>3. CASE ~HasNegation(f.eventName)
  <2>1. r.joinSecond = JoinEvents(f, F)
    BY <1>3 DEF JoinOrLeftJoinEvents, Query
  <2>. QED
    BY <1>1, <1>3, <2>1, JoinEventsShape DEF EventFilterOK
<1>. QED
  BY <1>2, <1>3

LEMMA BuildQueryEventFilter ==
  ASSUME NEW f \in PlanFilter, NEW F \in SUBSET PlanFields
  PROVE  EventFilterOK(BuildQuery(f, F))
<1> DEFINE q == BaseQuery(f, F)
<1>1. q \in Query /\ q.filter = f
  BY BaseQueryType DEF BaseQuery
<1>2. CASE EventsQuery(f, F)
  <2>1. BuildQuery(f, F).from = "events"
        /\ BuildQuery(f, F).includeEventFilter
    BY <1>1, <1>2 DEF BuildQuery, Query
  <2>. QED
    BY <2>1 DEF EventFilterOK
<1>3. CASE ~EventsQuery(f, F) /\ q.from = "events"
  <2>1. /\ BuildQuery(f, F).filter = f
        /\ BuildQuery(f, F).includeEventFilter
        /\ BuildQuery(f, F).leftJoin = LeftJoinEvents(f, F)
    BY <1>1, <1>3 DEF BuildQuery, Query
  <2>. QED
    BY <2>1, LeftJoinEventsShape DEF EventFilterOK
<1>4. CASE ~EventsQuery(f, F) /\ q.from = "pageViews"
  <2> DEFINE q2 == [q EXCEPT !.join = JoinSessions(f, q.from, F)]
  <2>1. q2 \in Query /\ q2.filter = f
    BY <1>1, JoinSessionsType DEF Query, Tables
  <2>2. BuildQuery(f, F) = JoinOrLeftJoinEvents(f, q2, F)
    BY <1>4 DEF BuildQuery
  <2>. QED
    BY <2>1, <2>2, JoinOrLeftJoinEventsFilter
<1>5. CASE ~EventsQuery(f, F) /\ q.from \notin {"events", "pageViews"}
  <2> DEFINE q2 == [q EXCEPT !.join = JoinPageViews(f, F)]
  <2>1. q2 \in Query /\ q2.filter = f
    BY <1>1, JoinPageViewsType DEF Query
  <2>2. BuildQuery(f, F) = JoinOrLeftJoinEvents(f, q2, F)
    BY <1>5 DEF BuildQuery
  <2>. QED
    BY <2>1, <2>2, JoinOrLeftJoinEventsFilter
<1>. QED
  BY <1>2, <1>3, <1>4, <1>5

(***************************************************************************)
(* Session columns come from sessions.                                     *)
(***************************************************************************)
(* The columns a query on table t needs from sessions are those that make  *)
(* joinSessions build its sub-query, and that sub-query selects them.      *)
LEMMA JoinSessionsCovers ==
  ASSUME NEW f \in PlanFilter, NEW F \in SUBSET PlanFields, NEW t \in Tables,
         NEW col \in ({"entry_path", "exit_path", "bounces"} \cap F)
                     \cup (IF f.entryPath THEN {"entry_path"} ELSE {})
                     \cup (IF f.exitPath THEN {"exit_path"} ELSE {})
                     \cup (IF t = "events" THEN {"views"} \cap F ELSE {})
  PROVE  \E b \in JoinSessions(f, t, F) :
           b.from = "sessions" /\ col \in b.fields
<1>1. col \in SessionFields(f, F)
  BY DEF SessionFields, SessionGroupBy, SessionPathFields
<1>2. JoinSessions(f, t, F)
        = {SubQuery("sessions", SessionFields(f, F), SessionGroupBy(f, F),
                    [f EXCEPT !.sort = FALSE], "sessions_all" \in F)}
  BY DEF JoinSessions
<1>. QED
  BY <1>1, <1>2 DEF SubQuery

(* joinOrLeftJoinEvents leaves the table, fields, filter, join and period *)
(* join alone.                                                             *)
LEMMA JoinOrLeftJoinEventsKeeps ==
  ASSUME NEW f \in PlanFilter, NEW F \in SUBSET PlanFields, NEW q \in Query
  PROVE  LET r == JoinOrLeftJoinEvents(f, q, F)
         IN  /\ r.from = q.from /\ r.fields = q.fields
             /\ r.filter = q.filter /\ r.join = q.join
             /\ r.joinThird = q.joinThird
BY DEF JoinOrLeftJoinEvents, Query

LEMMA BuildQuerySessionColumns ==
  ASSUME NEW f \in PlanFilter, NEW F \in SUBSET PlanFields
  PROVE  SessionColumnsOK(BuildQuery(f, F))
<1> DEFINE q == BaseQuery(f, F)
           r == BuildQuery(f, F)
<1>1. q \in Query /\ q.filter = f /\ q.fields = F /\ q.from = Table(f, F)
  BY BaseQueryType DEF BaseQuery
<1>2. CASE EventsQuery(f, F)
  <2>1. r.from = "events" /\ r.fields = F /\ r.filter = f
        /\ r.join = JoinSessions(f, "events", F)
    BY <1>1, <1>2 DEF BuildQuery, Query
  <2>. QED
    BY <2>1, JoinSessionsCovers
    DEF SessionColumnsOK, SessionColumns, SessionColumnAvailable, Tables
<1>3. CASE ~EventsQuery(f, F) /\ q.from = "events"
  <2>1. r.from = "sessions"
    BY <1>1, <1>3 DEF BuildQuery, Query
  <2>. QED
    BY <2>1 DEF SessionColumnsOK, SessionColumnAvailable
<1>4. CASE ~EventsQuery(f, F) /\ q.from = "pageViews"
  <2> DEFINE q2 == [q EXCEPT !.join = JoinSessions(f, q.from, F)]
  <2>1. q2 \in Query
    BY <1>1, JoinSessionsType DEF Query, Tables
  <2>2. r = JoinOrLeftJoinEvents(f, q2, F)
    BY <1>4 DEF BuildQuery
  <2>3. r.from = "pageViews" /\ r.fields = F /\ r.filter = f
        /\ r.join = JoinSessions(f, "pageViews", F)
    BY <1>1, <1>4, <2>1, <2>2, JoinOrLeftJoinEventsKeeps DEF Query
  <2>. QED
    BY <2>3, JoinSessionsCovers
    DEF SessionColumnsOK, SessionColumns, SessionColumnAvailable, Tables
<1>5. CASE ~EventsQuery(f, F) /\ q.from \notin {"events", "pageViews"}
  <2> DEFINE q2 == [q EXCEPT !.join = JoinPageViews(f, F)]
  <2>1. q2 \in Query
    BY <1>1, JoinPageViewsType DEF Query
  <2>2. r = JoinOrLeftJoinEvents(f, q2, F)
    BY <1>5 DEF BuildQuery
  <2>3. q.from = "sessions"
    BY <1>1, <1>5, TableType DEF Tables
  <2>4. r.from = "sessions"
    BY <1>1, <2>1, <2>2, <2>3, JoinOrLeftJoinEventsKeeps DEF Query
  <2>. QED
    BY <2>4 DEF SessionColumnsOK, SessionColumnAvailable
<1>. QED
  BY <1>2, <1>3, <1>4, <1>5

(***************************************************************************)
(* The period join.  buildQuery keeps the joinThird of its base query and  *)
(* all fields but (in the sessions branch) "path".                         *)
(***************************************************************************)
Buckets == {"day", "minute", "hour"}

(* The field lists that name a time bucket whenever they ask for cr_period. *)
Bucketed ==
  {F \in SUBSET PlanFields : "cr_period" \in F => F \cap Buckets # {}}

LEMMA BuildQueryKeepsPeriod ==
  ASSUME NEW f \in PlanFilter, NEW F \in SUBSET PlanFields
  PROVE  LET r == BuildQuery(f, F)
         IN  /\ r.joinThird = JoinUniqueVisitorsByPeriod(F)
             /\ r.fields \in {F, F \ {"path"}}
<1> DEFINE q == BaseQuery(f, F)
           r == BuildQuery(f, F)
<1>1. q \in Query /\ q.fields = F /\ q.joinThird = JoinUniqueVisitorsByPeriod(F)
  BY BaseQueryType DEF BaseQuery
<1>2. CASE EventsQuery(f, F)
  BY <1>1, <1>2 DEF BuildQuery, Query
<1>3. CASE ~EventsQuery(f, F) /\ q.from = "events"
  BY <1>1, <1>3 DEF BuildQuery, Query
<1>4. CASE ~EventsQuery(f, F) /\ q.from = "pageViews"
  <2> DEFINE q2 == [q EXCEPT !.join = JoinSessions(f, q.from, F)]
  <2>1. q2 \in Query /\ q2.fields = F
        /\ q2.joinThird = JoinUniqueVisitorsByPeriod(F)
    BY <1>1, JoinSessionsType DEF Query, Tables
  <2>2. r = JoinOrLeftJoinEvents(f, q2, F)
    BY <1>4 DEF BuildQuery
  <2>3. /\ JoinOrLeftJoinEvents(f, q2, F).joinThird = q2.joinThird
        /\ JoinOrLeftJoinEvents(f, q2, F).fields = q2.fields
    BY <2>1, JoinOrLeftJoinEventsKeeps
  <2>. QED
    BY <2>1, <2>2, <2>3
<1>5. CASE ~EventsQuery(f, F) /\ q.from \notin {"events", "pageViews"}
  <2> DEFINE q2 == [q EXCEPT !.join = JoinPageViews(f, F)]
  <2>1. q2 \in Query /\ q2.fields = F
        /\ q2.joinThird = JoinUniqueVisitorsByPeriod(F)
    BY <1>1, JoinPageViewsType DEF Query
  <2>2. r = JoinOrLeftJoinEvents(f, q2, F)
    BY <1>5 DEF BuildQuery
  <2>3. /\ JoinOrLeftJoinEvents(f, q2, F).joinThird = q2.joinThird
        /\ JoinOrLeftJoinEvents(f, q2, F).fields = q2.fields
    BY <2>1, JoinOrLeftJoinEventsKeeps
  <2>. QED
    BY <2>1, <2>2, <2>3
<1>. QED
  BY <1>2, <1>3, <1>4, <1>5

(* The bucket the period join groups by is one the query selects.          *)
LEMMA PeriodGroupBySelected ==
  ASSUME NEW F \in Bucketed, "cr_period" \in F
  PROVE  PeriodGroupBy(F) \in F /\ PeriodGroupBy(F) # "path"
BY DEF Bucketed, Buckets, PeriodGroupBy

LEMMA BuildQueryPeriodBucket ==
  ASSUME NEW f \in PlanFilter, NEW F \in Bucketed
  PROVE  PeriodBucketOK(BuildQuery(f, F))
<1> DEFINE r == BuildQuery(f, F)
           b == SubQuery("sessions", {PeriodGroupBy(F), "visitors_raw"},
                         {PeriodGroupBy(F)}, PeriodFilter, FALSE)
<1>1. F \in SUBSET PlanFields
  BY DEF Bucketed
<1>2. r.joinThird = JoinUniqueVisitorsByPeriod(F) /\ r.fields \in {F, F \ {"path"}}
  BY <1>1, BuildQueryKeepsPeriod
<1> SUFFICES ASSUME "cr_period" \in r.fields
             PROVE  \E c \in r.joinThird : c.groupBy \subseteq r.fields
                                         /\ c.filter = PeriodFilter
  BY DEF PeriodBucketOK
<1>3. "cr_period" \in F
  BY <1>2
<1>4. PeriodGroupBy(F) \in F /\ PeriodGroupBy(F) # "path"
  BY <1>3, PeriodGroupBySelected
<1>5. r.joinThird = {b}
  BY <1>2, <1>3 DEF JoinUniqueVisitorsByPeriod
<1>6. b.groupBy \subseteq r.fields /\ b.filter = PeriodFilter
  BY <1>2, <1>4 DEF SubQuery
<1>. QED
  BY <1>5, <1>6

(***************************************************************************)
(* Every analysis call records BuildQuery results of catalog fields.       *)
(***************************************************************************)
LEMMA BuiltIntro ==
  ASSUME NEW g \in PlanFilter, NEW F \in SUBSET PlanFields
  PROVE  BuildQuery(g, F) \in Built
BY DEF Built

(* The field lists of the analysis methods are catalog fields.             *)
LEMMA MethodFields ==
  ASSUME NEW f \in PlanFilter
  PROVE  /\ SummaryFields(f, "cr") \subseteq PlanFields
         /\ \A b \in {"day", "hour", "minute"} :
              {b} \cup SummaryFields(f, "cr_period") \subseteq PlanFields
         /\ ReferrerFields(f) \subseteq PlanFields
         /\ {"hostname", "path", "visitors"}
              \cup (IF f.includeTitle THEN {"title"} ELSE {})
              \subseteq PlanFields
         /\ \A a \in Attributes :
              {a, "visitors", "relative_visitors"} \subseteq PlanFields
BY DEF SummaryFields, CustomMetricFields, ReferrerFields, Attributes,
       PlanFields

LEMMA TotalsFilterType ==
  ASSUME NEW f \in PlanFilter
  PROVE  TotalsFilter(f) \in PlanFilter
BY DEF TotalsFilter, PeriodFilter, PlanFilter

LEMMA InitIInv == Init => IInv
BY FiltersAssumption DEF Init, IInv

LEMMA NextIInv == IInv /\ [Next]_vars => IInv'
<1> SUFFICES ASSUME IInv, [Next]_vars PROVE IInv'
  OBVIOUS
<1>1. filter' = filter
  BY DEF Next, vars, Call, Active, Total, TotalVisitors, TotalPageViews,
         TotalSessions, TotalVisitorsPageViews, ByPeriod, ByHour, ByMinute,
         ByWeekdayAndHour, Growth, Referrer, Events, Breakdown, List,
         SelectByAttribute
<1> USE DEF IInv
<1>2. filter \in PlanFilter
  OBVIOUS
<1>3. /\ BuildQuery(filter, SummaryFields(filter, "cr")) \in Built
      /\ \A b \in {"day", "hour", "minute"} :
           BuildQuery(filter, {b} \cup SummaryFields(filter, "cr_period"))
             \in Built
      /\ BuildQuery(filter, ReferrerFields(filter)) \in Built
  BY <1>2, MethodFields, BuiltIntro
<1>4. \A F \in SUBSET PlanFields :
        BuildQuery(filter, F) \in Built
        /\ BuildQuery(TotalsFilter(filter), F) \in Built
  BY <1>2, TotalsFilterType, BuiltIntro
<1>5. CASE Active
  <2>1. {"hostname", "path", "visitors"}
          \cup (IF filter.includeTitle THEN {"title"} ELSE {})
          \subseteq PlanFields
    BY <1>2, MethodFields
  <2>2. {"visitors"} \subseteq PlanFields
    BY DEF PlanFields
  <2>. QED
    BY <1>1, <1>4, <1>5, <2>1, <2>2 DEF Active, Call
<1>6. CASE Total \/ Growth
  BY <1>1, <1>3, <1>6 DEF Total, Growth, Call
<1>7. CASE TotalVisitors \/ TotalPageViews \/ TotalSessions
  <2>1. {"visitors"} \subseteq PlanFields /\ {"views"} \subseteq PlanFields
        /\ {"sessions"} \subseteq PlanFields
    BY DEF PlanFields
  <2>. QED
    BY <1>1, <1>4, <1>7, <2>1
    DEF TotalVisitors, TotalPageViews, TotalSessions, Call
<1>8. CASE ByPeriod \/ ByHour \/ ByMinute
  BY <1>1, <1>3, <1>8 DEF ByPeriod, ByHour, ByMinute, Call
<1>9. CASE TotalVisitorsPageViews \/ ByWeekdayAndHour \/ Events
             \/ Breakdown \/ List
  <2>1. /\ {"visitors", "views"} \subseteq PlanFields
        /\ {"weekday", "hour", "visitors", "sessions", "views", "bounces"}
             \subseteq PlanFields
        /\ {"event_name", "count", "visitors", "views", "cr",
            "event_time_spent", "event_meta_keys"} \subseteq PlanFields
        /\ {"event_name", "count", "visitors", "views", "cr",
            "event_time_spent", "event_meta_values"} \subseteq PlanFields
        /\ {"event_name", "event_meta", "visitors", "count"}
             \subseteq PlanFields
    BY DEF PlanFields
  <2>. QED
    BY <1>1, <1>4, <1>9, <2>1
    DEF TotalVisitorsPageViews, ByWeekdayAndHour, Events, Breakdown, List,
        Call
<1>10. CASE Referrer
  BY <1>1, <1>3, <1>10 DEF Referrer, Call
<1>11. CASE SelectByAttribute
  BY <1>1, <1>2, <1>4, <1>11, MethodFields DEF SelectByAttribute, Call
<1>12. CASE UNCHANGED vars
  BY <1>12 DEF vars
<1>. QED
  BY <1>5, <1>6, <1>7, <1>8, <1>9, <1>10, <1>11, <1>12 DEF Next

(***************************************************************************)
(* Every analysis call plans only field lists that name a bucket with      *)
(* cr_period: ByPeriod, ByHour and ByMinute, the only methods that ask for *)
(* it, add day, hour or minute.                                            *)
(***************************************************************************)
BuiltBucketed == {BuildQuery(g, F) : g \in PlanFilter, F \in Bucketed}

BInv == queries \subseteq BuiltBucketed

LEMMA BucketedIntro ==
  ASSUME NEW F \in SUBSET PlanFields, "cr_period" \notin F \/ F \cap Buckets # {}
  PROVE  F \in Bucketed
BY DEF Bucketed

LEMMA MethodFieldsBucketed ==
  ASSUME NEW f \in PlanFilter
  PROVE  /\ SummaryFields(f, "cr") \in Bucketed
         /\ \A b \in Buckets : {b} \cup SummaryFields(f, "cr_period") \in Bucketed
         /\ ReferrerFields(f) \in Bucketed
         /\ {"hostname", "path", "visitors"}
              \cup (IF f.includeTitle THEN {"title"} ELSE {}) \in Bucketed
         /\ \A a \in Attributes : {a, "visitors", "relative_visitors"} \in Bucketed
<1>1. "cr_period" \notin SummaryFields(f, "cr")
  BY DEF SummaryFields, CustomMetricFields
<1>2. \A b \in Buckets : {b} \cup SummaryFields(f, "cr_period") \subseteq PlanFields
  BY MethodFields DEF Buckets
<1>3. "cr_period" \notin ReferrerFields(f)
  BY DEF ReferrerFields
<1>4. /\ "cr_period" \notin {"hostname", "path", "visitors"}
                             \cup (IF f.includeTitle THEN {"title"} ELSE {})
      /\ \A a \in Attributes : "cr_period" \notin {a, "visitors", "relative_visitors"}
  BY DEF Attributes
<1>. QED
  BY <1>1, <1>2, <1>3, <1>4, MethodFields DEF Bucketed

(* The field lists of the methods without cr_period, written out.          *)
LEMMA LiteralFieldsBucketed ==
  /\ {"visitors"} \in Bucketed /\ {"views"} \in Bucketed
  /\ {"sessions"} \in Bucketed /\ {"visitors", "views"} \in Bucketed
  /\ {"weekday", "hour", "visitors", "sessions", "views", "bounces"} \in Bucketed
  /\ {"event_name", "count", "visitors", "views", "cr", "event_time_spent",
      "event_meta_keys"} \in Bucketed
  /\ {"event_name", "count", "visitors", "views", "cr", "event_time_spent",
      "event_meta_values"} \in Bucketed
  /\ {"event_name", "event_meta", "visitors", "count"} \in Bucketed
BY DEF Bucketed, PlanFields

LEMMA BuiltBucketedIntro ==
  ASSUME NEW g \in PlanFilter, NEW F \in Bucketed
  PROVE  BuildQuery(g, F) \in BuiltBucketed
BY DEF BuiltBucketed

LEMMA InitBInv == Init => BInv
BY DEF Init, BInv

LEMMA NextBInv == IInv /\ BInv /\ [Next]_vars => BInv'
<1> SUFFICES ASSUME IInv, BInv, [Next]_vars PROVE BInv'
  OBVIOUS
<1>1. filter \in PlanFilter
  BY DEF IInv
<1>2. \A F \in Bucketed :
        /\ BuildQuery(filter, F) \in BuiltBucketed
        /\ BuildQuery(TotalsFilter(filter), F) \in BuiltBucketed
  BY <1>1, TotalsFilterType, BuiltBucketedIntro
<1>3. /\ SummaryFields(filter, "cr") \in Bucketed
      /\ \A b \in Buckets : {b} \cup SummaryFields(filter, "cr_period") \in Bucketed
      /\ ReferrerFields(filter) \in Bucketed
      /\ {"hostname", "path", "visitors"}
           \cup (IF filter.includeTitle THEN {"title"} ELSE {}) \in Bucketed
      /\ \A a \in Attributes : {a, "visitors", "relative_visitors"} \in Bucketed
  BY <1>1, MethodFieldsBucketed
<1>4. CASE Active
  <2>. DEFINE Pages == {"hostname", "path", "visitors"}
                        \cup (IF filter.includeTitle THEN {"title"} ELSE {})
  <2>1. queries' = {BuildQuery(filter, Pages), BuildQuery(filter, {"visitors"})}
    BY <1>4 DEF Active, Call
  <2>2. Pages \in Bucketed /\ {"visitors"} \in Bucketed
    BY <1>3, LiteralFieldsBucketed
  <2>. QED
    BY <1>2, <2>1, <2>2 DEF BInv
<1>11. CASE Total \/ Referrer
  BY <1>2, <1>3, <1>11 DEF Total, Referrer, Call, BInv
<1>9. CASE Growth
  <2>1. queries' \subseteq {BuildQuery(filter, SummaryFields(filter, "cr"))}
    BY <1>9 DEF Growth, Call
  <2>. QED
    BY <1>2, <1>3, <2>1 DEF BInv
<1>10. CASE SelectByAttribute
  BY <1>2, <1>3, <1>10 DEF SelectByAttribute, Call, BInv
<1>5. CASE TotalVisitors \/ TotalPageViews \/ TotalSessions
           \/ TotalVisitorsPageViews \/ ByWeekdayAndHour
  BY <1>2, <1>5, LiteralFieldsBucketed
  DEF TotalVisitors, TotalPageViews, TotalSessions, TotalVisitorsPageViews,
      ByWeekdayAndHour, Call, BInv
<1>6. CASE ByPeriod \/ ByHour \/ ByMinute
  <2>1. {"day", "hour", "minute"} \subseteq Buckets
    BY DEF Buckets
  <2>. QED
    BY <1>2, <1>3, <1>6, <2>1 DEF ByPeriod, ByHour, ByMinute, Call, BInv
<1>7. CASE Events \/ Breakdown \/ List
  BY <1>2, <1>7, LiteralFieldsBucketed DEF Events, Breakdown, List, Call, BInv
<1>8. CASE UNCHANGED vars
  BY <1>8 DEF vars, BInv
<1>. QED
  BY <1>4, <1>5, <1>6, <1>7, <1>8, <1>9, <1>10, <1>11 DEF Next

(***************************************************************************)
(* The theorems.                                                           *)
(***************************************************************************)
(* The planner only produces well-formed queries: a FROM table of the      *)
(* three, catalog fields, and each join nil or one sub-query (buildQuery,  *)
(* table and the join* methods, for every analysis method).                *)
THEOREM QueryPlanTypeOK == Spec => []TypeOK
<1>1. IInv => TypeOK
  BY BuildQueryType DEF IInv, TypeOK, Built
<1>. QED
  BY InitIInv, NextIInv, <1>1, PTL DEF Spec

(* For every filter and every analysis method, an event-name filter is     *)
(* applied to event rows, and a negated name only through the left join    *)
(* (buildQuery's branches and joinOrLeftJoinEvents).                       *)
THEOREM EventFilterAppliedTheorem == Spec => []EventFilterApplied
<1>1. IInv => EventFilterApplied
  BY BuildQueryEventFilter DEF IInv, EventFilterApplied, Built
<1>. QED
  BY InitIInv, NextIInv, <1>1, PTL DEF Spec

(* For every filter and every analysis method, each entry/exit path,       *)
(* bounces or event-query views column is read from the sessions table or *)
(* the joinSessions sub-query (table and joinSessions agree).              *)
THEOREM SessionColumnsJoinedTheorem == Spec => []SessionColumnsJoined
<1>1. IInv => SessionColumnsJoined
  BY BuildQuerySessionColumns DEF IInv, SessionColumnsJoined, Built
<1>. QED
  BY InitIInv, NextIInv, <1>1, PTL DEF Spec

(* For every filter and every analysis method, a query that asks for the   *)
(* conversion rate per period (cr_period) joins the unfiltered visitors    *)
(* grouped by a time bucket the query itself selects                       *)
(* (joinUniqueVisitorsByPeriod and the field lists of ByPeriod, ByHour and *)
(* ByMinute).                                                              *)
THEOREM PeriodBucketMatchesTheorem == Spec => []PeriodBucketMatches
<1>1. BInv => PeriodBucketMatches
  BY BuildQueryPeriodBucket DEF BInv, BuiltBucketed, PeriodBucketMatches
<1>2. IInv /\ BInv /\ [Next]_vars => IInv' /\ BInv'
  BY NextIInv, NextBInv
<1>. QED
  BY InitIInv, InitBInv, <1>1, <1>2, PTL DEF Spec

=============================================================================
