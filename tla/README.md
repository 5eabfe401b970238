# TLA+ models of pirsch's analyzer

This directory holds TLA+ models of the `pkg/analyzer` package of pirsch
(`src/pkg/analyzer/{analyzer,filter,visitors,events}.go`). It includes TLC
configurations that check the models on small instances, and TLAPS proofs
of the query planner's main invariants, of the previous-period bound and of
the refinement of the atomic `getFilter`, for all values of the constants.
`PROJECT.json` maps every model definition to the source lines it translates.
It also lists every run, mutant, finding and hazard.

## The system and its parts

An analysis call (`Visitors.Total`, `Visitors.ByPeriod`, `Events.Breakdown`,
...) runs these steps:

1. `Analyzer.getFilter` (analyzer.go:97) validates the caller's `Filter` and
   copies it. `Filter.validate` (filter.go:535) does the validation:
   - truncates the time range to days unless `IncludeTime` is set;
   - swaps an inverted range;
   - splits the range at `ImportedUntil`;
   - clamps `To` to tomorrow;
   - normalises the options;
   - deduplicates the Path, PathPattern and Country lists.
2. `Growth` also derives the previous period with `getPreviousPeriod`
   (visitors.go:530).
3. The method picks its field list and calls `Filter.buildQuery`
   (filter.go:670). `buildQuery` does two things:
   - it chooses the FROM table (`table`, filter.go:730), or the events table
     for event queries;
   - it attaches up to four sub-queries: `join` (sessions or page views),
     `joinSecond` (events), `leftJoin` (events, for negated event names) and
     `joinThird` (the CR-period denominator).
4. The queryBuilder renders SQL and the store runs it. Neither is under
   `src/`, so neither is modelled.

Nothing in the package runs concurrently on its own. A call is one
sequential pass, and calls share no mutable state except two things:
- the caller's `Filter`, which `getFilter` mutates in place, and which
  `Filter.Equal` sorts in place;
- the clock (`util.Today()`, `time.Now()`), which `validate` and
  `getPreviousPeriod` read at different moments of one `Growth` call.

## Modules

| Module | Models | State | Actions |
|---|---|---|---|
| `Filter` | `validate` and its helpers, `getFilter`, `getPreviousPeriod` | `request` (the caller's Filter before the call), `filter` (the caller's struct after it), `copy` (what getFilter returns), `current`/`phase` (the last call) | `GetFilter` (one analysis call), `PreviousPeriod` (Growth's second filter) |
| `MCFilter` | TLC instance of `Filter`: day length 2, today 20, two paths, four country codes; request sets per run, and a first-occurrence reference for the list deduplication | | |
| `SharedFilter` | `getFilter` on a `*Filter` that several goroutines pass to analysis calls, one statement of `validate` per step | `shared` (the caller's struct), `pc` (each goroutine's statement), `committed`/`last`/`published` (history for the refinement) | `Call`, `NormalizeFrom`, `NormalizeTo`, `CheckRange`, `SwapRange`, `Import`, `Clamp`, `Rest`, `Copy` |
| `MCSharedFilter` | TLC instance: one or two goroutines, ranges around today and the cut-off | | |
| `SharedFilterProofs` | TLAPS proofs that one goroutine refines `Filter`'s atomic `getFilter`, and that any number of goroutines sharing a filter `validate` leaves alone never change it | | |
| `FilterEqual` | `Filter.Equal` with its in-place sorts and early returns | `request` (the holders' filters as built), `filters` (the `*Filter`s), `answer` (each comparison's result) | `Equal(x, y)` |
| `MCFilterEqual` | TLC instance: two holders; Path, Search and Sort lists of up to two entries | | |
| `GrowthClock` | `Growth`'s `getFilter` and `getPreviousPeriod` against a moving clock | `Filter`'s variables, `today`, `now`, `calledOn` (the day `getFilter` ran) | `Call`, `Previous`, `Tick` |
| `MCGrowthClock` | TLC instance: day length 2, the clock from instant 20 (a midnight) to instant 24 (the midnight two days later) | | |
| `GrowthClockProofs` | TLAPS proof that `Growth` loses the time of day of "today" only when midnight passes mid-call | | |
| `FilterProofs` | TLAPS proofs about `Filter`'s time fields, options, reuse and previous period | | |
| `QueryPlan` | `table`, `buildQuery`, every `join*` method and the field list of each analysis method | `filter` (an abstraction of the validated Filter: one boolean per dimension, event-name sets, search fields), `queries` (the set of plans the last call built) | one action per method: `Active`, `Total`, `TotalVisitors`, `TotalPageViews`, `TotalSessions`, `TotalVisitorsPageViews`, `ByPeriod`, `ByHour`, `ByMinute`, `ByWeekdayAndHour`, `Growth`, `Referrer`, `Events`, `Breakdown`, `List`, `SelectByAttribute` |
| `MCQueryPlan` | TLC instance: a positive and a negated event name, and every combination of the relevant filter dimensions | | |
| `QueryPlanProofs` | TLAPS proofs about `QueryPlan` | | |

How the models abstract the code:
- **Time.** Times are naturals, and a day is `Day` units. `ToDate`
  truncates to a multiple of `Day`, and 0 is Go's zero time. The time zone
  is UTC. The order of `validate`'s steps is kept exactly, because the
  findings depend on it.
- **Lists.** A list is a sequence over a small set of values. A search
  entry records only whether it is padded.
- **Fields.** Field names are the catalog's names, as strings. Filter
  dimensions are booleans where only their presence matters.
- **Event names.** They are model values; `NegatedNames` are those that
  start with `!`.
- **Plans.** A plan is a record: table, fields, filter, and each join slot
  as the empty set (nil) or a one-element set.
- **Goroutines.** In `SharedFilter`, each time-range statement of
  `validate` (lines 544-582) is its own step, because each one reads fields
  that another goroutine may be writing. The option and list statements
  after the clamp are one step: each rewrites a field from itself alone.
- **Sorting.** `Equal` sorts with `slices.Sort`/`SortFunc`. For at most
  twelve entries that is insertion sort, which is stable, so the model sorts
  by insertion. Path stands for the twenty-four string lists. Search and
  Sort keep their comparators, which look at one key (Input, Direction).
- **The clock.** `Filter` takes today and now as constants. `GrowthClock`
  instantiates `Filter` at each step with the clock as it reads then
  (`Clock(t, n) == INSTANCE Filter WITH Today <- t, Now <- n`), and `Tick`
  advances it by one unit up to `LastNow`.
- **Method actions.** Each action is the whole method up to the store call:
  its guards and early returns (such as `Breakdown` with no event name or no
  meta key, and `TotalVisitorsPageViews` without a period) and every
  `buildQuery` it makes, including the `TotalsFilter` copy that the totals
  queries use.

## Runs

All runs are listed in `PROJECT.json`. Passing runs:

- **`filter`** (`MCFilter.cfg`). It covers every range whose ends are
  zero, before today, today, tomorrow or after tomorrow, with and without
  time of day and import cut-offs. It also covers list dimensions with
  duplicates and malformed country codes. It checks:
  - `TypeOK`;
  - `PreviousPeriodBefore` and `PreviousPeriodSameLength`: the previous
    period has the same length and ends before the current one starts;
  - `ListsMatchReference`: deduplication keeps first occurrences, drops
    malformed country codes, and a Path clears PathPattern;
  - `RevalidateKeepsRange` (an action property): `getFilter` validates the
    caller's struct in place, so a filter reused for a later call is
    validated again. That step keeps an ordered range where the first call
    left it.
- **`query_plan`** (`MCQueryPlan.cfg`; 585,216 states). This run covers
  every method against every filter combination. It checks:
  - `EventFilterApplied`: an event-name filter is applied only to event
    rows, and a negated name only through the left join;
  - `SessionColumnsJoined`: entry/exit path, bounces and the views of an
    event query are read from sessions or the sessions join;
  - `PeriodBucketMatches`: the CR-period denominator groups by the outer
    query's time bucket.
- **`filter_equal`** (`MCFilterEqual.cfg`; EqualDecidesUpToOrder). When no
  two Search entries share an Input and no two Sort entries share a
  Direction, every answer of `Equal` says whether the filters as built agree
  on the scalars and on the lists up to order. This holds in either
  direction and after any earlier in-place sorts.
- **`growth_clock`** (`MCGrowthClock.cfg`; 173 states;
  TodayMissedOnlyAcrossMidnight). `Growth` calls run while the clock
  crosses two midnights, over today's single day with and without imported
  data, a week ending today, an inverted and a two-day range. A call over
  the one-day period of the day `getFilter` ran on compares with a week
  before up to the same time of day, unless midnight passed before
  `getPreviousPeriod` read `util.Today()` (visitors.go:539). In that case
  the day is over and the whole day a week before is the right comparison.
  So reading the clock a second time is harmless: only the `IncludeTime`
  flag differs, and it differs correctly.

Each property of a passing run has a mutant: a plausible bug in the mapped
definition (a dropped guard, a missing reset, a wrong default) that TLC
must catch.

Violation runs each check one property that the spec or a code comment
states. TLC finds every one of them violated by the code. The findings
behind them:

| Run | Where | What the code does |
|---|---|---|
| `filter_range_ordered` | filter.go:580 | The clamp runs after the swap, so a range after tomorrow ends up with From > To. |
| `filter_imported_single_day` | filter.go:565 | From = To = ImportedUntil imports nothing. |
| `shared_filter_race` | analyzer.go:102 | `getFilter` validates the caller's Filter in place before copying it. Two goroutines both pass the inverted-range test (filter.go:560) before either swaps, so the second swap undoes the first and a copy comes out inverted. |
| `equal_ignores_order` | filter.go:470 | The Search comparator looks at Input only. Two Search entries with the same Input on different Fields keep the caller's order, so filters listing them in the two orders are not `Equal`. The property leaves Sort out: its order is the ORDER BY priority, so for Sort a different order rightly makes filters differ. |
| `equal_structural` | filter.go:257 | `simpleCmp` ignores WeekdayMode, so filters for weeks starting Monday and Sunday are `Equal`. |
| `plan_events_table` | filter.go:687 | The events table is used when only the custom-metric key (or only the type) is set. |
| `plan_search_sessions` | filter.go:772 | A search on the entry/exit path gets no sessions join. |
| `plan_event_subquery` | filter.go:941 | The left-joined events sub-query keeps the Path/AnyPath filter that joinEvents clears. |

### Bounds

`Filter` uses `Day = 2`, so a range can start or end mid-day and a time of
day is representable. Today is 20, well past a week, so a week or more
before today is still positive. Today is 20, Now is 21 and Tomorrow is 22,
so "today", "tomorrow" and "after tomorrow" are distinct. The request sets
contain every combination of these points with `IncludeTime` and
`ImportedUntil`, which covers each branch of `validate` and
`getPreviousPeriod`.

`QueryPlan` enumerates every combination of the dimensions that some
branch of `table` or of a join reads. Dimensions that no branch
distinguishes from another dimension are fixed:
- `ExitPath` behaves like `EntryPath`;
- `Tags` behaves like `Tag`;
- `EventMeta` behaves like `EventMetaKey`;
- `Sort` and `IncludeTitle` only add columns.

`SharedFilter` uses inverted ranges without a cut-off, which one
`validate` orders for good. Two goroutines are enough for the race.
`FilterEqual` uses lists of at most two entries over two values. That is
enough for a tie, a reordering and an early return after the first list,
and it stays far below insertion sort's limit of twelve. Its passing run
fixes WeekdayMode, which `Equal` ignores (see its finding), to keep the
run short. `GrowthClock` runs the clock from instant 20 to instant 24 (a day is
2, so the days start at 20, 22 and 24). Midnight can thus pass between any
two steps of a call, twice in a run. The requests ask for today's single
day as a date, alone and with a cut-off before, on and after it, and for
a week, an inverted range and a two-day range. Together they reach both
branches of the today test and the re-validation at `ImportedUntil`.

One positive and one negated event name cover both `joinOrLeftJoinEvents`
branches. The planner has no counters, so there are no bounds beyond these
finite sets.

### Fairness and liveness

None. Every analysis call is a single sequential, terminating pass. It
does not wait on other calls and makes no retries, and a store error is
returned at once. Nothing in the code makes a step happen eventually. A
goroutine's `getFilter` is straight-line code, and the Go scheduler gives no
fairness a model could rely on. So every property is a safety property,
and no fairness is assumed.

## What is proved

`QueryPlanProofs` proves the following for all event-name sets and all
admissible filter sets. It assumes only `NegatedNames \subseteq EventNames`
and `Filters \subseteq PlanFilter`.

- `QueryPlanTypeOK`: `Spec => []TypeOK`. Every plan has a table of the
  three, catalog fields, and at most one sub-query per slot.
- `EventFilterAppliedTheorem`: `Spec => []EventFilterApplied`.
- `SessionColumnsJoinedTheorem`: `Spec => []SessionColumnsJoined`.
- `PeriodBucketMatchesTheorem`: `Spec => []PeriodBucketMatches`.

The argument:
- **The inductive invariant.** `IInv`: the filter is admissible, and every
  recorded plan is `BuildQuery(g, F)` for some filter `g` and some set `F`
  of catalog fields. `Init` establishes it, and each of the sixteen method
  actions preserves it. Each action records only `BuildQuery` results of its
  own field lists, and those lists are sets of catalog fields (lemma
  `MethodFields`, with `TotalsFilterType` for the totals copy).
- **Lemmas about `BuildQuery`.** Lemmas about `BuildQuery` then hold for
  every filter and every field set:
  - `BuildQueryType`;
  - `BuildQueryEventFilter`, with one case per `buildQuery` branch, resting
    on `JoinEventsShape`, `LeftJoinEventsShape` and
    `JoinOrLeftJoinEventsFilter`;
  - `BuildQuerySessionColumns`, resting on `JoinSessionsCovers` and the fact
    that `joinOrLeftJoinEvents` does not touch the join slot.
- **Why a strengthening is needed.** The properties are stated on
  `queries`, but the step preserves them only because every element comes
  from `BuildQuery`.

`PeriodBucketMatches` is **not** true of `BuildQuery` for every field set.
For example, `{"cr_period"}` alone would group by hour, a bucket the query
does not select. Its proof therefore needs a second strengthening:
- **`BInv`.** Every recorded plan is `BuildQuery(g, F)` with `F` in
  `Bucketed`: if `F` holds `cr_period`, it also holds day, minute or hour.
- **Why the methods keep it.** Only `ByPeriod`, `ByHour` and `ByMinute` ask
  for `cr_period`, and each adds its bucket (`MethodFieldsBucketed`,
  `LiteralFieldsBucketed`).
- **Why it suffices.** `BuildQuery` keeps the `joinUniqueVisitorsByPeriod`
  slot of its field list, and it drops at most `path` from the fields
  (`BuildQueryKeepsPeriod`). `PeriodGroupBy` picks a bucket of the list
  (`PeriodGroupBySelected`). So the bucket the sub-query groups by is
  selected by the outer query (`BuildQueryPeriodBucket`).

`SharedFilterProofs` proves `SequentialGetFilterAtomic`. When `Goroutines`
is a single goroutine, `Spec => AtomicGetFilter`, where `AtomicGetFilter`
is `Filter`'s `Spec` under the refinement mapping:
- `filter` is the struct as the last copy saw it (`committed`);
- `copy` and `current` are the last copy taken (`last`);
- `phase` is "current" once some copy has been taken.

The inductive invariant `IInv(g)` names, for each statement the goroutine
is at, which prefix of `validate` the shared struct has been through
(`StateOf`). Each statement then maps to a stutter, and the copy maps to
`GetFilter`. The proof needs only the hypothesis `RequestsTyped`
(`Requests \subseteq FilterType`) and the
domain of the record; it never reasons about what the deduplication
computes. With two goroutines the refinement fails (`shared_filter_race`).

`FilterProofs` proves these theorems for every day length, today and time
of day that the assumptions allow:
- `TimeTypeCorrect`: `Spec => []TimeTypeOK`;
- `OptionsValidatedTheorem`: `Spec => []OptionsValidated`, the options
  conjunct of `TypeOK`;
- `PreviousPeriodBeforeTheorem`: `Spec => []PreviousPeriodBefore`;
- `RevalidateKeepsRangeTheorem`: `Spec => RevalidateKeepsRange`, the
  action property;
- `PreviousPeriodSameLengthTheorem`: `Spec => []PreviousPeriodSameLength`,
  under the hypothesis `CallerRequests` (below).

The invariant `IInv` needs two strengthenings:
- the copy equals `current` after `GetFilter`, and equals
  `GetPreviousPeriod(current)` after `PreviousPeriod`;
- all three filters have integer time fields.

The argument has three parts:
- Every branch of `getPreviousPeriod`'s shift ends before the range's
  effective start (`PreviousRangeBefore`). This uses `Week > Day > 0` and
  `Now - Week < Today`, which follow from the assumptions on the constants.
- Each stage of `validate` keeps the time fields integers and never moves
  `To` past a bound that both ends were below (`TruncateStage` ...
  `OptionsStage`, composed in `ValidateBound`).
- So the shift stays before the range when it is re-validated at the
  cut-off (`GetPreviousPeriodBefore`).

The proof holds even without `Ordered(current)`.

`OptionsValidated` needs the invariant `OInv`: Offset and Limit are
integers in all three filters, which the callers' `FilterType` gives. The
time stages of `validate` leave the options alone
(`TimeStagesKeepOptions`), and `NormalizeOptions` brings them into range
(`ValidateOptions`). `getPreviousPeriod` only moves the range, and when it
re-validates, the options are brought into range again
(`GetPreviousPeriodOptions`).

The action property needs a second invariant, `RInv`: once `getFilter` has
run, the caller's filter is `Settled`. TLC checked `Settled` as an
invariant of the `filter` run before it was proved. `Settled` says:
- both ends are dates, unless `IncludeTime` is set or `From` was moved up
  to `ImportedUntil`;
- `To` is at most tomorrow;
- the range does not straddle `ImportedUntil`.

The argument has two lemmas:
- `ValidateSettled`: every result of `validate` is settled. It goes stage
  by stage, with `ToDateFacts` for the arithmetic of `toDate`.
- `RevalidateFixesRange`: `validate` keeps the range of a settled, ordered
  filter. Truncation can only move a `From` that sits at a cut-off inside
  a day. In that case `To` is at or after the cut-off, so the split moves
  `From` back up to it.

The proof covers cut-offs at any time of day, which the TLC instance does
not enumerate.

`PreviousPeriodSameLength` needs more than the model's assumptions. It is
proved for filters as callers construct them (`CallerRequests` in
`Filter`), and each part of that hypothesis is needed:
- **`importedFrom` is zero.** The field is unexported, so code outside the
  package cannot set it. A stale value would move the effective start of
  the shifted range.
- **`ImportedUntil` is a date.** The spec calls it a cut-off date. With a
  cut-off inside a day, the re-validation truncates the shifted range, and
  its length changes. TLC finds such a state when the `filter` run's
  cut-offs are moved to odd values (hazard at filter.go:572).
- **Every time is `RecentTime`.** Twice its date is past tomorrow plus a
  day. Otherwise a shifted range could begin exactly at the zero time.
  `getPreviousPeriod` (visitors.go:534) takes a zero `importedFrom` for
  unset, so the split start would be lost. Go's zero time is the year 1,
  so any date after about the year 1014 satisfies this.

`MCFilter` assumes `CallerRequests` (`FilterRequestsFromCallers`), so TLC
confirms that the `filter` run's requests satisfy it.

The proof adds the invariant `LInv`: the caller's filter is
`ImportedSet` and `Recent`, and once `getFilter` has run, `current` is
that filter. `ImportedSet` says that a nonzero `importedFrom` lies before
a nonzero cut-off date, is itself a date, and that then `From` is the
cut-off or the whole range lies before it. `validate` keeps it
(`ValidateImported`), and also keeps `Recent` (`ValidateRecent`).
`PreviousRangeLength` shows that the shift of a range of dates is a range
of dates of the same length, which starts at the zero time only when it
is empty. `GetPreviousPeriodSameLength` then follows the re-validation
through its three split cases. TLC checked `LInv` as an invariant of the
`filter` run before it was proved.

`SharedFilterProofs` also proves `ValidatedReuseRaceFreeTheorem`, for
**any number** of goroutines:
`Spec => []ValidatedReuseRaceFree`, the other side of the
`shared_filter_race` finding. Goroutines that share a filter which
`validate` leaves as it is never see the caller's struct change, and every
`getFilter` returns that filter. The hypotheses are:
- `FilterClock`: `Filter`'s assumptions on `Day` and `Today`. The instance
  `F` keeps them from the prover, so they are restated.
- `RequestsTyped`.
- `ReusedRequests`: `Validate(r) = r`, the cut-off is a date, and the
  cut-off is no later than tomorrow (imported statistics are of past days).

Both conditions on the cut-off are needed. On `MCSharedFilter`'s
constants, TLC finds a violation in each case:
- **A cut-off inside a day.** A filter whose `From` sits at that cut-off
  is a fixed point of `validate`, but the truncation statement moves
  `From` to midnight before the split moves it back. A copy taken between
  the two sees midnight.
- **A cut-off after tomorrow.** The fixed point is an inverted range.
  Validating it swaps the range and clamps it back, so even one goroutine
  leaves the struct changed between statements.

The argument is `FixedPointSteps`. From `Validate(r) = r`, every statement
of `validate` applied to `r` gives `r` back:
- both ends are dates (each comes from a truncation, the cut-off or
  tomorrow);
- the range is not inverted (an inverted fixed point needs a cut-off past
  tomorrow);
- the split and the clamp give `r` back;
- so do the options and list statements. This is read off `Validate(r) = r`
  itself, with no reasoning about the recursive deduplication.

The invariant `SInv` then says that the struct, the last copy and the
history are the caller's filter, and that no goroutine is at the swap.

`GrowthClockProofs` proves `GrowthMissesTodayOnlyAcrossMidnight`:
`Spec => []TodayMissedOnlyAcrossMidnight`, for every day length and first
midnight. It assumes only that `Start` is a midnight and that the
requests are `FilterType` records.
- **What it says.** Take a `Growth` over the one-day period of the day
  `getFilter` ran on. If it compares with a whole day rather than up to the
  same time of day, the clock has moved on to a later day.
- **How it relates to the run.** `growth_clock` checks the same
  property on the instance above; the theorem holds for every day length
  and first midnight. It also holds across the re-validation at
  `ImportedUntil`, which keeps `IncludeTime` (`ValidateKeepsIncludeTime`,
  `PreviousOfTodayIncludesTime`).
- **The invariant `GInv`.** It adds that `today` is the date of `now`,
  that `calledOn <= today`, and that the copy equals `current` until
  `getPreviousPeriod` runs. `util.Today()` never goes back
  (`ToDateMonotone`).

`ValidatedReuseRaceFree` is not a property of a run. Its module's run is
the violation run of the `shared_filter_race` finding, which checks one
property. The theorem covers every instance.

Only model-checked, and not proved:
- `Filter`'s `TypeOK` list conjunct and `ListsMatchReference`. The list
  types come from the recursive deduplication. `TimeTypeCorrect` and
  `OptionsValidatedTheorem` prove the other conjuncts;
- `EqualDecidesUpToOrder` (it is about sorting, which is recursive);
- `PreviousPeriodSameLength` for filters outside `CallerRequests`. Those
  are inputs callers cannot construct, or that the spec rules out.

`Filter`'s list deduplication is recursive, and its properties are
checked against a reference over bounded inputs. TLAPS cannot prove what a
recursive definition computes for every input, and it cannot prove
liveness or anything about `ENABLED`; the models have neither.

## Not modelled

- **The SQL.** The queryBuilder, the predicate compiler (`whereFields`) and
  the field catalog's SQL expressions are not under `src/`. The model keeps
  only what the planner hands them.
- **Results.** The store and the result models are I/O and plain data.
- **Derived metrics.** `calculateGrowth` and the time-spent queries
  (`totalSessionDuration`, ...) format SQL text.
- **Time zones.** Time zones and `Now()` in a non-UTC location are not
  modelled; validation runs in UTC in the model.
- **Vendored code.** The vendored ClickHouse driver is generated
  third-party code.

- **`Filter.Empty`.** It changes no state, and nothing under `src/` calls
  it.
- **The cut-off's time of day.** The spec calls `ImportedUntil` a cut-off
  date, so it is given midnight values only (hazard at filter.go:572).

## Plan for later work

- The remaining `validate` options (sample and funnel steps).
- The midnight between `util.Today()` and `time.Now()` inside
  `getPreviousPeriod` (visitors.go:539-541), as two steps of `GrowthClock`.
- A passing run for `ValidatedReuseRaceFree`, once a run slot is free.
- `Growth`'s three-query protocol with the previous-period filter composed
  with `QueryPlan`.
