---------------------------- MODULE SharedFilter ----------------------------
(***************************************************************************)
(* One *Filter passed by its caller to analysis methods that run in        *)
(* several goroutines (spec section 5: "concurrent reuse across calls").   *)
(* Each call runs Analyzer.getFilter (analyzer.go:97-105): validate() on   *)
(* the shared struct, statement by statement, then filterCopy := *filter. *)
(* The time-range statements of validate are separate steps, since each    *)
(* reads the struct another goroutine may be writing; the options and list *)
(* statements after the clamp are one step (each rewrites a field from     *)
(* itself, so their order among goroutines does not matter).               *)
(*                                                                         *)
(* The atomic getFilter of module Filter is the abstract specification:    *)
(* the filter the abstract step validates is the struct as the last copy   *)
(* saw it, and the abstract copy is the last copy taken.                   *)
(***************************************************************************)
EXTENDS Integers, Sequences

CONSTANTS
  Day, Today, Now, Values, Codes, Texts, Requests,   \* as in Filter
  Goroutines    \* the goroutines that share the caller's *Filter

VARIABLES
  request,     \* the Filter as the caller constructed it (history)
  shared,      \* the caller's *Filter, which every goroutine validates
  pc,          \* the statement of getFilter each goroutine is at
  committed,   \* the struct as the last filterCopy saw it (history)
  last,        \* the copy the last getFilter returned
  published    \* whether some getFilter has returned

vars == <<request, shared, pc, committed, last, published>>

F == INSTANCE Filter WITH filter <- committed, copy <- last,
                          current <- last,
                          phase <- IF published THEN "current" ELSE "idle"

(* The callers construct Filter records.                                   *)
RequestsTyped == Requests \subseteq F!FilterType

Steps == {"idle", "from", "to", "check", "swap", "import", "clamp", "rest",
          "copy"}

Init ==
  /\ request \in Requests
  /\ shared = request
  /\ pc = [g \in Goroutines |-> "idle"]
  /\ committed = request
  /\ last = request
  /\ published = FALSE

(* A statement of goroutine g at pc from that rewrites the shared struct. *)
Exec(g, from, to, f) ==
  /\ pc[g] = from
  /\ shared' = f
  /\ pc' = [pc EXCEPT ![g] = to]
  /\ UNCHANGED <<request, committed, last, published>>

(* An analysis method calls getFilter with the caller's filter.            *)
Call(g) ==
  /\ pc[g] = "idle"
  /\ pc' = [pc EXCEPT ![g] = "from"]
  /\ UNCHANGED <<request, shared, committed, last, published>>

(* validate, lines 544-550: From to its date (or to UTC).                 *)
NormalizeFrom(g) ==
  Exec(g, "from", "to",
       [shared EXCEPT !.from = F!NormalizeTime(@, shared.includeTime)])

(* validate, lines 552-558: To to its date (or to UTC).                   *)
NormalizeTo(g) ==
  Exec(g, "to", "check",
       [shared EXCEPT !.to = F!NormalizeTime(@, shared.includeTime)])

(* validate, line 560: the test for an inverted range.                    *)
CheckRange(g) ==
  /\ pc[g] = "check"
  /\ pc' = [pc EXCEPT ![g] = IF shared.to # F!Zero /\ shared.from > shared.to
                             THEN "swap" ELSE "import"]
  /\ UNCHANGED <<request, shared, committed, last, published>>

(* validate, line 561: From, To = To, From, with the values read now.     *)
SwapRange(g) ==
  Exec(g, "swap", "import",
       [shared EXCEPT !.from = shared.to, !.to = shared.from])

(* validate, lines 564-575: the split at ImportedUntil.                    *)
Import(g) == Exec(g, "import", "clamp", F!SplitImported(shared))

(* validate, lines 578-582: To clamped to tomorrow.                        *)
Clamp(g) == Exec(g, "clamp", "rest", F!ClampTo(shared))

(* validate, lines 584-645: options and lists.                             *)
Rest(g) ==
  Exec(g, "rest", "copy", F!DeduplicateLists(F!NormalizeOptions(shared)))

(* getFilter, lines 103-104: filterCopy := *filter; return &filterCopy.    *)
Copy(g) ==
  /\ pc[g] = "copy"
  /\ pc' = [pc EXCEPT ![g] = "idle"]
  /\ committed' = shared
  /\ last' = shared
  /\ published' = TRUE
  /\ UNCHANGED <<request, shared>>

Next ==
  \E g \in Goroutines :
    \/ Call(g) \/ NormalizeFrom(g) \/ NormalizeTo(g) \/ CheckRange(g)
    \/ SwapRange(g) \/ Import(g) \/ Clamp(g) \/ Rest(g) \/ Copy(g)

Spec == Init /\ [][Next]_vars

(***************************************************************************)
(* Properties.                                                             *)
(***************************************************************************)
TypeOK ==
  /\ {request, shared, committed, last} \subseteq F!FilterType
  /\ pc \in [Goroutines -> Steps]
  /\ published \in BOOLEAN

(* getFilter is atomic (spec sections 5 and 6): every call returns the     *)
(* validated form of the filter as the previous call left it, as if the    *)
(* calls that share the caller's *Filter ran one after another.            *)
AtomicGetFilter == F!Spec


(* The other side of AtomicGetFilter: goroutines that share a filter        *)
(* validate leaves as it is (a filter an earlier getFilter validated in     *)
(* place, spec section 5) never see the caller's struct change, and every  *)
(* getFilter returns it, whatever the interleaving of the statements of     *)
(* validate (filter.go:540-645) and of the copies (analyzer.go:103).        *)
ValidatedReuseRaceFree ==
  shared = request /\ last = request

=============================================================================
