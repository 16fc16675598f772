----------------------------- MODULE CaseTriage -----------------------------
(***************************************************************************)
(* apps/workbench: POST /api/cases/[caseId]/triage (route.ts) and the      *)
(* case's row in Postgres (case-repository.ts), for one case.              *)
(*                                                                         *)
(* Requests of one Next.js process run concurrently; between two awaits a  *)
(* handler runs alone.  A read is a step of its own: the handler goes on   *)
(* with the row as it was.  A verdict is named by the request whose        *)
(* investigation reached it.                                               *)
(***************************************************************************)
EXTENDS Naturals, FiniteSets

CONSTANTS
    Requests,
    None,           \* no request, no verdict
    Operation,      \* the api_operation of the case's event
    MaxRestarts,    \* bound: restarts of the Next.js process
    MaxErrors,      \* bound: investigations that fail
    MaxFaults       \* bound: failed statements

Operations == {"putbucketacl", "createaccesskey", "consolelogin", "session.start", "other"}

ASSUME TriageConstants ==
    None \notin Requests /\ Operation \in Operations
    /\ MaxRestarts \in Nat /\ MaxErrors \in Nat /\ MaxFaults \in Nat

VARIABLES
    row,        \* [status, verdict] of workbench_cases
    cache,      \* TRIAGE_RESULT_CACHE of the case
    in_flight,  \* TRIAGE_IN_FLIGHT of the case: the request that launched the run
    schema,     \* schemaReady of the process: "unset", "ready", "broken"
    pc,         \* "new", "read", "resume", "baseline", "enrich", "mark", "fetch", "settled", "catch",
                \* "stored", "marked_failed", "waiting", "answered", "gone"
    seen,       \* the row as the request read it
    run,        \* "none", "pending", "ok", "error": the run the request launched
    joined,     \* the run a waiting request awaits
    answer,     \* the verdict, None for an error
    asked,      \* requests of this process that asked the orchestrator
    late,       \* requests of this process that came when a verdict was known
    restarts, errors, faults

vars == <<row, cache, in_flight, schema, pc, seen, run, joined, answer, asked, late,
          restarts, errors, faults>>

memory == <<cache, in_flight, schema>>
history == <<asked, late>>
bounds == <<restarts, errors, faults>>

Init ==
    /\ row = [status |-> "missing", verdict |-> None]
    /\ cache = None /\ in_flight = None /\ schema = "unset"
    /\ pc = [r \in Requests |-> "new"]
    /\ seen = [r \in Requests |-> row]
    /\ run = [r \in Requests |-> "none"]
    /\ joined = [r \in Requests |-> None]
    /\ answer = [r \in Requests |-> None]
    /\ asked = {} /\ late = {}
    /\ restarts = 0 /\ errors = 0 /\ faults = 0

\* A verdict somebody was answered, whose own handler has come to its end.
Known(v) ==
    /\ \E r \in Requests : pc[r] = "answered" /\ answer[r] = v
    /\ pc[v] \in {"answered", "gone"}

Answer(r, v) ==
    /\ answer' = [answer EXCEPT ![r] = v]
    /\ pc' = [pc EXCEPT ![r] = "answered"]

-----------------------------------------------------------------------------
\* POST: a well-formed request ...
Arrive(r) ==
    /\ pc[r] = "new"
    /\ pc' = [pc EXCEPT ![r] = "read"]
    /\ late' = IF \E v \in Requests : Known(v) THEN late \cup {r} ELSE late
    /\ UNCHANGED <<row, memory, seen, run, joined, answer, asked, bounds>>

\* The first statement of a process creates the tables, and what became of that is kept:
\* once it has failed, for whatever page, every statement fails until the process ends.
SchemaFails ==
    /\ schema = "unset" /\ faults < MaxFaults
    /\ schema' = "broken" /\ faults' = faults + 1
    /\ UNCHANGED <<row, cache, in_flight, pc, seen, run, joined, answer, history, restarts, errors>>

ensureCaseSchema ==
    /\ schema # "broken"
    /\ schema' = "ready"

\* ... reads the case ...
GetCase(r) ==
    /\ pc[r] = "read"
    /\ ensureCaseSchema
    /\ seen' = [seen EXCEPT ![r] = row]
    /\ pc' = [pc EXCEPT ![r] = "resume"]
    /\ UNCHANGED <<row, cache, in_flight, run, joined, answer, history, bounds>>

\* Mutant of CachedVerdict: the cache is not consulted.
CachedVerdict_none(r) == None

\* ... answers from the row or from the cache ...
CachedVerdict(r) ==
    IF seen[r].status = "complete" /\ seen[r].verdict # None THEN seen[r].verdict ELSE cache

AnswerKnown(r) ==
    /\ pc[r] = "resume" /\ CachedVerdict(r) # None
    /\ Answer(r, CachedVerdict(r))
    /\ UNCHANGED <<row, memory, seen, run, joined, history, bounds>>

\* ... joins the run in flight ...
Join(r) ==
    /\ pc[r] = "resume" /\ CachedVerdict(r) = None /\ in_flight # None
    /\ joined' = [joined EXCEPT ![r] = in_flight]
    /\ pc' = [pc EXCEPT ![r] = "waiting"]
    /\ UNCHANGED <<row, memory, seen, run, answer, history, bounds>>

Settled(r) == run[r] \in {"ok", "error"}

AnswerJoined(r) ==
    /\ pc[r] = "waiting"
    /\ Settled(joined[r])
    /\ Answer(r, IF run[joined[r]] = "ok" THEN joined[r] ELSE None)
    /\ UNCHANGED <<row, memory, seen, run, joined, history, bounds>>

\* The features an operation is given, unless the event has them.
applyOperationFeatureDefaults ==
    CASE Operation = "putbucketacl" ->
            {"severity_score", "baseline_deviation", "threat_intel_hit_count",
             "asset_criticality", "prior_disposition_ratio"}
      [] Operation = "createaccesskey" ->
            {"severity_score", "baseline_deviation", "asset_criticality", "prior_disposition_ratio"}
      [] Operation = "consolelogin" -> {"asset_criticality", "prior_disposition_ratio"}
      [] Operation = "session.start" ->
            {"severity_score", "entity_reputation_score", "baseline_deviation",
             "threat_intel_hit_count", "asset_criticality", "prior_disposition_ratio"}
      [] OTHER -> {}

\* ... or enriches the alert, and awaits the user's baseline for a deviation that has no
\* default (of an event with a user and a region).
Enrich(r) ==
    /\ pc[r] = "resume" /\ CachedVerdict(r) = None /\ in_flight = None
    /\ pc' = [pc EXCEPT ![r] =
                 IF "baseline_deviation" \in applyOperationFeatureDefaults
                 THEN "enrich" ELSE "baseline"]
    /\ UNCHANGED <<row, memory, seen, run, joined, answer, history, bounds>>

\* A baseline that cannot be had counts as one without a deviation.
baselineDeviation(r) ==
    /\ pc[r] = "baseline"
    /\ pc' = [pc EXCEPT ![r] = "enrich"]
    /\ UNCHANGED <<row, memory, seen, run, joined, answer, history, bounds>>

\* upsertCaseSnapshot leaves status and verdict of an existing row alone.
Snapshot == IF row.status = "missing" THEN [status |-> "idle", verdict |-> None] ELSE row

\* The snapshot is stored, the run is launched and registered.
Launch(r) ==
    /\ pc[r] = "enrich"
    /\ row' = Snapshot
    /\ run' = [run EXCEPT ![r] = "pending"]
    /\ in_flight' = r
    /\ pc' = [pc EXCEPT ![r] = "mark"]
    /\ UNCHANGED <<cache, schema, seen, joined, answer, history, bounds>>

\* markTriageRunning, then the orchestrator is asked.
MarkRunning(r) ==
    /\ pc[r] = "mark"
    /\ row' = [row EXCEPT !.status = "running"]
    /\ asked' = asked \cup {r}
    /\ pc' = [pc EXCEPT ![r] = "fetch"]
    /\ UNCHANGED <<memory, seen, run, joined, answer, late, bounds>>

InvestigationReturns(r) ==
    /\ pc[r] = "fetch"
    /\ run' = [run EXCEPT ![r] = "ok"]
    /\ pc' = [pc EXCEPT ![r] = "settled"]
    /\ UNCHANGED <<row, memory, seen, joined, answer, history, bounds>>

\* The orchestrator answers with an error or not at all: the run rejects.
InvestigationFails(r) ==
    /\ pc[r] = "fetch" /\ errors < MaxErrors
    /\ errors' = errors + 1
    /\ run' = [run EXCEPT ![r] = "error"]
    /\ pc' = [pc EXCEPT ![r] = "catch"]
    /\ UNCHANGED <<row, memory, seen, joined, answer, history, restarts, faults>>

Completed(r) == [status |-> "complete", verdict |-> r]

MarkComplete(r) ==
    /\ pc[r] = "settled"
    /\ row' = Completed(r)
    /\ pc' = [pc EXCEPT ![r] = "stored"]
    /\ UNCHANGED <<memory, seen, run, joined, answer, history, bounds>>

\* markTriageFailed keeps the verdict the row may have.
Failed == [row EXCEPT !.status = "failed"]

MarkFailed(r) ==
    /\ pc[r] = "catch"
    /\ row' = Failed
    /\ pc' = [pc EXCEPT ![r] = "marked_failed"]
    /\ UNCHANGED <<memory, seen, run, joined, answer, history, bounds>>

\* TRIAGE_IN_FLIGHT.delete, whoever set the entry.
Finally(r) == in_flight' = None

\* The handler resumes after the last statement, and answers.
Finish(r) ==
    /\ pc[r] \in {"stored", "marked_failed"}
    /\ IF pc[r] = "stored"
       THEN cache' = r /\ Answer(r, r)
       ELSE UNCHANGED cache /\ Answer(r, None)
    /\ Finally(r)
    /\ UNCHANGED <<row, schema, seen, run, joined, history, bounds>>

-----------------------------------------------------------------------------
\* A statement fails: an error before the run, the catch block after a failed
\* markTriageRunning, which rejects the run, or markTriageComplete, which does not,
\* the finally block after a failed markTriageFailed.
StatementFails(r) ==
    /\ \/ faults < MaxFaults /\ faults' = faults + 1
       \/ schema = "broken" /\ UNCHANGED faults
    /\ \/ /\ pc[r] \in {"read", "enrich"}
          /\ Answer(r, None)
          /\ UNCHANGED <<memory, run>>
       \/ /\ pc[r] \in {"mark", "settled"}
          /\ run' = [run EXCEPT ![r] = IF pc[r] = "mark" THEN "error" ELSE @]
          /\ pc' = [pc EXCEPT ![r] = "catch"]
          /\ UNCHANGED <<memory, answer>>
       \/ /\ pc[r] = "catch"
          /\ Answer(r, None)
          /\ Finally(r)
          /\ UNCHANGED <<cache, schema, run>>
    /\ UNCHANGED <<row, seen, joined, history, restarts, errors>>

\* The process ends: its requests and its maps are gone, the row stays.
Restart ==
    /\ restarts < MaxRestarts
    /\ restarts' = restarts + 1
    /\ pc' = [r \in Requests |-> IF pc[r] = "new" THEN "new" ELSE "gone"]
    /\ cache' = None /\ in_flight' = None /\ schema' = "unset"
    /\ asked' = {} /\ late' = {}
    /\ UNCHANGED <<row, seen, run, joined, answer, errors, faults>>

Handle(r) ==
    \/ GetCase(r) \/ AnswerKnown(r) \/ Join(r) \/ AnswerJoined(r) \/ Enrich(r) \/ baselineDeviation(r)
    \/ Launch(r)
    \/ MarkRunning(r) \/ InvestigationReturns(r) \/ InvestigationFails(r)
    \/ MarkComplete(r) \/ MarkFailed(r) \/ Finish(r)

Next ==
    \/ \E r \in Requests : Arrive(r) \/ Handle(r) \/ StatementFails(r)
    \/ SchemaFails \/ Restart

-----------------------------------------------------------------------------
\* Properties.

\* In one process a request that comes after a verdict was answered, and the handler that
\* reached it has ended, starts no investigation, although an overlapping run may have
\* failed in between; only a verdict that markTriageComplete failed to store is forgotten.
\* (Before that handler ends, one that joined its run may have been answered; the end of an
\* overlapping run then takes the entry of the in-flight map away, and a fourth request
\* investigates again.)
NoneAfterVerdict == faults = 0 => late \cap asked = {}
=============================================================================
