---------------------------- MODULE SimulateLab ----------------------------
(***************************************************************************)
(* apps/workbench: one visit of the Simulation Lab (simulate/page.tsx),    *)
(* its routes (api/simulate and api/simulate/verify) and its scenarios.    *)
(*                                                                         *)
(* A run posts its event, shows the hot path, and asks on an interval for  *)
(* four checks.  Two of them look for the event (a detection that fired    *)
(* for it, its row in the warm tier); one passes when the user has a       *)
(* baseline, from whichever event, and one when the tool gateway answers.  *)
(* Runs are numbered; a run's interval carries its number, and 0 stands    *)
(* for null.  The closures of a run outlive the visit, the state they set  *)
(* does not.                                                               *)
(***************************************************************************)
EXTENDS Naturals, Sequences, SequencesExt, FiniteSetsExt

CONSTANTS
    Offered,        \* the scenarios of the picker, in their order
    EventChecks,    \* the checks that look for the event: "detection", "iceberg"
    MaxSims,        \* bound: runs of the visit
    MaxSimFaults    \* bound: services that fail

-----------------------------------------------------------------------------
\* The templates of the scenarios, as far as the collector and the rules tell them apart.
\* The first event of a run is the one that is looked for.

geo_anomaly == [service |-> "signin.amazonaws.com", operation |-> "ConsoleLogin"]
brute_force == [service |-> "okta.com", operation |-> "user.session.start"]
root_account == [service |-> "iam.amazonaws.com", operation |-> "CreateAccessKey"]
s3_exfil == [service |-> "s3.amazonaws.com", operation |-> "PutBucketAcl"]
mfa_bypass == [service |-> "okta.com", operation |-> "user.mfa.factor.deactivate"]

SCENARIOS ==
    [geo_anomaly |-> geo_anomaly, brute_force |-> brute_force, root_account |-> root_account,
     s3_exfil |-> s3_exfil, mfa_bypass |-> mfa_bypass]

\* The collector knows the events of a login by the names that AWS gives them.
is_authentication_event(x) == SCENARIOS[x].operation = "ConsoleLogin"

\* Can a rule match?  Those for Okta ask for an authentication, or for a class of Okta's own,
\* which the collector gives to no event.
MayFire(x) == SCENARIOS[x].service = "okta.com" => is_authentication_event(x)

ASSUME SimConstants ==
    /\ Offered \in Seq(DOMAIN SCENARIOS) /\ Offered # <<>>
    /\ EventChecks \subseteq {"detection", "iceberg"}
    /\ MaxSims \in Nat /\ MaxSimFaults \in Nat

Sims == 1..MaxSims

\* MEMORY_STAGES.
Checks == EventChecks \cup {"risingwave", "mcp"}

VARIABLES
    selected,       \* the scenario of the picker
    ranAs,          \* per run: the scenario it was started for
    sim,            \* per run: "new", "ingest", "triage", "reply", "first", "done"
    reply,          \* per run: [collector, ids, orchestrator] of its response
    landed,         \* per run: the checks that find its event by now
    polls,          \* runs with a request to verify under way
    intervals,      \* runs whose interval ticks
    pollRef,        \* the interval the page knows of
    timedOut,       \* more than POLL_TIMEOUT_MS since pollStartRef?
    runState, hotOf, memory, pollState,
    simError,       \* is there an error to show?
    simMounted,
    overtaken,      \* was a scenario selected or a run started over a pending request?
    simFaults

simVars == <<selected, ranAs, sim, reply, landed, polls, intervals, pollRef, timedOut,
             runState, hotOf, memory, pollState, simError, simMounted, overtaken, simFaults>>

outside == <<reply, landed>>
picked == <<selected, ranAs>>
simBounds == <<overtaken, simFaults>>

NoReply == [collector |-> FALSE, ids |-> FALSE, orchestrator |-> FALSE]
NoMemory == [of |-> 0, ok |-> {}]

SimInit ==
    /\ selected = Offered[1] /\ ranAs = [s \in Sims |-> selected]
    /\ sim = [s \in Sims |-> "new"] /\ reply = [s \in Sims |-> NoReply]
    /\ landed = [s \in Sims |-> {}]
    /\ polls = {} /\ intervals = {} /\ pollRef = 0 /\ timedOut = FALSE
    /\ runState = "idle" /\ hotOf = 0 /\ memory = NoMemory /\ pollState = "idle"
    /\ simError = FALSE
    /\ simMounted = TRUE /\ overtaken = FALSE /\ simFaults = 0

SimFault == simFaults < MaxSimFaults /\ simFaults' = simFaults + 1

Pending == polls # {} \/ \E s \in Sims : sim[s] \in {"ingest", "triage", "reply", "first"}

-----------------------------------------------------------------------------
\* Mutant of Reset: the interval of the run before is forgotten, not cleared.
Reset_keeps_interval ==
    /\ hotOf' = 0 /\ memory' = NoMemory /\ pollState' = "idle" /\ simError' = FALSE
    /\ UNCHANGED intervals /\ pollRef' = 0
    /\ overtaken' = (overtaken \/ Pending)

\* Mutant of Reset: what the run before verified stays.
Reset_keeps_memory ==
    /\ hotOf' = 0 /\ pollState' = "idle" /\ simError' = FALSE /\ UNCHANGED memory
    /\ intervals' = intervals \ {pollRef} /\ pollRef' = 0
    /\ overtaken' = (overtaken \/ Pending)

\* What selecting a scenario and starting a run both begin with.  Requests that are under
\* way are not aborted.
Reset ==
    /\ hotOf' = 0 /\ memory' = NoMemory /\ pollState' = "idle" /\ simError' = FALSE
    /\ intervals' = intervals \ {pollRef} /\ pollRef' = 0
    /\ overtaken' = (overtaken \/ Pending)

\* Selecting also makes the page idle while a run is under way.
selectScenario(x) ==
    /\ simMounted
    /\ selected' = x
    /\ Reset
    /\ runState' = "idle"
    /\ UNCHANGED <<ranAs, sim, outside, polls, timedOut, simMounted, simFaults>>

\* The button is disabled while the page says it runs.
CanRun == simMounted /\ runState # "running"

runSimulation(s) ==
    /\ CanRun
    /\ sim[s] = "new" /\ \A t \in 1..(s - 1) : sim[t] # "new"
    /\ Reset
    /\ runState' = "running"
    /\ sim' = [sim EXCEPT ![s] = "ingest"] /\ ranAs' = [ranAs EXCEPT ![s] = selected]
    /\ UNCHANGED <<selected, outside, polls, timedOut, simMounted, simFaults>>

-----------------------------------------------------------------------------
\* POST of the route.  A collector that fails does not keep the orchestrator from being
\* asked; calibration and attestation share its fate.
Ingest(s) ==
    /\ sim[s] = "ingest"
    /\ sim' = [sim EXCEPT ![s] = "triage"]
    /\ \/ reply' = [reply EXCEPT ![s].collector = TRUE, ![s].ids = TRUE] /\ UNCHANGED simFaults
       \/ reply' = [reply EXCEPT ![s].collector = TRUE] /\ SimFault
       \/ UNCHANGED reply /\ SimFault
    /\ UNCHANGED <<picked, landed, polls, intervals, pollRef, timedOut, runState, hotOf, memory,
                   pollState, simError, simMounted, overtaken>>

Investigate(s) ==
    /\ sim[s] = "triage"
    /\ sim' = [sim EXCEPT ![s] = "reply"]
    /\ \/ reply' = [reply EXCEPT ![s].orchestrator = TRUE] /\ UNCHANGED simFaults
       \/ UNCHANGED reply /\ SimFault
    /\ UNCHANGED <<picked, landed, polls, intervals, pollRef, timedOut, runState, hotOf, memory,
                   pollState, simError, simMounted, overtaken>>

\* The detection runtime and the warm writer, at their own pace.
Land(s, k) ==
    /\ reply[s].ids /\ k \notin landed[s]
    /\ k = "detection" => MayFire(ranAs[s])
    /\ landed' = [landed EXCEPT ![s] = @ \cup {k}]
    /\ UNCHANGED <<picked, sim, reply, polls, intervals, pollRef, timedOut, runState, hotOf, memory,
                   pollState, simError, simMounted, simBounds>>

Succeeded(s) == reply[s].collector /\ reply[s].orchestrator

\* The response arrives: the hot path is shown, the run is remembered, and polling begins
\* when there is an event to ask for.
SimReply(s) ==
    /\ sim[s] = "reply"
    /\ IF reply[s].ids
       THEN /\ sim' = [sim EXCEPT ![s] = "first"]
            /\ polls' = polls \cup {s}
            /\ timedOut' = FALSE
       ELSE sim' = [sim EXCEPT ![s] = "done"] /\ UNCHANGED <<polls, timedOut>>
    /\ IF simMounted
       THEN /\ hotOf' = s
            /\ runState' = IF Succeeded(s) THEN "done" ELSE "error"
            /\ pollState' = IF reply[s].ids THEN "polling" ELSE "finished"
       ELSE UNCHANGED <<hotOf, runState, pollState>>
    /\ UNCHANGED <<picked, outside, intervals, pollRef, memory, simError, simMounted,
                   simBounds>>

\* The request fails: the page shows the error.
SimFails(s) ==
    /\ sim[s] \in {"ingest", "triage", "reply"} /\ SimFault
    /\ sim' = [sim EXCEPT ![s] = "done"]
    /\ IF simMounted
       THEN runState' = "error" /\ simError' = TRUE
       ELSE UNCHANGED <<runState, simError>>
    /\ UNCHANGED <<picked, outside, polls, intervals, pollRef, timedOut, hotOf, memory, pollState,
                   simMounted, overtaken>>

-----------------------------------------------------------------------------
\* Polling.

\* Mutant of Passed: a detection or a row of any event is taken for the run's.
Passed_any_event(s) == EventChecks \cup {"mcp"}

\* What passes whatever the user's baseline.
Passed(s) == landed[s] \cup {"mcp"}

\* GET of the verify route: four checks at once, each of which may fail.  Whether the user
\* has a baseline is a matter of all the events of the user, and left open.
Verify(s, ok) ==
    \E p \in {Passed(s), Passed(s) \cup {"risingwave"}} :
        \/ ok = p /\ UNCHANGED simFaults
        \/ ok \in {p \ {k} : k \in p} /\ SimFault

\* Mutant of StopsOn: polling goes on until every check passes.
StopsOn_all_ok(ok) == ok = Checks

\* allOk, or the run the page started last is too old, whichever run asks.
StopsOn(ok) == ok = Checks \/ timedOut

\* poll: the answer is shown, and the interval the page knows of is cleared at the end.
\* The first poll's continuation starts the interval, whatever happened meanwhile.
PollAnswered(s, ok) ==
    /\ s \in polls /\ Verify(s, ok)
    /\ polls' = polls \ {s}
    /\ memory' = IF simMounted THEN [of |-> s, ok |-> ok] ELSE memory
    /\ pollState' = IF simMounted /\ StopsOn(ok) THEN "finished" ELSE pollState
    /\ LET left == IF StopsOn(ok) THEN intervals \ {pollRef} ELSE intervals
       IN IF sim[s] = "first"
          THEN intervals' = left \cup {s} /\ pollRef' = s
          ELSE intervals' = left /\ pollRef' = IF StopsOn(ok) THEN 0 ELSE pollRef
    /\ sim' = [sim EXCEPT ![s] = "done"]
    /\ UNCHANGED <<picked, outside, timedOut, runState, hotOf, simError, simMounted, overtaken>>

\* A request to verify that fails is passed over.
PollFails(s) ==
    /\ s \in polls /\ SimFault
    /\ polls' = polls \ {s}
    /\ IF sim[s] = "first"
       THEN intervals' = intervals \cup {s} /\ pollRef' = s
       ELSE UNCHANGED <<intervals, pollRef>>
    /\ sim' = [sim EXCEPT ![s] = "done"]
    /\ UNCHANGED <<picked, outside, timedOut, runState, hotOf, memory, pollState, simError,
                   simMounted, overtaken>>

\* The interval of a run ticks (a second request while one is pending adds nothing).
PollTick(s) ==
    /\ s \in intervals \ polls
    /\ polls' = polls \cup {s}
    /\ UNCHANGED <<picked, sim, outside, intervals, pollRef, timedOut, runState, hotOf, memory,
                   pollState, simError, simMounted, simBounds>>

PollTimeout ==
    /\ ~timedOut /\ intervals \cup polls # {}
    /\ timedOut' = TRUE
    /\ UNCHANGED <<picked, sim, outside, polls, intervals, pollRef, runState, hotOf, memory, pollState,
                   simError, simMounted, simBounds>>

\* The page is left: its interval is cleared and its state is gone.
SimUnmount ==
    /\ simMounted
    /\ simMounted' = FALSE
    /\ intervals' = intervals \ {pollRef}
    /\ runState' = "idle" /\ hotOf' = 0 /\ memory' = NoMemory /\ pollState' = "idle"
    /\ simError' = FALSE
    /\ UNCHANGED <<picked, sim, outside, polls, pollRef, timedOut, simBounds>>

-----------------------------------------------------------------------------
\* What the page shows.

HotStages == {"collector", "orchestrator", "calibration", "attestation"}

hotState(k) ==
    CASE runState = "idle" -> "pending"
      [] runState = "running" /\ hotOf = 0 -> "running"
      [] runState # "idle" /\ hotOf # 0 ->
            IF IF k = "collector" THEN reply[hotOf].collector ELSE reply[hotOf].orchestrator
            THEN "ok" ELSE "fail"
      [] OTHER -> "pending"

memoryState(k) ==
    CASE runState = "idle" \/ hotOf = 0 -> "pending"
      [] runState # "idle" /\ hotOf # 0 /\ memory.of = 0 -> "running"
      [] OTHER -> IF k \in memory.ok THEN "ok"
                  ELSE IF pollState = "polling" THEN "running" ELSE "fail"

\* The parts of the page that are shown.  The verdict takes an answer of the orchestrator,
\* whatever the collector did.
Sections ==
    LET pipeline == runState \in {"running", "done"} \/ (runState = "error" /\ hotOf # 0)
    IN {x \in {"invitation", "failure", "hot path", "verdict", "memory"} :
        CASE x = "invitation" -> runState = "idle"
          [] x = "failure" -> runState = "error" /\ simError
          [] x = "verdict" -> pipeline /\ hotOf # 0 /\ reply[hotOf].orchestrator
          [] OTHER -> pipeline}

SimSteps(s) ==
    \/ Ingest(s) \/ Investigate(s) \/ SimReply(s)
    \/ PollTick(s) \/ \E ok \in SUBSET Checks : PollAnswered(s, ok)

SimNext ==
    \/ \E x \in ToSet(Offered) : selectScenario(x)
    \/ SimUnmount \/ PollTimeout
    \/ \E s \in Sims :
        \/ runSimulation(s) \/ SimSteps(s) \/ SimFails(s) \/ PollFails(s)
        \/ \E k \in EventChecks : Land(s, k)

-----------------------------------------------------------------------------
\* Properties.

\* An interval the page has lost track of, which nothing can clear any more, takes a run
\* started or a scenario selected while a request was under way: a finished or failed
\* run, a lost answer and leaving the page leave none behind.
OrphansNeedOverlap == intervals \subseteq {pollRef} \/ overtaken

\* The hot path shown is that of a run of the scenario which is selected, a check that looks
\* for the event is shown as passed only if the event of that run is there, a failed request
\* is shown without another run's verdict, and a page that says done shows no failed stage;
\* the page is never empty.  A late answer can break the first three once a scenario was
\* selected or a run started over it.  The checks of the baseline and of the gateway say
\* nothing of the event.
StagesAreOwn ==
    /\ hotOf # 0 => ranAs[hotOf] = selected \/ overtaken
    /\ \A k \in EventChecks : memoryState(k) = "ok" => k \in landed[hotOf] \/ overtaken
    /\ {"failure", "verdict"} \subseteq Sections => overtaken
    /\ runState = "done" /\ hotOf # 0 => \A k \in HotStages : hotState(k) = "ok"
    /\ Sections # {}

\* An interval ends: on its own when every check passes, after the time-out when one never
\* does, also when the page is gone.  It takes a request that is answered after the time-out:
\* one that fails is passed over and the interval goes on, and requests fail so often only.
PollingEnds == intervals # {} ~> (intervals = {} \/ overtaken)
=============================================================================
