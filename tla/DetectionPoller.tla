-------------------------- MODULE DetectionPoller --------------------------
(***************************************************************************)
(* crates/attest-detection-runtime: deploy the detection views once        *)
(* (main.rs, deployer.rs), then poll them and send new rows to the alerts  *)
(* topic (poller.rs).                                                      *)
(*                                                                         *)
(* A row of a view is the number of its event, which is also its event     *)
(* time; rows may come in any order, for events arrive late.  Statements   *)
(* and sends may fail, and the connection may be lost.                     *)
(***************************************************************************)
EXTENDS Naturals, Sequences, FiniteSets, SequencesExt

CONSTANTS
    DetectionSeq,      \* the loaded detections in their order
    MaxEvents,         \* bound: events
    Limit,             \* LIMIT of the poll query
    MaxPollerCrashes,  \* bound: ends of the process
    MaxPollerFaults    \* bound: failed statements and sends

ASSUME PollerConstants ==
    /\ IsInjective(DetectionSeq) /\ DetectionSeq # <<>>
    /\ MaxEvents \in Nat /\ Limit \in Nat \ {0}
    /\ MaxPollerCrashes \in Nat /\ MaxPollerFaults \in Nat

Detections == ToSet(DetectionSeq)

VARIABLES
    fired,       \* rows each detection selects
    rwUp,        \* is the connection to RisingWave up?
    exists,      \* is its view deployed in RisingWave?
    schema,      \* has the control plane created cloudtrail_events?
    pollerPc,    \* "down", "waiting", "deploying", "idle", "polling", "emitting", "sending"
    todo,        \* detections left in deploy_all or in the poll cycle
    pollRows,    \* rows left of the view being polled
    sentKeys,    \* SeenAlerts
    attempts,    \* alerts this process tried to send, in order
    alertTopic,  \* alerts that arrived
    pollerCrashes, pollerFaults

pollerVars == <<fired, rwUp, exists, schema, pollerPc, todo, pollRows, sentKeys, attempts,
                alertTopic, pollerCrashes, pollerFaults>>

world == <<fired, schema>>
views == <<rwUp, exists>>
cycle == <<todo, pollRows>>
tried == <<sentKeys, attempts>>
pollerBounds == <<pollerCrashes, pollerFaults>>

PollerInit ==
    /\ fired = [d \in Detections |-> {}]
    /\ rwUp = FALSE
    /\ exists = [d \in Detections |-> FALSE]
    /\ schema = FALSE
    /\ pollerPc = "down"
    /\ todo = <<>> /\ pollRows = <<>>
    /\ sentKeys = {} /\ attempts = <<>> /\ alertTopic = <<>>
    /\ pollerCrashes = 0 /\ pollerFaults = 0

PollerFault == pollerFaults < MaxPollerFaults /\ pollerFaults' = pollerFaults + 1

-----------------------------------------------------------------------------
\* The control plane and RisingWave.

CreateSchema ==
    /\ ~schema
    /\ schema' = TRUE
    /\ UNCHANGED <<fired, views, pollerPc, cycle, tried, alertTopic, pollerBounds>>

Fire(d, e) ==
    /\ schema /\ e \notin fired[d]
    /\ fired' = [fired EXCEPT ![d] = @ \cup {e}]
    /\ UNCHANGED <<views, schema, pollerPc, cycle, tried, alertTopic, pollerBounds>>

LoseRisingWave ==
    /\ rwUp /\ PollerFault
    /\ rwUp' = FALSE
    /\ UNCHANGED <<world, exists, pollerPc, cycle, tried, alertTopic, pollerCrashes>>

-----------------------------------------------------------------------------
\* main up to the poll loop.

\* main connects to RisingWave, once; wait_for_schema begins.
StartPoller ==
    /\ pollerPc = "down"
    /\ pollerPc' = "waiting"
    /\ rwUp' = TRUE
    /\ sentKeys' = {} /\ attempts' = <<>>
    /\ UNCHANGED <<world, exists, cycle, alertTopic, pollerBounds>>

\* The schema is there, or 120 s have passed.
WaitForSchema ==
    /\ pollerPc = "waiting"
    /\ pollerPc' = "deploying"
    /\ todo' = DetectionSeq
    /\ UNCHANGED <<world, views, pollRows, tried, alertTopic, pollerBounds>>

\* The next detection of deploy_all, or the poll loop.
NextDeploy ==
    /\ todo' = Tail(todo)
    /\ pollerPc' = IF Len(todo) = 1 THEN "idle" ELSE "deploying"
    /\ UNCHANGED <<world, rwUp, pollRows, tried, alertTopic, pollerCrashes>>

Deploy ==
    /\ pollerPc = "deploying" /\ rwUp /\ schema
    /\ exists' = [exists EXCEPT ![Head(todo)] = TRUE]
    /\ NextDeploy
    /\ UNCHANGED pollerFaults

\* DROP fails and an old view stays, or CREATE fails after it: deploy_all skips it.
DeployFails ==
    /\ pollerPc = "deploying"
    /\ \/ rwUp /\ exists' = [exists EXCEPT ![Head(todo)] = FALSE]
          /\ IF schema THEN PollerFault ELSE UNCHANGED pollerFaults
       \/ UNCHANGED exists /\ IF rwUp THEN PollerFault ELSE UNCHANGED pollerFaults
    /\ NextDeploy

-----------------------------------------------------------------------------
\* poll_and_emit.

PollTick ==
    /\ pollerPc = "idle"
    /\ pollerPc' = "polling"
    /\ todo' = DetectionSeq
    /\ UNCHANGED <<world, views, pollRows, tried, alertTopic, pollerBounds>>

\* The next detection of the cycle, or the end of the cycle.
NextPoll ==
    /\ todo' = Tail(todo)
    /\ pollerPc' = IF Len(todo) = 1 THEN "idle" ELSE "polling"
    /\ pollRows' = <<>>

\* ORDER BY fired_at DESC LIMIT n
Newest(d) ==
    LET sorted == SetToSortSeq(fired[d], >)
    IN  SubSeq(sorted, 1, IF Len(sorted) < Limit THEN Len(sorted) ELSE Limit)

Query ==
    /\ pollerPc = "polling" /\ rwUp /\ exists[Head(todo)]
    /\ pollRows' = Newest(Head(todo))
    /\ pollerPc' = "emitting"
    /\ UNCHANGED <<world, views, todo, tried, alertTopic, pollerBounds>>

\* Mutant of AfterPollError: an error ends the cycle.
AfterPollError_ends ==
    /\ todo' = <<>> /\ pollerPc' = "idle" /\ pollRows' = <<>>

AfterPollError == NextPoll

\* The connection or the view is gone, or the statement fails: the error is logged.
QueryFails ==
    /\ pollerPc = "polling"
    /\ IF rwUp /\ exists[Head(todo)] THEN PollerFault ELSE UNCHANGED pollerFaults
    /\ AfterPollError
    /\ UNCHANGED <<world, views, tried, alertTopic, pollerCrashes>>

dedup_key(d, e) == <<d, e>>

IsSeen(d, e) == dedup_key(d, e) \in sentKeys

\* The next row: skipped when its key is in the set, else the key is inserted and
\* the send begins; after the last row, the next detection.
NextRow ==
    /\ pollerPc = "emitting"
    /\ IF pollRows = <<>>
       THEN NextPoll /\ UNCHANGED <<sentKeys, attempts>>
       ELSE LET d == Head(todo)
                e == Head(pollRows)
            IN  /\ IF IsSeen(d, e)
                   THEN pollRows' = Tail(pollRows) /\ UNCHANGED <<tried, pollerPc>>
                   ELSE /\ sentKeys' = sentKeys \cup {dedup_key(d, e)}
                        /\ attempts' = Append(attempts, <<d, e>>)
                        /\ pollerPc' = "sending"
                        /\ UNCHANGED pollRows
                /\ UNCHANGED todo
    /\ UNCHANGED <<world, views, alertTopic, pollerBounds>>

Sent ==
    /\ pollRows' = Tail(pollRows)
    /\ pollerPc' = "emitting"
    /\ UNCHANGED <<world, views, todo, tried, pollerCrashes>>

SendOk ==
    /\ pollerPc = "sending"
    /\ alertTopic' = Append(alertTopic, <<Head(todo), Head(pollRows)>>)
    /\ Sent
    /\ UNCHANGED pollerFaults

\* The send times out; the message may have arrived all the same.
SendFails ==
    /\ pollerPc = "sending" /\ PollerFault
    /\ alertTopic' \in {alertTopic, Append(alertTopic, <<Head(todo), Head(pollRows)>>)}
    /\ Sent

\* ctrl_c between two cycles, or a crash anywhere.
StopPoller ==
    /\ pollerPc # "down" /\ pollerCrashes < MaxPollerCrashes
    /\ pollerCrashes' = pollerCrashes + 1
    /\ pollerPc' = "down"
    /\ todo' = <<>> /\ pollRows' = <<>>
    /\ UNCHANGED <<world, views, tried, alertTopic, pollerFaults>>

Poll == PollTick \/ Query \/ QueryFails \/ NextRow \/ SendOk \/ SendFails

PollerNext ==
    \/ CreateSchema \/ LoseRisingWave
    \/ \E d \in Detections, e \in 1..MaxEvents : Fire(d, e)
    \/ StartPoller \/ WaitForSchema \/ Deploy \/ DeployFails
    \/ Poll \/ StopPoller

-----------------------------------------------------------------------------
\* Properties.

\* One process sends at most one alert for a detection and an event, whatever
\* fails and however often the row is polled.
AtMostOncePerProcess == IsInjective(attempts)

\* A row that stays among the newest of a deployed view is handed to the producer,
\* although other detections of the cycle fail, are missing, or match the same event.
NewestRowsAreSent ==
    \A d \in Detections, e \in 1..MaxEvents :
        <>[](pollerPc # "down" /\ rwUp /\ exists[d] /\ e \in ToSet(Newest(d)))
            => <>[](<<d, e>> \in ToSet(attempts))
=============================================================================
