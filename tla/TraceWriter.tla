---------------------------- MODULE TraceWriter ----------------------------
(***************************************************************************)
(* apps/ws-gateway: the durable trace writer, which copies the trace steps *)
(* of the agents from their topic into Postgres, where the workbench reads *)
(* a case's history.                                                       *)
(*                                                                         *)
(* A message is a step, whose row id is made of case, action, kind and     *)
(* millisecond, so that two steps may share it, or it does not             *)
(* deserialize.  The topic has one partition.  The writer's group starts   *)
(* at the end of the topic until it has committed an offset.               *)
(*                                                                         *)
(* The page of a case stores the steps it is sent too, with the same time  *)
(* under another id.  The table has one row for a case, action, kind and   *)
(* time, and the writer's insert passes over a row with its own id only.   *)
(***************************************************************************)
EXTENDS Naturals, Sequences, FiniteSets

CONSTANTS
    RowIds,             \* row ids of steps
    NoOffset,           \* the group has not committed
    NoRow,              \* no row with this id
    MaxSteps,           \* bound: messages
    MaxWriterRestarts,  \* bound: restarts of the writer
    MaxWriterFaults     \* bound: failed statements

ASSUME WriterConstants ==
    /\ NoOffset \notin Nat /\ NoRow \notin Nat
    /\ MaxSteps \in Nat /\ MaxWriterRestarts \in Nat /\ MaxWriterFaults \in Nat

NoStep == "garbage"

\* What a row that the page stored was made from, as far as the writer is concerned.
PageRow == 0

VARIABLES
    traceTopic,      \* row ids, or NoStep
    traceCommitted,  \* offset the broker holds for the group
    traceIssued,     \* offset of the last asynchronous commit
    tracePosition,   \* messages received
    base,            \* where the group's history begins
    writerPc,        \* "down", "receive", "case", "step"
    pgUp,            \* is the writer's connection to Postgres up?
    stepRows,        \* the message each row was made from, or PageRow
    writerRestarts, writerFaults

writerVars == <<traceTopic, traceCommitted, traceIssued, tracePosition, base, writerPc, pgUp,
                stepRows, writerRestarts, writerFaults>>

offsets == <<traceCommitted, traceIssued, tracePosition, base>>
storage == <<pgUp, stepRows>>
writerBounds == <<writerRestarts, writerFaults>>

WriterInit ==
    /\ traceTopic = <<>>
    /\ traceCommitted = NoOffset /\ traceIssued = NoOffset
    /\ tracePosition = 0 /\ base = 0
    /\ writerPc = "down"
    /\ pgUp = FALSE
    /\ stepRows = [r \in RowIds |-> NoRow]
    /\ writerRestarts = 0 /\ writerFaults = 0

-----------------------------------------------------------------------------
\* TracePublisher and the brokers.

Publish ==
    /\ Len(traceTopic) < MaxSteps
    /\ \E r \in RowIds \cup {NoStep} : traceTopic' = Append(traceTopic, r)
    /\ UNCHANGED <<offsets, writerPc, storage, writerBounds>>

OffsetArrives ==
    /\ traceCommitted # traceIssued
    /\ traceCommitted' = traceIssued
    /\ UNCHANGED <<traceTopic, traceIssued, tracePosition, base, writerPc, storage, writerBounds>>

\* The page of the case was sent the step and stores it first.
PageStores(r) ==
    /\ stepRows[r] = NoRow /\ \E n \in DOMAIN traceTopic : traceTopic[n] = r
    /\ stepRows' = [stepRows EXCEPT ![r] = PageRow]
    /\ UNCHANGED <<traceTopic, offsets, writerPc, pgUp, writerBounds>>

LosePostgres ==
    /\ pgUp /\ writerFaults < MaxWriterFaults
    /\ writerFaults' = writerFaults + 1
    /\ pgUp' = FALSE
    /\ UNCHANGED <<traceTopic, offsets, writerPc, stepRows, writerRestarts>>

-----------------------------------------------------------------------------
\* run_trace_writer.

\* Connect, create the tables, subscribe: resume behind the committed offset.
StartWriter ==
    /\ writerPc = "down"
    /\ writerPc' = "receive"
    /\ pgUp' = TRUE
    /\ tracePosition' = IF traceCommitted = NoOffset THEN Len(traceTopic) ELSE traceCommitted
    /\ base' = IF traceCommitted = NoOffset THEN Len(traceTopic) ELSE base
    /\ traceIssued' = traceCommitted
    /\ UNCHANGED <<traceTopic, traceCommitted, stepRows, writerBounds>>

\* Mutant of AfterParse: a message that does not deserialize ends the loop.
AfterParse_stops(msg) == IF msg = NoStep THEN "stopped" ELSE "case"

AfterParse(msg) == IF msg = NoStep THEN "receive" ELSE "case"

\* Mutant of Receive: the offset is committed when the message is received.
Receive_commits ==
    /\ writerPc = "receive" /\ tracePosition < Len(traceTopic)
    /\ tracePosition' = tracePosition + 1
    /\ traceIssued' = tracePosition + 1
    /\ writerPc' = AfterParse(traceTopic[tracePosition + 1])
    /\ UNCHANGED <<traceTopic, traceCommitted, base, storage, writerBounds>>

\* A message that does not deserialize is skipped without a commit.
Receive ==
    /\ writerPc = "receive" /\ tracePosition < Len(traceTopic)
    /\ tracePosition' = tracePosition + 1
    /\ writerPc' = AfterParse(traceTopic[tracePosition + 1])
    /\ UNCHANGED <<traceTopic, traceCommitted, traceIssued, base, storage, writerBounds>>

\* insert_trace_step upserts the case ...
UpsertCase ==
    /\ writerPc = "case" /\ pgUp
    /\ writerPc' = "step"
    /\ UNCHANGED <<traceTopic, offsets, storage, writerBounds>>

\* ON CONFLICT (id) DO NOTHING
Upsert(r, n) == IF stepRows[r] = NoRow THEN [stepRows EXCEPT ![r] = n] ELSE stepRows

\* ... and inserts the step; then the offset is committed.
InsertStep ==
    /\ writerPc = "step" /\ pgUp /\ stepRows[traceTopic[tracePosition]] # PageRow
    /\ stepRows' = Upsert(traceTopic[tracePosition], tracePosition)
    /\ traceIssued' = tracePosition
    /\ writerPc' = "receive"
    /\ UNCHANGED <<traceTopic, traceCommitted, tracePosition, base, pgUp, writerBounds>>

\* The page's row is in the way: logged, next message, and no commit.
InsertRefused ==
    /\ writerPc = "step" /\ pgUp /\ stepRows[traceTopic[tracePosition]] = PageRow
    /\ writerPc' = "receive"
    /\ UNCHANGED <<traceTopic, offsets, storage, writerBounds>>

\* A statement fails, always when the connection is lost: logged, next message.
InsertFails ==
    /\ writerPc \in {"case", "step"}
    /\ IF pgUp
       THEN writerFaults < MaxWriterFaults /\ writerFaults' = writerFaults + 1
       ELSE UNCHANGED writerFaults
    /\ writerPc' = "receive"
    /\ UNCHANGED <<traceTopic, offsets, storage, writerRestarts>>

\* recv returns an error, which ends run_trace_writer, or the process ends.
StopWriter ==
    /\ writerPc # "down" /\ writerRestarts < MaxWriterRestarts
    /\ writerRestarts' = writerRestarts + 1
    /\ writerPc' = "down"
    /\ pgUp' = FALSE
    /\ UNCHANGED <<traceTopic, offsets, stepRows, writerFaults>>

WriterWork == Receive \/ UpsertCase \/ InsertStep \/ InsertRefused \/ InsertFails

WriterNext ==
    \/ Publish \/ OffsetArrives \/ LosePostgres \/ \E r \in RowIds : PageStores(r)
    \/ StartWriter \/ WriterWork \/ StopWriter

-----------------------------------------------------------------------------
\* Properties.

IsStep(n) == n \in DOMAIN traceTopic /\ traceTopic[n] # NoStep
HasRow(n) == IsStep(n) /\ stepRows[traceTopic[n]] # NoRow

\* Steps the group has left behind that are in no row.
Skipped ==
    IF traceCommitted = NoOffset THEN {}
    ELSE { n \in (base + 1)..traceCommitted : IsStep(n) /\ ~HasRow(n) }

\* Each failed statement costs at most its own step, which the next commit passes
\* over; stops and resumes cost none, and neither does a lost connection, for
\* nothing is committed until the writer starts again behind the last commit.  An insert
\* that the page's row refuses costs none: the step has that row.
SkipsBoundedByFaults == Cardinality(Skipped) <= writerFaults

\* A step published while the writer runs gets its row, the writer's or the page's, when
\* no statement fails; before the first commit a stop forgets the steps behind the end of
\* the topic.
StepsGetRows ==
    \A n \in 1..MaxSteps :
        (IsStep(n) /\ writerPc # "down" /\ n > tracePosition)
            ~> (HasRow(n) \/ writerFaults > 0 \/ n <= base)
=============================================================================
