-------------------------- MODULE IcebergConsumer --------------------------
(***************************************************************************)
(* crates/attest-storage-iceberg: the loop that reads the event topic,     *)
(* buffers events and appends them to the warm table (consumer.rs), the    *)
(* snapshot commit (writer.rs) and the version hint a restarted writer     *)
(* reopens the table from (catalog.rs).                                    *)
(*                                                                         *)
(* The topic has one partition and the group one member.  A message is an  *)
(* event or does not deserialize; events are named by their offsets.  A    *)
(* table is the sequence of its snapshots, a snapshot the sequence of the  *)
(* offsets in its data file.                                               *)
(***************************************************************************)
EXTENDS Naturals, Sequences, FiniteSets, SequencesExt

CONSTANTS
    BatchSize,      \* BATCH_SIZE
    MaxMessages,    \* bound: messages produced
    MaxStarts,      \* bound: starts of the process
    MaxCrashes,     \* bound: crashes of the process
    MaxFaults       \* bound: failed calls to the warehouse

ASSUME IcebergConstants ==
    /\ BatchSize \in Nat \ {0}
    /\ MaxMessages \in Nat /\ MaxStarts \in Nat /\ MaxCrashes \in Nat /\ MaxFaults \in Nat

VARIABLES
    topic,      \* messages of the partition: "event" or "garbage"
    committed,  \* offset the broker holds for the group
    issued,     \* offset of the last asynchronous commit
    position,   \* messages the consumer has received
    buffer,     \* offsets of the events not yet flushed
    pc,         \* "down", "loop", "writing", "hinting"
    after,      \* what the flush returns to: "tick", "commit", "stop"
    catalog,    \* the table in the MemoryCatalog; after the process ends, what it last was
    hint,       \* the table metadata/version-hint.text leads to
    starts, crashes, faults

warmVars == <<topic, committed, issued, position, buffer, pc, after, catalog, hint,
              starts, crashes, faults>>

bounds == <<starts, crashes, faults>>

WarmInit ==
    /\ topic = <<>>
    /\ committed = 0 /\ issued = 0 /\ position = 0
    /\ buffer = <<>>
    /\ pc = "down"
    /\ after = "tick"
    /\ catalog = <<>> /\ hint = <<>>
    /\ starts = 0 /\ crashes = 0 /\ faults = 0

-----------------------------------------------------------------------------
\* The collector and the brokers.

Produce ==
    /\ Len(topic) < MaxMessages
    /\ \E k \in {"event", "garbage"} : topic' = Append(topic, k)
    /\ UNCHANGED <<committed, issued, position, buffer, pc, after, catalog, hint, bounds>>

\* An asynchronous commit reaches the broker, perhaps after the process ended.
CommitArrives ==
    /\ committed # issued
    /\ committed' = issued
    /\ UNCHANGED <<topic, issued, position, buffer, pc, after, catalog, hint, bounds>>

-----------------------------------------------------------------------------
\* The table the hint leads to, or a new one; without a hint `hint` is empty too.
open_or_create_table == hint

\* main: open the table, persist its hint, subscribe.
Start ==
    /\ pc = "down" /\ starts < MaxStarts
    /\ starts' = starts + 1
    /\ catalog' = open_or_create_table
    /\ hint' = open_or_create_table
    /\ position' = committed /\ issued' = committed
    /\ buffer' = <<>>
    /\ pc' = "loop"
    /\ UNCHANGED <<topic, committed, after, crashes, faults>>

IsFull(b) == Len(b) >= BatchSize

\* A message arrives: its offset is committed though the event is only buffered,
\* unless it fills the batch, which is flushed first.
Recv ==
    /\ pc = "loop" /\ position < Len(topic)
    /\ position' = position + 1
    /\ buffer' = IF topic[position + 1] = "event" THEN Append(buffer, position + 1) ELSE buffer
    /\ IF topic[position + 1] = "event" /\ IsFull(buffer')
       THEN pc' = "writing" /\ after' = "commit" /\ UNCHANGED issued
       ELSE issued' = position' /\ UNCHANGED <<pc, after>>
    /\ UNCHANGED <<topic, committed, catalog, hint, bounds>>

\* Mutant of HasBuffered: the timer waits for a full batch.
HasBuffered_full == IsFull(buffer)

HasBuffered == buffer # <<>>

\* The flush timer.
Tick ==
    /\ pc = "loop" /\ HasBuffered
    /\ pc' = "writing" /\ after' = "tick"
    /\ UNCHANGED <<topic, committed, issued, position, buffer, catalog, hint, bounds>>

\* Mutant of Shutdown: the process ends without the last flush.
Shutdown_at_once ==
    /\ pc = "loop"
    /\ pc' = "down" /\ buffer' = <<>>
    /\ UNCHANGED <<topic, committed, issued, position, after, catalog, hint, bounds>>

\* ctrl_c flushes what is buffered and ends the loop.
Shutdown ==
    /\ pc = "loop"
    /\ IF buffer # <<>>
       THEN pc' = "writing" /\ after' = "stop"
       ELSE pc' = "down" /\ UNCHANGED after
    /\ UNCHANGED <<topic, committed, issued, position, buffer, catalog, hint, bounds>>

-----------------------------------------------------------------------------
\* write_batch: the data file, then the snapshot; the transaction refreshes its
\* base from the catalog before it commits.
CommitSnapshot ==
    /\ pc = "writing"
    /\ catalog' = Append(catalog, buffer)
    /\ pc' = "hinting"
    /\ UNCHANGED <<topic, committed, issued, position, buffer, after, hint, bounds>>

\* flush logs an error of write_batch and clears the buffer in either case.
Cleared(ok) == <<>>

\* flush returns to the branch of the loop it was called from.
EndFlush(ok) ==
    /\ buffer' = Cleared(ok)
    /\ pc' = IF after = "stop" THEN "down" ELSE "loop"
    /\ issued' = IF after = "commit" THEN position ELSE issued
    /\ UNCHANGED <<topic, committed, position, after, catalog, starts, crashes>>

PersistHint ==
    /\ pc = "hinting"
    /\ hint' = catalog
    /\ EndFlush(TRUE)
    /\ UNCHANGED faults

\* The data file or the snapshot fails, or the hint fails after the snapshot.
FlushFails ==
    /\ pc \in {"writing", "hinting"} /\ faults < MaxFaults
    /\ faults' = faults + 1
    /\ EndFlush(FALSE)
    /\ UNCHANGED hint

Crash ==
    /\ pc # "down" /\ crashes < MaxCrashes
    /\ crashes' = crashes + 1
    /\ pc' = "down"
    /\ buffer' = <<>>
    /\ UNCHANGED <<topic, committed, issued, position, after, catalog, hint, starts, faults>>

Flush == CommitSnapshot \/ PersistHint

WarmNext ==
    \/ Produce \/ CommitArrives \/ Start \/ Recv \/ Tick \/ Shutdown
    \/ Flush \/ FlushFails \/ Crash

-----------------------------------------------------------------------------
\* Properties.

Events == { o \in DOMAIN topic : topic[o] = "event" }
InTable(table, o) == \E i \in DOMAIN table : o \in ToSet(table[i])
InBuffer(o) == o \in ToSet(buffer)

\* Events whose offset is committed and that no table and no buffer holds.
Lost ==
    { o \in Events : o <= committed /\ ~InBuffer(o)
                     /\ ~InTable(IF pc = "down" THEN hint ELSE catalog, o) }

\* A process that is only ever stopped by ctrl_c loses nothing: an event whose
\* offset is committed is buffered or in the table a restart reopens.  A failed
\* flush costs the batch it held and a crash the buffer; what a lagging hint loses
\* at a restart was paid for by the failure that made it lag.
LossBoundedByBatch == Cardinality(Lost) <= (faults + crashes) * BatchSize

\* While nothing fails, an event that was produced reaches the table behind the
\* hint, also when no further event comes to fill its batch.
EventsReachTheTable ==
    \A o \in 1..MaxMessages :
        o \in Events ~> \/ InTable(hint, o)
                        \/ pc = "down" /\ starts = MaxStarts
                        \/ faults + crashes > 0
=============================================================================
