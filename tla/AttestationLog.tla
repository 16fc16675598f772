--------------------------- MODULE AttestationLog ---------------------------
(***************************************************************************)
(* AttestationLog (crates/attest-attestation/src/log.rs): the hash-chained *)
(* log every agent decision is appended to.  A row goes to the object      *)
(* store first, when one is configured, and to the local NDJSON file       *)
(* second; an in-process mutex makes read-tip, sign and write one critical *)
(* section.                                                                *)
(*                                                                         *)
(* A call is one sign_and_append.  Its steps are the awaits of the code:   *)
(* between two of them the process may crash, the object store may fail    *)
(* (with or without having applied a PUT) and other processes run.         *)
(*                                                                         *)
(* The in-process mutex is per process: two orchestrators that share a     *)
(* bucket share no lock.                                                   *)
(***************************************************************************)
EXTENDS EnvelopeChain

CONSTANTS
    Procs,          \* orchestrator processes
    Calls,          \* sign_and_append calls; a call is also the hash of its row
    ProcOf,         \* the process a call runs in
    ActionId,       \* agent_action_id of the envelope a call appends
    UseObjects,     \* ATTEST_LOG_S3_BUCKET is set
    EphemeralKey,   \* ATTEST_SIGNING_KEY is unset
    DiskFaults,     \* local writes may fail part way
    OldRows,        \* rows a local-only deployment left in the file
    MaxCrashes      \* bound on process restarts

ASSUME LogConstants ==
    /\ Calls \subseteq Nat \ {GENESIS}
    /\ ProcOf \in [Calls -> Procs]
    /\ ActionId \in [Calls -> Nat]
    /\ UseObjects \in BOOLEAN
    /\ EphemeralKey \in BOOLEAN
    /\ DiskFaults \in BOOLEAN
    /\ OldRows \in Seq(Envelope)
    /\ MaxCrashes \in Nat

Free == 0                   \* no call holds the mutex

\* A line that does not parse as an envelope.
Bad == [call |-> 0, id |-> 0, prev |-> 0, key |-> 0]

VARIABLES
    objects,    \* the bucket: set of [seq, env]; the key is seq and env.id
    tipJson,    \* tip.json: [hash, count]
    file,       \* per process: [exists, lines, open], open = no newline at end
    lock,       \* per process: the call that holds the mutex
    pc,         \* per call: where it is
    env,        \* per call: the envelope it signed
    seq,        \* per call: the row count it read with the tip
    key,        \* per process: the signing key
    crashes     \* restarts so far

vars == <<objects, tipJson, file, lock, pc, env, seq, key, crashes>>

InCall   == {"hydrate", "tip", "put", "put_tip", "local"}
Finished == {"ok", "err", "crashed"}

NoFile == [exists |-> FALSE, lines |-> <<>>, open |-> FALSE]

Init ==
    /\ objects = {}
    /\ tipJson = [hash |-> GENESIS, count |-> 0]
    /\ file = [p \in Procs |-> IF OldRows = <<>> THEN NoFile
                               ELSE [exists |-> TRUE, lines |-> OldRows, open |-> FALSE]]
    /\ lock = [p \in Procs |-> Free]
    /\ pc = [c \in Calls |-> "start"]
    /\ env = [c \in Calls |-> Bad]
    /\ seq = [c \in Calls |-> 0]
    /\ key = [p \in Procs |-> 1]
    /\ crashes = 0

-----------------------------------------------------------------------------
\* Reading.  A read yields a set of possible results; the empty set is Err.

read_objects == order_by_chain(objects)

\* Mutant of read_ndjson: lines that do not parse are skipped.
read_ndjson_skips(p) == {SelectSeq(file[p].lines, LAMBDA l : l # Bad)}

\* read_ndjson: one line that does not parse fails the whole read.
read_ndjson(p) ==
    { s \in {file[p].lines} : \A i \in 1..Len(s) : s[i] # Bad }

\* Mutant of read_all: the local file wins when there is one.
read_all_local_first(p) ==
    IF file[p].exists THEN read_ndjson(p)
    ELSE IF UseObjects THEN read_objects ELSE {<<>>}

\* read_all: the object store is the source of truth unless it is empty.
read_all(p) ==
    IF UseObjects /\ objects # {} THEN read_objects
    ELSE IF file[p].exists THEN read_ndjson(p)
    ELSE {<<>>}

\* Mutant of TipOf: the first row instead of the last.
TipOf_first(rows) == IF rows = <<>> THEN GENESIS ELSE chain_hash(rows[1])

TipOf(rows) == IF rows = <<>> THEN GENESIS ELSE chain_hash(rows[Len(rows)])

-----------------------------------------------------------------------------
\* Control shared by the steps of a call.

At(c, step) == pc[c] = step /\ lock[ProcOf[c]] = c

Goto(c, step) == pc' = [pc EXCEPT ![c] = step]

\* Mutant of Return: an error path keeps the guard.
Return_keeps_lock(c, result) ==
    /\ Goto(c, result)
    /\ lock' = IF result = "err" THEN lock ELSE [lock EXCEPT ![ProcOf[c]] = Free]

\* Return from sign_and_append; dropping the guard releases the mutex.
Return(c, result) ==
    /\ Goto(c, result)
    /\ lock' = [lock EXCEPT ![ProcOf[c]] = Free]

Lock(c) ==
    /\ pc[c] = "start"
    /\ lock[ProcOf[c]] = Free
    /\ lock' = [lock EXCEPT ![ProcOf[c]] = c]
    /\ Goto(c, "hydrate")
    /\ UNCHANGED <<objects, tipJson, file, env, seq, key, crashes>>

-----------------------------------------------------------------------------
\* hydrate_unlocked: rebuild a missing local file from the bucket.

NeedsHydrate(p) == UseObjects /\ ~file[p].exists /\ objects # {}

Hydrate(c) ==
    LET p == ProcOf[c] IN
    /\ At(c, "hydrate")
    /\ IF NeedsHydrate(p)
       THEN \E rows \in read_objects :
              file' = [file EXCEPT ![p] = [exists |-> TRUE, lines |-> rows, open |-> FALSE]]
       ELSE UNCHANGED file
    /\ Goto(c, "tip")
    /\ UNCHANGED <<objects, tipJson, lock, env, seq, key, crashes>>

\* The listing fails, or the write stops part way: fs::write truncates, creates
\* and then writes, so a prefix of the body may be on disk.
PartialBody(rows) ==
    { [exists |-> TRUE, lines |-> SubSeq(rows, 1, n), open |-> open] :
        n \in 1..Len(rows), open \in BOOLEAN } \cup
    { [exists |-> TRUE, lines |-> Append(SubSeq(rows, 1, n), Bad), open |-> TRUE] :
        n \in 0..(Len(rows) - 1) } \cup
    { [exists |-> TRUE, lines |-> <<>>, open |-> FALSE] }

HydrateFails(c) ==
    LET p == ProcOf[c] IN
    /\ At(c, "hydrate")
    /\ UseObjects /\ ~file[p].exists
    /\ \/ UNCHANGED file
       \/ /\ DiskFaults /\ objects # {}
          /\ \E rows \in read_objects : \E f \in PartialBody(rows) :
                file' = [file EXCEPT ![p] = f]
    /\ Return(c, "err")
    /\ UNCHANGED <<objects, tipJson, env, seq, key, crashes>>

-----------------------------------------------------------------------------
\* tip_unlocked, then prev_hash is set and the envelope signed.

\* Mutant of ReadTip: the index of the last row instead of the row count.
ReadTip_last_index(c) ==
    LET p == ProcOf[c] IN
    /\ At(c, "tip")
    /\ \E rows \in read_all(p) :
         /\ env' = [env EXCEPT ![c] = [call |-> c, id |-> ActionId[c],
                                       prev |-> TipOf(rows), key |-> key[p]]]
         /\ seq' = [seq EXCEPT ![c] = Len(rows) - 1]
    /\ Goto(c, IF UseObjects THEN "put" ELSE "local")
    /\ UNCHANGED <<objects, tipJson, file, lock, key, crashes>>

ReadTip(c) ==
    LET p == ProcOf[c] IN
    /\ At(c, "tip")
    /\ \E rows \in read_all(p) :
         /\ env' = [env EXCEPT ![c] = [call |-> c, id |-> ActionId[c],
                                       prev |-> TipOf(rows), key |-> key[p]]]
         /\ seq' = [seq EXCEPT ![c] = Len(rows)]
    /\ Goto(c, IF UseObjects THEN "put" ELSE "local")
    /\ UNCHANGED <<objects, tipJson, file, lock, key, crashes>>

ReadTipFails(c) ==
    /\ At(c, "tip")
    /\ UseObjects \/ read_all(ProcOf[c]) = {}
    /\ Return(c, "err")
    /\ UNCHANGED <<objects, tipJson, file, env, seq, key, crashes>>

-----------------------------------------------------------------------------
\* write_line: put_envelope (two PUTs), then the local append.

\* A PUT replaces the object under the same key.
Stored(c) ==
    { o \in objects : ~(o.seq = seq[c] /\ o.env.id = env[c].id) }
        \cup {[seq |-> seq[c], env |-> env[c]]}

\* Mutant of PutEnvelope: the object is never written.
PutEnvelope_skipped(c) ==
    /\ At(c, "put")
    /\ Goto(c, "put_tip")
    /\ UNCHANGED <<objects, tipJson, file, lock, env, seq, key, crashes>>

PutEnvelope(c) ==
    /\ At(c, "put")
    /\ objects' = Stored(c)
    /\ Goto(c, "put_tip")
    /\ UNCHANGED <<tipJson, file, lock, env, seq, key, crashes>>

\* The PUT errs: refused, or applied with the answer lost.
PutEnvelopeFails(c) ==
    /\ At(c, "put")
    /\ objects' \in {objects, Stored(c)}
    /\ Return(c, "err")
    /\ UNCHANGED <<tipJson, file, env, seq, key, crashes>>

NewTip(c) == [hash |-> chain_hash(env[c]), count |-> seq[c] + 1]

PutTip(c) ==
    /\ At(c, "put_tip")
    /\ tipJson' = NewTip(c)
    /\ Goto(c, "local")
    /\ UNCHANGED <<objects, file, lock, env, seq, key, crashes>>

PutTipFails(c) ==
    /\ At(c, "put_tip")
    /\ tipJson' \in {tipJson, NewTip(c)}
    /\ Return(c, "err")
    /\ UNCHANGED <<objects, file, env, seq, key, crashes>>

\* The lines after `text` is appended: an unterminated last line runs into it.
LinesWith(f, text) ==
    IF f.open THEN [f.lines EXCEPT ![Len(f.lines)] = Bad] ELSE Append(f.lines, text)

WriteLocal(c) ==
    LET f == file[ProcOf[c]] IN
    /\ At(c, "local")
    /\ file' = [file EXCEPT ![ProcOf[c]] =
                  [exists |-> TRUE, lines |-> LinesWith(f, env[c]), open |-> FALSE]]
    /\ Return(c, "ok")
    /\ UNCHANGED <<objects, tipJson, env, seq, key, crashes>>

\* open, write_all or fsync errs: nothing, an empty file, part of the line, the
\* whole line without its newline, or the whole line may be in the file.
PartialLine(f, e) ==
    { f, [f EXCEPT !.exists = TRUE],
      [exists |-> TRUE, lines |-> LinesWith(f, Bad), open |-> TRUE],
      [exists |-> TRUE, lines |-> LinesWith(f, e), open |-> TRUE],
      [exists |-> TRUE, lines |-> LinesWith(f, e), open |-> FALSE] }

WriteLocalFails(c) ==
    /\ DiskFaults
    /\ At(c, "local")
    /\ \E f \in PartialLine(file[ProcOf[c]], env[c]) :
          file' = [file EXCEPT ![ProcOf[c]] = f]
    /\ Return(c, "err")
    /\ UNCHANGED <<objects, tipJson, env, seq, key, crashes>>

-----------------------------------------------------------------------------
\* The process dies and is restarted, on the same disk or, when rows are also
\* kept in the bucket, on a fresh one.  Without ATTEST_SIGNING_KEY it generates
\* a new key (orchestrator main.rs).

Crash(p) ==
    /\ crashes < MaxCrashes
    /\ crashes' = crashes + 1
    /\ pc' = [c \in Calls |-> IF ProcOf[c] = p /\ pc[c] \in InCall THEN "crashed" ELSE pc[c]]
    /\ lock' = [lock EXCEPT ![p] = Free]
    /\ \/ UNCHANGED file
       \/ UseObjects /\ file' = [file EXCEPT ![p] = NoFile]
    /\ key' = IF EphemeralKey THEN [key EXCEPT ![p] = crashes + 2] ELSE key
    /\ UNCHANGED <<objects, tipJson, env, seq>>

Step(c) ==
    \/ Lock(c)
    \/ Hydrate(c) \/ HydrateFails(c)
    \/ ReadTip(c) \/ ReadTipFails(c)
    \/ PutEnvelope(c) \/ PutEnvelopeFails(c)
    \/ PutTip(c) \/ PutTipFails(c)
    \/ WriteLocal(c) \/ WriteLocalFails(c)

Next ==
    \/ \E c \in Calls : Step(c)
    \/ \E p \in Procs : Crash(p)

\* Every await of a running call completes, with a result or an error, and the
\* tokio mutex is handed over in FIFO order; nothing obliges a process to crash.
Fairness == \A c \in Calls : WF_vars(Step(c))

Spec == Init /\ [][Next]_vars

FairSpec == Spec /\ Fairness

-----------------------------------------------------------------------------
\* Properties.

File == [exists : BOOLEAN, lines : Seq(Envelope \cup {Bad}), open : BOOLEAN]

\* Type invariant of the bucket, the files, the mutexes and the calls.
TypeOK ==
    /\ objects \subseteq [seq : Nat, env : Envelope]
    /\ IsFiniteSet(objects)
    /\ tipJson \in [hash : Nat, count : Nat]
    /\ file \in [Procs -> File]
    /\ lock \in [Procs -> Calls \cup {Free}]
    /\ pc \in [Calls -> {"start"} \cup InCall \cup Finished]
    /\ env \in [Calls -> Envelope \cup {Bad}]
    /\ seq \in [Calls -> Nat]
    /\ key \in [Procs -> Nat]
    /\ crashes \in Nat

\* The bucket holds one unforked chain whatever fails and whenever the process
\* restarts: no two rows share a prev_hash, and the row under sequence number n
\* points at the row under n - 1 (sign_and_append under one lock, log.rs).
UnforkedChain ==
    \A o \in objects :
        /\ \A q \in objects : q.env.prev = o.env.prev => q = o
        /\ IF o.seq = 0 THEN o.env.prev = GENESIS
           ELSE \E q \in objects : q.seq = o.seq - 1 /\ chain_hash(q.env) = o.env.prev

\* read_all "Returns in append order" (log.rs:154): every row follows the row it
\* points at, and no stored row is missing or repeated.
ReadsFollowTheChain ==
    \A p \in Procs : \A rows \in read_all(p) :
        /\ \A i \in 2..Len(rows) : rows[i].prev = chain_hash(rows[i - 1])
        /\ UseObjects /\ objects # {} =>
             /\ Len(rows) = Cardinality(objects)
             /\ \A o \in objects : \E i \in 1..Len(rows) : rows[i] = o.env

\* A row whose append returned Ok is in every later read, across crashes, object
\* store failures and fresh disks.
AckedIsReadable ==
    \A c \in Calls : pc[c] = "ok" =>
        \A p \in Procs :
            /\ read_all(p) # {}
            /\ \A rows \in read_all(p) : \E i \in 1..Len(rows) : rows[i] = env[c]

\* verify_log over what readers get fails on exactly the rows another key signed:
\* failed appends and restarts never make a good row look tampered with.
OnlyForeignKeysFail ==
    \A p \in Procs : \A rows \in read_all(p) : \A i \in 1..Len(rows) :
        RowOk(rows, key[p], i) <=> rows[i].key = key[p]

\* In a file-only deployment a file with a line that does not parse takes no more
\* rows: read_ndjson fails every later append instead of chaining past the hole.
UnreadableLogRefuses ==
    [][\A c \in Calls :
        /\ ~UseObjects
        /\ \E i \in 1..Len(file[ProcOf[c]].lines) : file[ProcOf[c]].lines[i] = Bad
        => ~(pc[c] # "ok" /\ pc'[c] = "ok")]_vars

\* An append that is under way ends, with a result or an error, unless the
\* process crashes; the mutex is never leaked, so every call gets its turn.
CallsReturn ==
    \A c \in Calls : pc[c] = "start" ~> pc[c] \in Finished

\* The log readers see behaves as the append-only chain of AppendOnlyLog.
Abstract == INSTANCE AppendOnlyLog WITH
    rows <- IF UseObjects /\ objects = {} THEN <<>>
            ELSE CHOOSE r \in read_all(CHOOSE p \in Procs : TRUE) : TRUE

ImplementsAppendOnlyLog == Abstract!Spec
=============================================================================
