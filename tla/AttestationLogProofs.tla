------------------------ MODULE AttestationLogProofs ------------------------
(***************************************************************************)
(* Proofs about AttestationLog. For every deployment: type correctness,    *)
(* and that no call writes to a log it cannot read. For one orchestrator   *)
(* over its own bucket, whatever fails and whenever it restarts: the log   *)
(* is one unforked chain, reads follow it, an acknowledged row stays       *)
(* readable, only rows of another key fail verification, and the log       *)
(* refines AppendOnlyLog.                                                  *)
(***************************************************************************)
EXTENDS AttestationLog, EnvelopeChainProofs

-----------------------------------------------------------------------------
\* Type correctness.

\* A read returns rows of the log.
LEMMA ReadType ==
    ASSUME TypeOK, NEW p \in Procs
    PROVE  /\ \A rows \in read_objects : rows \in Seq(Envelope)
           /\ \A rows \in read_all(p) : rows \in Seq(Envelope)
  <1>1. \A rows \in read_objects : rows \in Seq(Envelope)
    BY OrderType DEF TypeOK, read_objects, Objects
  <1>2. \A rows \in read_ndjson(p) : rows \in Seq(Envelope)
    <2> SUFFICES ASSUME NEW rows \in read_ndjson(p) PROVE rows \in Seq(Envelope)
      OBVIOUS
    <2>1. rows = file[p].lines /\ \A i \in 1..Len(rows) : rows[i] # Bad
      BY DEF read_ndjson
    <2>2. rows \in Seq(Envelope \cup {Bad})
      BY <2>1 DEF TypeOK, File
    <2>3. \A i \in 1..Len(rows) : rows[i] \in Envelope
      BY <2>1, <2>2
    <2>4. rows \in [1..Len(rows) -> Envelope] /\ Len(rows) \in Nat
      BY <2>2, <2>3
    <2> QED BY <2>4
  <1>3. \A rows \in {<<>>} : rows \in Seq(Envelope)
    OBVIOUS
  <1>4. \/ read_all(p) = read_objects
        \/ read_all(p) = read_ndjson(p)
        \/ read_all(p) = {<<>>}
    BY DEF read_all
  <1> QED BY <1>1, <1>2, <1>3, <1>4

\* last_chain_hash: the tip a read of well-typed rows leaves is the genesis or a row's id.
LEMMA TipType ==
    ASSUME NEW rows \in Seq(Envelope)
    PROVE  TipOf(rows) \in Nat
  <1>1. CASE rows = <<>>
    BY <1>1 DEF TipOf, GENESIS
  <1>2. CASE rows # <<>>
    <2>1. rows[Len(rows)] \in Envelope
      BY <1>2
    <2> QED BY <1>2, <2>1 DEF TipOf, chain_hash, Envelope
  <1> QED BY <1>1, <1>2

\* What a partial rebuild or a partial append leaves is a file.
LEMMA PartialTypes ==
    /\ \A rows \in Seq(Envelope) : PartialBody(rows) \subseteq File
    /\ \A f \in File, e \in Envelope \cup {Bad} :
          /\ LinesWith(f, e) \in Seq(Envelope \cup {Bad})
          /\ PartialLine(f, e) \subseteq File
  <1> DEFINE Line == Envelope \cup {Bad}
  <1>1. ASSUME NEW rows \in Seq(Envelope) PROVE PartialBody(rows) \subseteq File
    <2>1. rows \in Seq(Line)
      OBVIOUS
    <2>2. \A n \in 1..Len(rows) : SubSeq(rows, 1, n) \in Seq(Line)
      BY <2>1
    <2>3. \A n \in 0..(Len(rows) - 1) : Append(SubSeq(rows, 1, n), Bad) \in Seq(Line)
      BY <2>1
    <2>4. <<>> \in Seq(Line)
      OBVIOUS
    <2> SUFFICES ASSUME NEW f \in PartialBody(rows) PROVE f \in File
      OBVIOUS
    <2>5. CASE \E n \in 1..Len(rows), open \in BOOLEAN :
                 f = [exists |-> TRUE, lines |-> SubSeq(rows, 1, n), open |-> open]
      BY <2>2, <2>5 DEF File
    <2>6. CASE \E n \in 0..(Len(rows) - 1) :
                 f = [exists |-> TRUE, lines |-> Append(SubSeq(rows, 1, n), Bad), open |-> TRUE]
      BY <2>3, <2>6 DEF File
    <2>7. CASE f = [exists |-> TRUE, lines |-> <<>>, open |-> FALSE]
      BY <2>4, <2>7 DEF File
    <2> QED BY <2>5, <2>6, <2>7 DEF PartialBody
  <1>2. ASSUME NEW f \in File, NEW e \in Line
        PROVE  LinesWith(f, e) \in Seq(Line)
    <2>1. f.lines \in Seq(Line)
      BY DEF File
    <2>2. Append(f.lines, e) \in Seq(Line)
      BY <2>1
    <2>3. ASSUME NEW s \in Seq(Line) PROVE [s EXCEPT ![Len(s)] = Bad] \in Seq(Line)
      <3>1. s \in [1..Len(s) -> Line] /\ Len(s) \in Nat
        OBVIOUS
      <3>2. Bad \in Line
        OBVIOUS
      <3> HIDE DEF Line
      <3>3. [s EXCEPT ![Len(s)] = Bad] \in [1..Len(s) -> Line]
        BY <3>1, <3>2
      <3> QED BY <3>1, <3>3
    <2>4. [f.lines EXCEPT ![Len(f.lines)] = Bad] \in Seq(Line)
      BY <2>1, <2>3
    <2> QED BY <2>2, <2>4 DEF LinesWith
  <1>3. ASSUME NEW f \in File, NEW e \in Line
        PROVE  PartialLine(f, e) \subseteq File
    <2>1. LinesWith(f, e) \in Seq(Line) /\ LinesWith(f, Bad) \in Seq(Line)
      BY <1>2
    <2> SUFFICES ASSUME NEW g \in PartialLine(f, e) PROVE g \in File
      OBVIOUS
    <2>2. \/ g = f
          \/ g = [f EXCEPT !.exists = TRUE]
          \/ g = [exists |-> TRUE, lines |-> LinesWith(f, Bad), open |-> TRUE]
          \/ g = [exists |-> TRUE, lines |-> LinesWith(f, e), open |-> TRUE]
          \/ g = [exists |-> TRUE, lines |-> LinesWith(f, e), open |-> FALSE]
      BY DEF PartialLine
    <2>3. CASE g = [f EXCEPT !.exists = TRUE]
      <3>1. f = [exists |-> f.exists, lines |-> f.lines, open |-> f.open]
        BY DEF File
      <3>2. g = [exists |-> TRUE, lines |-> f.lines, open |-> f.open]
        BY <2>3, <3>1
      <3> QED BY <3>2 DEF File
    <2>4. CASE g \in { [exists |-> TRUE, lines |-> LinesWith(f, Bad), open |-> TRUE],
                        [exists |-> TRUE, lines |-> LinesWith(f, e), open |-> TRUE],
                        [exists |-> TRUE, lines |-> LinesWith(f, e), open |-> FALSE] }
      <3> DEFINE a == LinesWith(f, Bad)
                 b == LinesWith(f, e)
      <3>1. a \in Seq(Line) /\ b \in Seq(Line)
        BY <2>1
      <3>2. \/ g = [exists |-> TRUE, lines |-> a, open |-> TRUE]
            \/ g = [exists |-> TRUE, lines |-> b, open |-> TRUE]
            \/ g = [exists |-> TRUE, lines |-> b, open |-> FALSE]
        BY <2>4
      <3>3. PICK lines \in {a, b}, open \in BOOLEAN :
                 g = [exists |-> TRUE, lines |-> lines, open |-> open]
        BY <3>2
      <3>4. lines \in Seq(Line)
        BY <3>1, <3>3
      <3> HIDE DEF a, b
      <3> QED BY <3>3, <3>4 DEF File
    <2> QED BY <2>2, <2>3, <2>4
  <1> QED BY <1>1, <1>2, <1>3

\* A call that is writing has signed its envelope.
SignedBeforeWrite ==
    \A c \in Calls : pc[c] \in {"put", "put_tip", "local"} =>
        env[c] \in Envelope /\ env[c].call = c /\ env[c].id = ActionId[c]

\* TypeOK is not inductive alone: what a PUT stores is typed because the call
\* signed it earlier.
TypeInv == TypeOK /\ SignedBeforeWrite

\* Every step keeps the type invariant, for every number of processes, with or
\* without an object store, and whatever rows were there before.
THEOREM LogTypeInvariant == Spec => []TypeInv
  <1> USE LogConstants
  <1>1. Init => TypeInv
    <2> SUFFICES ASSUME Init PROVE TypeInv
      OBVIOUS
    <2>1. objects \subseteq [seq : Nat, env : Envelope] /\ IsFiniteSet(objects)
      BY FS_EmptySet DEF Init
    <2>2. tipJson \in [hash : Nat, count : Nat]
      BY DEF Init, GENESIS
    <2>3. file \in [Procs -> File]
      <3>1. OldRows \in Seq(Envelope \cup {Bad}) /\ <<>> \in Seq(Envelope \cup {Bad})
        OBVIOUS
      <3>2. NoFile \in File /\ [exists |-> TRUE, lines |-> OldRows, open |-> FALSE] \in File
        BY <3>1 DEF NoFile, File
      <3> QED BY <3>2 DEF Init
    <2>4. lock \in [Procs -> Calls \cup {Free}] /\ env \in [Calls -> Envelope \cup {Bad}]
      BY DEF Init
    <2>5. pc \in [Calls -> {"start"} \cup InCall \cup Finished]
      BY DEF Init
    <2>6. seq \in [Calls -> Nat] /\ key \in [Procs -> Nat] /\ crashes \in Nat
      BY DEF Init
    <2>7. SignedBeforeWrite
      BY DEF Init, SignedBeforeWrite
    <2> QED BY <2>1, <2>2, <2>3, <2>4, <2>5, <2>6, <2>7 DEF TypeOK, TypeInv
  <1>2. TypeInv /\ [Next]_vars => TypeInv'
    <2> SUFFICES ASSUME TypeOK, SignedBeforeWrite, [Next]_vars
                 PROVE  TypeOK' /\ SignedBeforeWrite'
      BY DEF TypeInv
    <2> USE DEF At, InCall, Finished
    <2>1. ASSUME NEW c \in Calls, Lock(c) PROVE TypeOK' /\ SignedBeforeWrite'
      BY <2>1 DEF TypeOK, SignedBeforeWrite, Lock, Goto
    <2>2. ASSUME NEW c \in Calls, Hydrate(c) PROVE TypeOK' /\ SignedBeforeWrite'
      <3>1. file' \in [Procs -> File]
        <4>1. CASE UNCHANGED file
          BY <4>1 DEF TypeOK
        <4>2. CASE \E rows \in read_objects :
                     file' = [file EXCEPT ![ProcOf[c]] =
                                [exists |-> TRUE, lines |-> rows, open |-> FALSE]]
          <5>1. PICK rows \in read_objects :
                     file' = [file EXCEPT ![ProcOf[c]] =
                                [exists |-> TRUE, lines |-> rows, open |-> FALSE]]
            BY <4>2
          <5>2. ProcOf[c] \in Procs /\ rows \in Seq(Envelope \cup {Bad})
            BY ReadType
          <5>3. [exists |-> TRUE, lines |-> rows, open |-> FALSE] \in File
            BY <5>2 DEF File
          <5> QED BY <5>1, <5>3 DEF TypeOK
        <4> QED BY <2>2, <4>1, <4>2 DEF Hydrate
      <3> QED BY <2>2, <3>1 DEF TypeOK, SignedBeforeWrite, Hydrate, Goto
    <2>3. ASSUME NEW c \in Calls, HydrateFails(c) PROVE TypeOK' /\ SignedBeforeWrite'
      <3>1. file' \in [Procs -> File]
        <4>1. CASE UNCHANGED file
          BY <4>1 DEF TypeOK
        <4>2. CASE \E rows \in read_objects : \E f \in PartialBody(rows) :
                     file' = [file EXCEPT ![ProcOf[c]] = f]
          <5>1. PICK rows \in read_objects : \E f \in PartialBody(rows) :
                     file' = [file EXCEPT ![ProcOf[c]] = f]
            BY <4>2
          <5>2. PICK f \in PartialBody(rows) : file' = [file EXCEPT ![ProcOf[c]] = f]
            BY <5>1
          <5>3. f \in File
            BY ReadType, PartialTypes
          <5> QED BY <5>2, <5>3 DEF TypeOK
        <4> QED BY <2>3, <4>1, <4>2 DEF HydrateFails
      <3> QED BY <2>3, <3>1 DEF TypeOK, SignedBeforeWrite, HydrateFails, Return, Goto
    <2>4. ASSUME NEW c \in Calls, ReadTip(c) PROVE TypeOK' /\ SignedBeforeWrite'
      <3>1. ProcOf[c] \in Procs
        OBVIOUS
      <3>2. PICK rows \in read_all(ProcOf[c]) :
               /\ env' = [env EXCEPT ![c] = [call |-> c, id |-> ActionId[c],
                                             prev |-> TipOf(rows), key |-> key[ProcOf[c]]]]
               /\ seq' = [seq EXCEPT ![c] = Len(rows)]
        BY <2>4 DEF ReadTip
      <3>3. rows \in Seq(Envelope)
        BY <3>1, ReadType
      <3>4. TipOf(rows) \in Nat /\ Len(rows) \in Nat
        BY <3>3, TipType
      <3>5. [call |-> c, id |-> ActionId[c], prev |-> TipOf(rows), key |-> key[ProcOf[c]]]
                 \in Envelope
        BY <3>1, <3>4 DEF TypeOK, Envelope
      <3>6. env' \in [Calls -> Envelope \cup {Bad}] /\ seq' \in [Calls -> Nat]
        BY <3>2, <3>4, <3>5 DEF TypeOK
      <3>7. SignedBeforeWrite'
        BY <2>4, <3>2, <3>5 DEF TypeOK, SignedBeforeWrite, ReadTip, Goto
      <3> QED BY <2>4, <3>6, <3>7 DEF TypeOK, ReadTip, Goto
    <2>5. ASSUME NEW c \in Calls, ReadTipFails(c) PROVE TypeOK' /\ SignedBeforeWrite'
      BY <2>5 DEF TypeOK, SignedBeforeWrite, ReadTipFails, Return, Goto
    <2>6. ASSUME NEW c \in Calls, PutEnvelope(c) \/ PutEnvelopeFails(c)
          PROVE  TypeOK' /\ SignedBeforeWrite'
      <3>1. [seq |-> seq[c], env |-> env[c]] \in [seq : Nat, env : Envelope]
        BY <2>6 DEF TypeOK, SignedBeforeWrite, PutEnvelope, PutEnvelopeFails
      <3>2. Stored(c) \subseteq [seq : Nat, env : Envelope]
        BY <3>1 DEF TypeOK, Stored
      <3>3. IsFiniteSet(Stored(c))
        <4> DEFINE K == { o \in objects : ~(o.seq = seq[c] /\ o.env.id = env[c].id) }
        <4>1. IsFiniteSet(K)
          BY FS_Subset DEF TypeOK
        <4> QED BY <4>1, FS_AddElement DEF Stored
      <3>4. objects' = objects \/ objects' = Stored(c)
        BY <2>6 DEF PutEnvelope, PutEnvelopeFails
      <3>5. objects' \subseteq [seq : Nat, env : Envelope] /\ IsFiniteSet(objects')
        BY <3>2, <3>3, <3>4 DEF TypeOK
      <3> QED BY <2>6, <3>5
            DEF TypeOK, SignedBeforeWrite, PutEnvelope, PutEnvelopeFails, Return, Goto
    <2>7. ASSUME NEW c \in Calls, PutTip(c) \/ PutTipFails(c)
          PROVE  TypeOK' /\ SignedBeforeWrite'
      <3>1. NewTip(c) \in [hash : Nat, count : Nat]
        BY <2>7 DEF TypeOK, SignedBeforeWrite, PutTip, PutTipFails, NewTip, chain_hash
      <3> QED BY <2>7, <3>1
            DEF TypeOK, SignedBeforeWrite, PutTip, PutTipFails, Return, Goto
    <2>8. ASSUME NEW c \in Calls, WriteLocal(c) PROVE TypeOK' /\ SignedBeforeWrite'
      <3>1. ProcOf[c] \in Procs /\ file[ProcOf[c]] \in File
        BY DEF TypeOK
      <3>2. env[c] \in Envelope
        BY <2>8 DEF SignedBeforeWrite, WriteLocal
      <3>3. LinesWith(file[ProcOf[c]], env[c]) \in Seq(Envelope \cup {Bad})
        BY <3>1, <3>2, PartialTypes
      <3>4. [exists |-> TRUE, lines |-> LinesWith(file[ProcOf[c]], env[c]), open |-> FALSE]
                \in File
        BY <3>3 DEF File
      <3> QED BY <2>8, <3>1, <3>4 DEF TypeOK, SignedBeforeWrite, WriteLocal, Return, Goto
    <2>9. ASSUME NEW c \in Calls, WriteLocalFails(c) PROVE TypeOK' /\ SignedBeforeWrite'
      <3>1. ProcOf[c] \in Procs /\ file[ProcOf[c]] \in File
        BY DEF TypeOK
      <3>2. env[c] \in Envelope
        BY <2>9 DEF SignedBeforeWrite, WriteLocalFails
      <3>3. PartialLine(file[ProcOf[c]], env[c]) \subseteq File
        BY <3>1, <3>2, PartialTypes
      <3>4. file' \in [Procs -> File]
        BY <2>9, <3>3 DEF TypeOK, WriteLocalFails
      <3> QED BY <2>9, <3>4 DEF TypeOK, SignedBeforeWrite, WriteLocalFails, Return, Goto
    <2>10. ASSUME NEW p \in Procs, Crash(p) PROVE TypeOK' /\ SignedBeforeWrite'
      <3>1. NoFile \in File
        <4>1. <<>> \in Seq(Envelope \cup {Bad})
          OBVIOUS
        <4> QED BY <4>1 DEF NoFile, File
      <3>2. file' \in [Procs -> File]
        BY <2>10, <3>1 DEF TypeOK, Crash
      <3>3. pc' \in [Calls -> {"start"} \cup InCall \cup Finished]
        BY <2>10 DEF TypeOK, Crash
      <3>4. SignedBeforeWrite'
        BY <2>10 DEF TypeOK, SignedBeforeWrite, Crash
      <3>5. crashes' \in Nat /\ key' \in [Procs -> Nat]
        BY <2>10 DEF TypeOK, Crash
      <3>6. lock' \in [Procs -> Calls \cup {Free}]
        BY <2>10 DEF TypeOK, Crash
      <3> QED BY <2>10, <3>2, <3>3, <3>4, <3>5, <3>6 DEF TypeOK, Crash
    <2>11. CASE UNCHANGED vars
      BY <2>11 DEF TypeOK, SignedBeforeWrite, vars
    <2> QED
      BY <2>1, <2>2, <2>3, <2>4, <2>5, <2>6, <2>7, <2>8, <2>9, <2>10, <2>11 DEF Next, Step
  <1>3. QED
    BY <1>1, <1>2, PTL DEF Spec

\* Every reachable state is well typed.
THEOREM LogTypeCorrect == Spec => []TypeOK
  <1>1. TypeInv => TypeOK
    BY DEF TypeInv
  <1> QED BY <1>1, LogTypeInvariant, PTL

-----------------------------------------------------------------------------
(***************************************************************************)
(* The unforked chain.  One orchestrator owns the bucket, and the bucket   *)
(* was configured before the first row was written.                        *)
(***************************************************************************)
SingleWriter ==
    /\ UseObjects
    /\ OldRows = <<>>
    /\ \A p, q \in Procs : p = q

\* A call between taking the mutex and returning holds it.
HoldsMutex == \A c \in Calls : pc[c] \in InCall => lock[ProcOf[c]] = c

\* A stored row belongs to a call that is past its PUT.
StoredIsPast ==
    \A o \in objects :
        o.env.call \in Calls /\ pc[o.env.call] \in {"put_tip", "local"} \cup Finished

\* A call about to PUT signed onto the tip the bucket still has: the tip it read
\* is not stale when it is used.
TipStillFresh ==
    \A c \in Calls : pc[c] = "put" =>
        /\ Linear(objects, seq[c])
        /\ seq[c] = 0 => env[c].prev = GENESIS
        /\ \A o \in objects : seq[c] = o.seq + 1 => env[c].prev = chain_hash(o.env)

\* The local file has rows only once the bucket has.
FileAfterBucket ==
    objects = {} =>
        /\ \A p \in Procs : file[p].lines = <<>>
        /\ \A c \in Calls : pc[c] \notin {"put_tip", "local"}

ChainInv ==
    /\ HoldsMutex
    /\ \E n \in Nat : Linear(objects, n)
    /\ StoredIsPast
    /\ TipStillFresh
    /\ FileAfterBucket

\* What a reader gets: the rows of the bucket, one per sequence number, in order.
LEMMA ReadIsTheChain ==
    ASSUME SingleWriter, TypeOK, ChainInv, NEW p \in Procs, NEW rows \in read_all(p)
    PROVE  /\ rows \in Seq(Envelope)
           /\ Linear(objects, Len(rows))
           /\ \A i \in 1..Len(rows) : [seq |-> i - 1, env |-> rows[i]] \in objects
  <1>1. PICK n \in Nat : Linear(objects, n)
    BY DEF ChainInv
  <1>2. objects \subseteq Objects
    BY DEF TypeOK, Objects
  <1>3. rows \in Seq(Envelope)
    BY ReadType
  <1>4. CASE objects # {}
    <2>1. rows \in order_by_chain(objects)
      BY <1>4 DEF read_all, read_objects, SingleWriter
    <2>2. Len(rows) = n /\ \A i \in 1..n : [seq |-> i - 1, env |-> rows[i]] \in objects
      BY <1>1, <1>2, <2>1, OrderOfLinearChain
    <2> QED BY <1>1, <1>3, <2>2
  <1>5. CASE objects = {}
    <2>1. n = 0
      <3>1. CASE n # 0
        <4>1. 0 \in 0..(n - 1)
          BY <3>1
        <4> QED BY <1>1, <1>5, <4>1 DEF Linear
      <3> QED BY <3>1
    <2>2. file[p].lines = <<>>
      BY <1>5 DEF ChainInv, FileAfterBucket
    <2>3. rows = <<>>
      BY <1>5, <2>2 DEF read_all, read_ndjson
    <2> QED BY <1>1, <1>3, <2>1, <2>3
  <1> QED BY <1>4, <1>5

\* The object a row of a read comes from: the row after object o is row o.seq + 1.
LEMMA RowOfObject ==
    ASSUME NEW rows \in Seq(Envelope), objects \subseteq Objects, Linear(objects, Len(rows)),
           \A i \in 1..Len(rows) : [seq |-> i - 1, env |-> rows[i]] \in objects,
           NEW o \in objects
    PROVE  o.seq + 1 \in 1..Len(rows) /\ rows[o.seq + 1] = o.env
  <1>1. o.seq \in 0..(Len(rows) - 1)
    BY DEF Linear
  <1>2. o.seq + 1 \in 1..Len(rows) /\ (o.seq + 1) - 1 = o.seq
    BY <1>1
  <1>3. [seq |-> o.seq, env |-> rows[o.seq + 1]] \in objects
    BY <1>2
  <1>4. o = [seq |-> o.seq, env |-> rows[o.seq + 1]]
    BY <1>3 DEF Linear
  <1>5. o.env = rows[o.seq + 1]
    BY <1>4
  <1> QED BY <1>2, <1>5

\* The tip a call reads: the length and the last row of the chain in the bucket.
LEMMA TipOfLinearChain ==
    ASSUME SingleWriter, TypeOK, ChainInv, NEW p \in Procs, NEW rows \in read_all(p)
    PROVE  /\ Linear(objects, Len(rows))
           /\ Len(rows) = 0 => TipOf(rows) = GENESIS
           /\ \A o \in objects : Len(rows) = o.seq + 1 => TipOf(rows) = chain_hash(o.env)
  <1>1. /\ rows \in Seq(Envelope)
        /\ Linear(objects, Len(rows))
        /\ \A i \in 1..Len(rows) : [seq |-> i - 1, env |-> rows[i]] \in objects
    BY ReadIsTheChain
  <1>2. Len(rows) = 0 => TipOf(rows) = GENESIS
    BY <1>1 DEF TipOf
  <1>3. ASSUME NEW o \in objects, Len(rows) = o.seq + 1 PROVE TipOf(rows) = chain_hash(o.env)
    <2>1. Len(rows) \in 1..Len(rows) /\ rows[Len(rows)] = o.env
      BY <1>1, <1>3, RowOfObject DEF TypeOK, Objects
    <2>2. rows # <<>>
      BY <2>1
    <2> QED BY <2>1, <2>2 DEF TipOf
  <1> QED BY <1>1, <1>2, <1>3

\* In a single-writer deployment two calls are never both past the mutex.
LEMMA OneCallInside ==
    ASSUME SingleWriter, HoldsMutex, NEW c \in Calls, NEW d \in Calls,
           pc[c] \in InCall, pc[d] \in InCall
    PROVE  c = d
  <1>1. ProcOf[c] \in Procs /\ ProcOf[d] \in Procs
    BY LogConstants
  <1>2. ProcOf[c] = ProcOf[d]
    BY <1>1 DEF SingleWriter
  <1> QED BY <1>2 DEF HoldsMutex

\* A PUT replaces nothing: its sequence number is the length of the chain.
LEMMA PutExtends ==
    ASSUME TypeInv, ChainInv, NEW c \in Calls, pc[c] = "put"
    PROVE  /\ seq[c] \in Nat /\ Linear(objects, seq[c])
           /\ Stored(c) = objects \cup {[seq |-> seq[c], env |-> env[c]]}
  <1>1. Linear(objects, seq[c]) /\ seq[c] \in Nat
    BY DEF ChainInv, TipStillFresh, TypeInv, TypeOK
  <1>2. \A o \in objects : o.seq \in 0..(seq[c] - 1)
    BY <1>1 DEF Linear
  <1>3. \A o \in objects : ~(o.seq = seq[c] /\ o.env.id = env[c].id)
    BY <1>1, <1>2
  <1> QED BY <1>1, <1>3 DEF Stored

\* The inductive step: an append reads the tip, signs and stores inside one
\* critical section, so what it stores extends the chain.
LEMMA ChainStep ==
    ASSUME SingleWriter, TypeInv, TypeInv', ChainInv, [Next]_vars
    PROVE  ChainInv'
  <1> USE LogConstants DEF TypeInv
  <1> USE DEF InCall, Finished, At
  \* Steps that leave the bucket and the signed envelopes alone.
  <1>1. ASSUME UNCHANGED <<objects, env, seq>>,
               HoldsMutex',
               \A c \in Calls : pc'[c] = "put" => pc[c] = "put",
               \A c \in Calls : pc[c] \in {"put_tip", "local"} \cup Finished =>
                                   pc'[c] \in {"put_tip", "local"} \cup Finished,
               FileAfterBucket'
        PROVE  ChainInv'
    <2>1. \E n \in Nat : Linear(objects', n)
      BY <1>1 DEF ChainInv
    <2>2. StoredIsPast'
      BY <1>1 DEF ChainInv, StoredIsPast
    <2>3. TipStillFresh'
      BY <1>1 DEF ChainInv, TipStillFresh
    <2> QED BY <1>1, <2>1, <2>2, <2>3 DEF ChainInv
  <1>2. ASSUME NEW c \in Calls, Lock(c) PROVE ChainInv'
    <2>1. HoldsMutex'
      <3> SUFFICES ASSUME NEW d \in Calls, pc'[d] \in InCall PROVE lock'[ProcOf[d]] = d
        BY DEF HoldsMutex
      <3>1. ProcOf[d] \in Procs /\ ProcOf[c] \in Procs /\ ProcOf[c] = ProcOf[d]
        BY DEF SingleWriter
      <3>2. CASE d = c
        BY <1>2, <3>1, <3>2 DEF Lock, TypeOK
      <3>3. CASE d # c
        <4>1. lock[ProcOf[d]] = d
          BY <1>2, <3>3 DEF Lock, Goto, TypeOK, ChainInv, HoldsMutex
        <4> QED BY <1>2, <3>1, <4>1 DEF Lock, Free, GENESIS
      <3> QED BY <3>2, <3>3
    <2>2. FileAfterBucket'
      BY <1>2 DEF Lock, Goto, TypeOK, ChainInv, FileAfterBucket
    <2> QED BY <1>1, <1>2, <2>1, <2>2 DEF Lock, Goto, TypeOK
  <1>3. ASSUME NEW c \in Calls, Hydrate(c) PROVE ChainInv'
    <2>1. HoldsMutex'
      BY <1>3 DEF Hydrate, Goto, TypeOK, ChainInv, HoldsMutex
    <2>2. FileAfterBucket'
      BY <1>3 DEF Hydrate, NeedsHydrate, Goto, TypeOK, ChainInv, FileAfterBucket
    <2> QED BY <1>1, <1>3, <2>1, <2>2 DEF Hydrate, Goto, TypeOK
  \* A call that returns is the only one inside, so the mutex it releases is its own.
  <1>4. ASSUME NEW c \in Calls, NEW r \in {"ok", "err"}, pc[c] \in InCall, Return(c, r)
        PROVE  /\ HoldsMutex'
               /\ \A d \in Calls : pc'[d] = IF d = c THEN r ELSE pc[d]
    <2>1. \A d \in Calls : pc'[d] = IF d = c THEN r ELSE pc[d]
      BY <1>4 DEF Return, Goto, TypeOK
    <2>2. \A d \in Calls : pc[d] \in InCall => d = c
      BY <1>4, OneCallInside DEF ChainInv
    <2> QED BY <2>1, <2>2 DEF HoldsMutex
  <1>5. ASSUME NEW c \in Calls, HydrateFails(c) PROVE ChainInv'
    <2>1. HoldsMutex' /\ \A d \in Calls : pc'[d] = IF d = c THEN "err" ELSE pc[d]
      BY <1>4, <1>5 DEF HydrateFails
    <2>2. FileAfterBucket'
      BY <1>5, <2>1 DEF HydrateFails, ChainInv, FileAfterBucket
    <2> QED BY <1>1, <1>5, <2>1, <2>2 DEF HydrateFails
  <1>6. ASSUME NEW c \in Calls, ReadTipFails(c) PROVE ChainInv'
    <2>1. HoldsMutex' /\ \A d \in Calls : pc'[d] = IF d = c THEN "err" ELSE pc[d]
      BY <1>4, <1>6 DEF ReadTipFails
    <2>2. FileAfterBucket'
      BY <1>6, <2>1 DEF ReadTipFails, ChainInv, FileAfterBucket
    <2> QED BY <1>1, <1>6, <2>1, <2>2 DEF ReadTipFails
  <1>7. ASSUME NEW c \in Calls, ReadTip(c) PROVE ChainInv'
    <2>1. ProcOf[c] \in Procs
      OBVIOUS
    <2>2. PICK rows \in read_all(ProcOf[c]) :
             /\ env' = [env EXCEPT ![c] = [call |-> c, id |-> ActionId[c],
                                           prev |-> TipOf(rows), key |-> key[ProcOf[c]]]]
             /\ seq' = [seq EXCEPT ![c] = Len(rows)]
      BY <1>7 DEF ReadTip
    <2>3. /\ Linear(objects, Len(rows))
          /\ Len(rows) = 0 => TipOf(rows) = GENESIS
          /\ \A o \in objects : Len(rows) = o.seq + 1 => TipOf(rows) = chain_hash(o.env)
      BY <2>1, TipOfLinearChain
    <2>4. env'[c].prev = TipOf(rows) /\ seq'[c] = Len(rows)
      BY <2>2 DEF TypeOK
    <2>5. \A d \in Calls : pc'[d] = IF d = c THEN "put" ELSE pc[d]
      BY <1>7 DEF ReadTip, Goto, TypeOK, SingleWriter
    <2>6. \A d \in Calls : pc[d] \in InCall => d = c
      BY <1>7, OneCallInside DEF ChainInv, ReadTip
    <2>7. TipStillFresh'
      <3>1. \A d \in Calls : pc'[d] = "put" => d = c
        BY <2>5, <2>6
      <3>2. objects' = objects
        BY <1>7 DEF ReadTip
      <3> QED BY <2>3, <2>4, <3>1, <3>2 DEF TipStillFresh
    <2>8. HoldsMutex' /\ StoredIsPast' /\ FileAfterBucket'
      BY <1>7, <2>5 DEF ReadTip, ChainInv, HoldsMutex, StoredIsPast, FileAfterBucket
    <2>9. \E n \in Nat : Linear(objects', n)
      BY <1>7 DEF ReadTip, ChainInv
    <2> QED BY <2>7, <2>8, <2>9 DEF ChainInv
  <1>8. ASSUME NEW c \in Calls, pc[c] = "put", objects' = Stored(c),
               UNCHANGED <<file, env, seq>>, HoldsMutex',
               NEW next \in {"put_tip", "err"},
               \A d \in Calls : pc'[d] = IF d = c THEN next ELSE pc[d]
        PROVE  ChainInv'
    <2> DEFINE new == [seq |-> seq[c], env |-> env[c]]
    <2>1. Linear(objects, seq[c]) /\ seq[c] \in Nat
      BY <1>8, PutExtends
    <2>2. new \in Objects /\ new.seq = seq[c] /\ new.env = env[c] /\ env[c].call = c
      BY <1>8 DEF SignedBeforeWrite, TypeOK, Objects
    <2>4. Stored(c) = objects \cup {new}
      BY <1>8, PutExtends
    <2>5. \A o \in objects : chain_hash(o.env) # chain_hash(new.env)
      BY <1>8, <2>2 DEF ChainInv, StoredIsPast, chain_hash
    <2>6. /\ seq[c] = 0 => new.env.prev = GENESIS
          /\ \A o \in objects : seq[c] = o.seq + 1 => new.env.prev = chain_hash(o.env)
      BY <1>8 DEF ChainInv, TipStillFresh
    <2>7. objects \subseteq Objects
      BY DEF TypeOK, Objects
    <2> HIDE DEF new
    <2>8. Linear(objects \cup {new}, seq[c] + 1)
      BY <2>1, <2>2, <2>5, <2>6, <2>7, LinearExtend
    <2>9. \E n \in Nat : Linear(objects', n)
      BY <1>8, <2>1, <2>4, <2>8
    <2>10. StoredIsPast'
      <3> SUFFICES ASSUME NEW o \in objects'
                   PROVE  o.env.call \in Calls /\
                          pc'[o.env.call] \in {"put_tip", "local"} \cup Finished
        BY DEF StoredIsPast
      <3>1. CASE o \in objects
        BY <1>8, <3>1 DEF ChainInv, StoredIsPast
      <3>2. CASE o = new
        BY <1>8, <2>2, <3>2
      <3> QED BY <1>8, <2>4, <3>1, <3>2
    <2>11. TipStillFresh'
      <3>1. \A d \in Calls : pc[d] \in InCall => d = c
        BY <1>8, OneCallInside DEF ChainInv
      <3>2. \A d \in Calls : pc'[d] # "put"
        BY <1>8, <3>1
      <3> QED BY <3>2 DEF TipStillFresh
    <2>12. FileAfterBucket'
      BY <1>8, <2>4 DEF FileAfterBucket
    <2> QED BY <1>8, <2>9, <2>10, <2>11, <2>12 DEF ChainInv
  <1>9. ASSUME NEW c \in Calls, PutEnvelope(c) PROVE ChainInv'
    <2>1. \A d \in Calls : pc'[d] = IF d = c THEN "put_tip" ELSE pc[d]
      BY <1>9 DEF PutEnvelope, Goto, TypeOK
    <2>2. HoldsMutex'
      BY <1>9, <2>1 DEF PutEnvelope, ChainInv, HoldsMutex
    <2> QED BY <1>8, <1>9, <2>1, <2>2 DEF PutEnvelope
  <1>10. ASSUME NEW c \in Calls, PutEnvelopeFails(c) PROVE ChainInv'
    <2>1. HoldsMutex' /\ \A d \in Calls : pc'[d] = IF d = c THEN "err" ELSE pc[d]
      BY <1>4, <1>10 DEF PutEnvelopeFails
    <2>2. CASE objects' = Stored(c)
      BY <1>8, <1>10, <2>1, <2>2 DEF PutEnvelopeFails
    <2>3. CASE objects' = objects
      <3>1. FileAfterBucket'
        BY <1>10, <2>1, <2>3 DEF PutEnvelopeFails, ChainInv, FileAfterBucket
      <3> QED BY <1>1, <1>10, <2>1, <2>3, <3>1 DEF PutEnvelopeFails
    <2> QED BY <1>10, <2>2, <2>3 DEF PutEnvelopeFails
  <1>11. ASSUME NEW c \in Calls, PutTip(c) PROVE ChainInv'
    <2>1. \A d \in Calls : pc'[d] = IF d = c THEN "local" ELSE pc[d]
      BY <1>11 DEF PutTip, Goto, TypeOK
    <2>2. HoldsMutex'
      BY <1>11, <2>1 DEF PutTip, ChainInv, HoldsMutex
    <2>3. FileAfterBucket'
      BY <1>11, <2>1 DEF PutTip, ChainInv, FileAfterBucket
    <2> QED BY <1>1, <1>11, <2>1, <2>2, <2>3 DEF PutTip
  <1>12. ASSUME NEW c \in Calls, PutTipFails(c) PROVE ChainInv'
    <2>1. HoldsMutex' /\ \A d \in Calls : pc'[d] = IF d = c THEN "err" ELSE pc[d]
      BY <1>4, <1>12 DEF PutTipFails
    <2>2. FileAfterBucket'
      BY <1>12, <2>1 DEF PutTipFails, ChainInv, FileAfterBucket
    <2> QED BY <1>1, <1>12, <2>1, <2>2 DEF PutTipFails
  <1>13. ASSUME NEW c \in Calls, WriteLocal(c) PROVE ChainInv'
    <2>1. HoldsMutex' /\ \A d \in Calls : pc'[d] = IF d = c THEN "ok" ELSE pc[d]
      BY <1>4, <1>13 DEF WriteLocal
    <2>2. FileAfterBucket'
      BY <1>13 DEF WriteLocal, ChainInv, FileAfterBucket
    <2> QED BY <1>1, <1>13, <2>1, <2>2 DEF WriteLocal
  <1>14. ASSUME NEW c \in Calls, WriteLocalFails(c) PROVE ChainInv'
    <2>1. HoldsMutex' /\ \A d \in Calls : pc'[d] = IF d = c THEN "err" ELSE pc[d]
      BY <1>4, <1>14 DEF WriteLocalFails
    <2>2. FileAfterBucket'
      BY <1>14 DEF WriteLocalFails, ChainInv, FileAfterBucket
    <2> QED BY <1>1, <1>14, <2>1, <2>2 DEF WriteLocalFails
  <1>15. ASSUME NEW p \in Procs, Crash(p) PROVE ChainInv'
    <2>1. \A c \in Calls : pc'[c] = IF pc[c] \in InCall THEN "crashed" ELSE pc[c]
      <3>1. \A c \in Calls : ProcOf[c] = p
        BY DEF SingleWriter
      <3> QED BY <1>15, <3>1 DEF Crash
    <2>2. HoldsMutex'
      BY <2>1 DEF HoldsMutex
    <2>3. FileAfterBucket'
      <3>1. file' = file \/ file' = [file EXCEPT ![p] = NoFile]
        BY <1>15 DEF Crash
      <3>2. ASSUME objects' = {}, NEW q \in Procs PROVE file'[q].lines = <<>>
        <4>1. objects = {}
          BY <1>15, <3>2 DEF Crash
        <4>2. file[q].lines = <<>>
          BY <4>1 DEF ChainInv, FileAfterBucket
        <4>3. file \in [Procs -> File]
          BY DEF TypeInv, TypeOK
        <4>4. CASE file' = file
          BY <4>2, <4>4
        <4>5. CASE file' = [file EXCEPT ![p] = NoFile]
          <5>1. file'[q] = IF q = p THEN NoFile ELSE file[q]
            BY <4>3, <4>5
          <5> QED BY <4>2, <5>1 DEF NoFile
        <4> QED BY <3>1, <4>4, <4>5
      <3> QED BY <2>1, <3>2 DEF FileAfterBucket
    <2> QED BY <1>1, <1>15, <2>1, <2>2, <2>3 DEF Crash
  <1>16. CASE UNCHANGED vars
    BY <1>16 DEF vars, ChainInv, HoldsMutex, StoredIsPast, TipStillFresh, FileAfterBucket
  <1> QED
    BY <1>2, <1>3, <1>5, <1>6, <1>7, <1>9, <1>10, <1>11, <1>12, <1>13, <1>14, <1>15, <1>16
       DEF Next, Step

\* The chain invariant holds in every state of a single-writer deployment.
LEMMA ChainInvariant ==
    ASSUME SingleWriter
    PROVE  Spec => [](TypeInv /\ ChainInv)
  <1>1. Init => ChainInv
    <2> SUFFICES ASSUME Init PROVE ChainInv
      OBVIOUS
    <2>1. Linear(objects, 0) /\ 0 \in Nat
      BY DEF Init, Linear
    <2>2. HoldsMutex
      BY DEF Init, HoldsMutex, InCall
    <2>3. StoredIsPast /\ TipStillFresh
      BY DEF Init, StoredIsPast, TipStillFresh
    <2>4. FileAfterBucket
      BY DEF Init, FileAfterBucket, NoFile, SingleWriter
    <2> QED BY <2>1, <2>2, <2>3, <2>4 DEF ChainInv
  <1>2. TypeInv /\ TypeInv' /\ ChainInv /\ [Next]_vars => ChainInv'
    BY ChainStep
  <1> QED
    BY <1>1, <1>2, LogTypeInvariant, PTL DEF Spec

\* A single orchestrator never forks its durable log: no interleaving of appends,
\* failed or half-applied PUTs, crashes and restarts on a fresh disk stores two
\* rows with the same prev_hash or a row that does not point at the one before it.
THEOREM SingleWriterUnforked ==
    ASSUME SingleWriter
    PROVE  Spec => []UnforkedChain
  <1>1. TypeInv /\ ChainInv => UnforkedChain
    <2> SUFFICES ASSUME TypeInv, ChainInv PROVE UnforkedChain
      OBVIOUS
    <2>1. PICK n \in Nat : Linear(objects, n)
      BY DEF ChainInv
    <2>2. objects \subseteq Objects
      BY DEF TypeInv, TypeOK, Objects
    <2>3. \A o, q \in objects : q.env.prev = o.env.prev => q = o
      BY <2>1, <2>2, LinearPrevs
    <2>4. ASSUME NEW o \in objects, o.seq # 0
          PROVE  \E q \in objects : q.seq = o.seq - 1 /\ chain_hash(q.env) = o.env.prev
      <3>1. o.seq \in 0..(n - 1)
        BY <2>1 DEF Linear
      <3>2. o.seq - 1 \in 0..(n - 1)
        BY <2>4, <3>1
      <3>3. PICK q \in objects : q.seq = o.seq - 1
        BY <2>1, <3>2 DEF Linear
      <3>4. o.seq = q.seq + 1
        BY <3>1, <3>3
      <3> QED BY <2>1, <3>3, <3>4 DEF Linear
    <2>5. \A o \in objects : o.seq = 0 => o.env.prev = GENESIS
      BY <2>1 DEF Linear
    <2> QED BY <2>3, <2>4, <2>5 DEF UnforkedChain
  <1> QED
    BY <1>1, ChainInvariant, PTL

-----------------------------------------------------------------------------
\* Readers of a single-writer deployment.

\* Every row of a read points at the row before it.
LEMMA ReadIsChained ==
    ASSUME SingleWriter, TypeInv, ChainInv, NEW p \in Procs, NEW rows \in read_all(p),
           NEW i \in 1..Len(rows)
    PROVE  rows[i].prev = IF i = 1 THEN GENESIS ELSE chain_hash(rows[i - 1])
  <1>1. /\ rows \in Seq(Envelope)
        /\ Linear(objects, Len(rows))
        /\ \A j \in 1..Len(rows) : [seq |-> j - 1, env |-> rows[j]] \in objects
    BY ReadIsTheChain DEF TypeInv
  <1> DEFINE o == [seq |-> i - 1, env |-> rows[i]]
  <1>2. o \in objects /\ o.seq = i - 1 /\ o.env = rows[i]
    BY <1>1
  <1>3. CASE i = 1
    <2>1. o.seq = 0
      BY <1>2, <1>3
    <2>2. o.env.prev = GENESIS
      BY <1>1, <1>2, <2>1 DEF Linear
    <2> QED BY <1>2, <1>3, <2>2
  <1>4. CASE i # 1
    <2> DEFINE q == [seq |-> (i - 1) - 1, env |-> rows[i - 1]]
    <2>1. i - 1 \in 1..Len(rows)
      BY <1>4
    <2>2. q \in objects /\ q.seq = (i - 1) - 1 /\ q.env = rows[i - 1]
      BY <1>1, <2>1
    <2>3. o.seq = q.seq + 1
      BY <1>2, <2>2
    <2> HIDE DEF o, q
    <2>4. o.env.prev = chain_hash(q.env)
      BY <1>1, <1>2, <2>2, <2>3 DEF Linear
    <2> QED BY <1>2, <1>4, <2>2, <2>4
  <1> QED BY <1>3, <1>4

\* read_all returns the rows in append order, all of them and each of them once, however
\* appends failed and whenever the orchestrator restarted.
THEOREM SingleWriterReads ==
    ASSUME SingleWriter
    PROVE  Spec => []ReadsFollowTheChain
  <1>1. TypeInv /\ ChainInv => ReadsFollowTheChain
    <2> SUFFICES ASSUME TypeInv, ChainInv, NEW p \in Procs, NEW rows \in read_all(p)
                 PROVE  /\ \A i \in 2..Len(rows) : rows[i].prev = chain_hash(rows[i - 1])
                        /\ UseObjects /\ objects # {} =>
                             /\ Len(rows) = Cardinality(objects)
                             /\ \A o \in objects : \E i \in 1..Len(rows) : rows[i] = o.env
      BY DEF ReadsFollowTheChain
    <2>1. /\ rows \in Seq(Envelope)
          /\ Linear(objects, Len(rows))
          /\ \A i \in 1..Len(rows) : [seq |-> i - 1, env |-> rows[i]] \in objects
      BY ReadIsTheChain DEF TypeInv
    <2>2. objects \subseteq Objects
      BY DEF TypeInv, TypeOK, Objects
    <2>3. \A i \in 2..Len(rows) : rows[i].prev = chain_hash(rows[i - 1])
      <3> SUFFICES ASSUME NEW i \in 2..Len(rows) PROVE rows[i].prev = chain_hash(rows[i - 1])
        OBVIOUS
      <3>1. i \in 1..Len(rows) /\ i # 1
        BY <2>1
      <3> QED BY <3>1, ReadIsChained
    <2>4. Len(rows) = Cardinality(objects)
      BY <2>1, <2>2, LinearCardinality
    <2>5. \A o \in objects : \E i \in 1..Len(rows) : rows[i] = o.env
      BY <2>1, <2>2, RowOfObject
    <2> QED BY <2>3, <2>4, <2>5
  <1> QED BY <1>1, ChainInvariant, PTL

\* A call past its PUT has its row in the bucket, with the id of its action.
RowIsKept ==
    /\ \A c \in Calls : pc[c] \in {"put_tip", "local", "ok"} => \E o \in objects : o.env = env[c]
    /\ \A o \in objects : o.env.id = ActionId[o.env.call]

\* The bucket changes by one row of the call that holds the mutex, or not at all.
LEMMA BucketStep ==
    ASSUME SingleWriter, TypeInv, ChainInv, [Next]_vars
    PROVE  \/ objects' = objects
           \/ \E c \in Calls : pc[c] = "put" /\ UNCHANGED <<env, seq>> /\
                 objects' = objects \cup {[seq |-> seq[c], env |-> env[c]]}
  <1>1. ASSUME NEW c \in Calls, PutEnvelope(c) \/ PutEnvelopeFails(c)
        PROVE  \/ objects' = objects
               \/ pc[c] = "put" /\ UNCHANGED <<env, seq>> /\
                  objects' = objects \cup {[seq |-> seq[c], env |-> env[c]]}
    <2>1. pc[c] = "put" /\ objects' \in {objects, Stored(c)} /\ UNCHANGED <<env, seq>>
      BY <1>1 DEF PutEnvelope, PutEnvelopeFails, At
    <2> QED BY <2>1, PutExtends
  <1>2. ASSUME NEW c \in Calls, Step(c), ~PutEnvelope(c), ~PutEnvelopeFails(c)
        PROVE  objects' = objects
    BY <1>2 DEF Step, Lock, Hydrate, HydrateFails, ReadTip, ReadTipFails, PutTip, PutTipFails,
                WriteLocal, WriteLocalFails
  <1>3. ASSUME NEW p \in Procs, Crash(p) PROVE objects' = objects
    BY <1>3 DEF Crash
  <1> QED BY <1>1, <1>2, <1>3 DEF Next, vars

\* Where a call may be that signed its row and may have stored it.
LEMMA PastThePut ==
    ASSUME SingleWriter, TypeInv, [Next]_vars, NEW d \in Calls,
           pc'[d] \in {"put_tip", "local", "ok"}
    PROVE  /\ env'[d] = env[d]
           /\ pc[d] \in {"put_tip", "local", "ok"} \/ PutEnvelope(d)
  <1> USE LogConstants DEF At, InCall
  <1>0. pc \in [Calls -> {"start"} \cup InCall \cup Finished] /\ env \in [Calls -> Envelope \cup {Bad}]
    BY DEF TypeInv, TypeOK
  <1>1. ASSUME NEW c \in Calls, Lock(c) \/ Hydrate(c)
        PROVE  env'[d] = env[d] /\ pc[d] \in {"put_tip", "local", "ok"}
    BY <1>0, <1>1 DEF Lock, Hydrate, Goto
  <1>2. ASSUME NEW c \in Calls, HydrateFails(c) \/ ReadTipFails(c)
        PROVE  env'[d] = env[d] /\ pc[d] \in {"put_tip", "local", "ok"}
    BY <1>0, <1>2 DEF HydrateFails, ReadTipFails, Return, Goto
  <1>3. ASSUME NEW c \in Calls, ReadTip(c)
        PROVE  env'[d] = env[d] /\ pc[d] \in {"put_tip", "local", "ok"}
    <2>1. pc' = [pc EXCEPT ![c] = "put"]
      BY <1>3 DEF ReadTip, Goto, SingleWriter
    <2>2. d # c /\ pc[d] = pc'[d]
      BY <1>0, <2>1
    <2> QED BY <1>0, <1>3, <2>2 DEF ReadTip
  <1>4. ASSUME NEW c \in Calls, PutEnvelope(c) \/ PutTip(c)
        PROVE  env'[d] = env[d] /\ (pc[d] \in {"put_tip", "local", "ok"} \/ PutEnvelope(d))
    <2>1. CASE d = c
      BY <1>0, <1>4, <2>1 DEF PutEnvelope, PutTip
    <2>2. CASE d # c
      BY <1>0, <1>4, <2>2 DEF PutEnvelope, PutTip, Goto
    <2> QED BY <2>1, <2>2
  <1>5. ASSUME NEW c \in Calls, PutEnvelopeFails(c) \/ PutTipFails(c) \/ WriteLocalFails(c)
        PROVE  env'[d] = env[d] /\ pc[d] \in {"put_tip", "local", "ok"}
    BY <1>0, <1>5 DEF PutEnvelopeFails, PutTipFails, WriteLocalFails, Return, Goto
  <1>6. ASSUME NEW c \in Calls, WriteLocal(c)
        PROVE  env'[d] = env[d] /\ pc[d] \in {"put_tip", "local", "ok"}
    BY <1>0, <1>6 DEF WriteLocal, Return, Goto
  <1>7. ASSUME NEW p \in Procs, Crash(p)
        PROVE  env'[d] = env[d] /\ pc[d] \in {"put_tip", "local", "ok"}
    BY <1>0, <1>7 DEF Crash
  <1>8. CASE UNCHANGED vars
    BY <1>8 DEF vars
  <1> QED BY <1>1, <1>2, <1>3, <1>4, <1>5, <1>6, <1>7, <1>8 DEF Next, Step

\* Every step keeps it that a call past its PUT has its row in the bucket.
LEMMA RowIsKeptStep ==
    ASSUME SingleWriter, TypeInv, ChainInv, RowIsKept, [Next]_vars
    PROVE  RowIsKept'
  <1>1. objects \subseteq objects'
    BY BucketStep
  <1>2. ASSUME NEW d \in Calls, pc'[d] \in {"put_tip", "local", "ok"}
        PROVE  \E o \in objects' : o.env = env'[d]
    <2>1. env'[d] = env[d]
      BY <1>2, PastThePut
    <2>2. CASE pc[d] \in {"put_tip", "local", "ok"}
      BY <1>1, <2>1, <2>2 DEF RowIsKept
    <2>3. CASE PutEnvelope(d)
      <3>1. objects' = objects \cup {[seq |-> seq[d], env |-> env[d]]}
        BY <2>3, PutExtends DEF PutEnvelope, At
      <3>2. [seq |-> seq[d], env |-> env[d]].env = env[d]
        OBVIOUS
      <3> QED BY <2>1, <3>1, <3>2
    <2> QED BY <1>2, <2>2, <2>3, PastThePut
  <1>3. ASSUME NEW o \in objects' PROVE o.env.id = ActionId[o.env.call]
    <2>1. CASE o \in objects
      BY <2>1 DEF RowIsKept
    <2>2. CASE o \notin objects
      <3>1. PICK c \in Calls : pc[c] = "put" /\ o = [seq |-> seq[c], env |-> env[c]]
        BY <2>2, BucketStep
      <3>2. env[c].call = c /\ env[c].id = ActionId[c]
        BY <3>1 DEF TypeInv, SignedBeforeWrite
      <3> QED BY <3>1, <3>2
    <2> QED BY <2>1, <2>2
  <1> QED BY <1>2, <1>3 DEF RowIsKept

\* Together with the chain invariant, in every state.
LEMMA KeptInvariant ==
    ASSUME SingleWriter
    PROVE  Spec => [](TypeInv /\ ChainInv /\ RowIsKept)
  <1>1. Init => RowIsKept
    BY DEF Init, RowIsKept
  <1>2. TypeInv /\ ChainInv /\ RowIsKept /\ [Next]_vars => RowIsKept'
    BY RowIsKeptStep
  <1> QED BY <1>1, <1>2, ChainInvariant, PTL DEF Spec

\* No acknowledged row is lost: not by a crash, a failed object store, a fresh disk or a
\* local file that could be written in part only.
THEOREM SingleWriterKeepsAcked ==
    ASSUME SingleWriter
    PROVE  Spec => []AckedIsReadable
  <1>1. TypeInv /\ ChainInv /\ RowIsKept => AckedIsReadable
    <2> SUFFICES ASSUME TypeInv, ChainInv, RowIsKept,
                        NEW c \in Calls, pc[c] = "ok", NEW p \in Procs
                 PROVE  /\ read_all(p) # {}
                        /\ \A rows \in read_all(p) : \E i \in 1..Len(rows) : rows[i] = env[c]
      BY DEF AckedIsReadable
    <2>1. PICK o \in objects : o.env = env[c]
      BY DEF RowIsKept
    <2>2. objects \subseteq Objects
      BY DEF TypeInv, TypeOK, Objects
    <2>3. read_all(p) = order_by_chain(objects)
      BY <2>1 DEF read_all, read_objects, SingleWriter
    <2>4. read_all(p) # {}
      BY <2>2, <2>3, LinearReadExists DEF ChainInv
    <2>5. ASSUME NEW rows \in read_all(p) PROVE \E i \in 1..Len(rows) : rows[i] = env[c]
      <3>1. /\ rows \in Seq(Envelope)
            /\ Linear(objects, Len(rows))
            /\ \A i \in 1..Len(rows) : [seq |-> i - 1, env |-> rows[i]] \in objects
        BY <2>5, ReadIsTheChain DEF TypeInv
      <3> QED BY <2>1, <2>2, <3>1, RowOfObject
    <2> QED BY <2>4, <2>5
  <1> QED BY <1>1, KeptInvariant, PTL

\* Every call appends an action of its own, with an id of Uuid::new_v4. An auto-close does
\* not: it repeats the id of its verdict, which the module Triage is about.
UniqueActions == \A c, d \in Calls : ActionId[c] = ActionId[d] => c = d

\* verify_log over any read of the log fails on the rows of another key and on no other:
\* whatever failed while the log was written, no row of it looks tampered with.
THEOREM SingleWriterVerifies ==
    ASSUME SingleWriter, UniqueActions
    PROVE  Spec => []OnlyForeignKeysFail
  <1>1. TypeInv /\ ChainInv /\ RowIsKept => OnlyForeignKeysFail
    <2> SUFFICES ASSUME TypeInv, ChainInv, RowIsKept, NEW p \in Procs,
                        NEW rows \in read_all(p), NEW i \in 1..Len(rows)
                 PROVE  RowOk(rows, key[p], i) <=> rows[i].key = key[p]
      BY DEF OnlyForeignKeysFail
    <2>1. /\ rows \in Seq(Envelope)
          /\ Linear(objects, Len(rows))
          /\ \A j \in 1..Len(rows) : [seq |-> j - 1, env |-> rows[j]] \in objects
      BY ReadIsTheChain DEF TypeInv
    <2>2. ASSUME NEW j \in 1..Len(rows), NEW k \in 1..Len(rows), rows[j].id = rows[k].id
          PROVE  j = k
      <3> DEFINE o == [seq |-> j - 1, env |-> rows[j]]
                 q == [seq |-> k - 1, env |-> rows[k]]
      <3>1. /\ o \in objects /\ o.env = rows[j] /\ o.seq = j - 1
            /\ q \in objects /\ q.env = rows[k] /\ q.seq = k - 1
        BY <2>1
      <3> HIDE DEF o, q
      <3>2. ActionId[o.env.call] = ActionId[q.env.call] /\ {o.env.call, q.env.call} \subseteq Calls
        BY <2>2, <3>1 DEF RowIsKept, ChainInv, StoredIsPast
      <3>3. chain_hash(o.env) = chain_hash(q.env)
        BY <3>2 DEF UniqueActions, chain_hash
      <3>4. o = q
        BY <2>1, <3>1, <3>3 DEF Linear
      <3>5. j - 1 = k - 1
        BY <3>1, <3>4
      <3> QED BY <3>5
    <2>3. rows[1].prev = GENESIS
      <3>1. 1 \in 1..Len(rows)
        BY <2>1
      <3> QED BY <3>1, ReadIsChained
    <2>4. \A j \in 2..Len(rows) : rows[j].prev = chain_hash(rows[j - 1])
      <3> SUFFICES ASSUME NEW j \in 2..Len(rows) PROVE rows[j].prev = chain_hash(rows[j - 1])
        OBVIOUS
      <3>1. j \in 1..Len(rows) /\ j # 1
        BY <2>1
      <3> QED BY <3>1, ReadIsChained
    <2> QED BY <2>1, <2>2, <2>3, <2>4, ChainedRowsVerify
  <1> QED BY <1>1, KeptInvariant, PTL

-----------------------------------------------------------------------------
(***************************************************************************)
(* The refinement: for a single writer the log that readers see behaves as *)
(* the append-only chain the rest of the system relies on.                 *)
(***************************************************************************)

\* The rows a reader sees; Abstract substitutes them for the abstract log.
View == IF UseObjects /\ objects = {} THEN <<>>
        ELSE CHOOSE r \in read_all(CHOOSE p \in Procs : TRUE) : TRUE

\* They are the chain in the bucket.
ViewIsTheChain ==
    /\ View \in Seq(Envelope)
    /\ Linear(objects, Len(View))
    /\ \A i \in 1..Len(View) : [seq |-> i - 1, env |-> View[i]] \in objects

\* The rows the refinement maps the log to are the chain in the bucket.
LEMMA ChainIsViewed ==
    ASSUME SingleWriter, Procs # {}, TypeInv, ChainInv
    PROVE  ViewIsTheChain
  <1> DEFINE p == CHOOSE q \in Procs : TRUE
  <1>1. p \in Procs
    OBVIOUS
  <1> HIDE DEF p
  <1>2. objects \subseteq Objects
    BY DEF TypeInv, TypeOK, Objects
  <1>3. CASE objects # {}
    <2>1. read_all(p) = order_by_chain(objects)
      BY <1>3 DEF read_all, read_objects, SingleWriter
    <2>2. read_all(p) # {}
      BY <1>2, <2>1, LinearReadExists DEF ChainInv
    <2>3. View = CHOOSE r \in read_all(p) : TRUE
      BY <1>3 DEF View, p
    <2>4. View \in read_all(p)
      BY <2>2, <2>3
    <2> QED BY <1>1, <2>4, ReadIsTheChain DEF TypeInv, ViewIsTheChain
  <1>4. CASE objects = {}
    <2>1. View = <<>>
      BY <1>4 DEF View, SingleWriter
    <2>2. Linear(objects, 0)
      BY <1>4 DEF Linear
    <2> QED BY <2>1, <2>2 DEF ViewIsTheChain
  <1> QED BY <1>3, <1>4

\* A chain has one length.
LEMMA LinearLength ==
    ASSUME NEW S, S \subseteq Objects, NEW m \in Nat, NEW n \in Nat, Linear(S, m), Linear(S, n)
    PROVE  m = n
  BY LinearCardinality

\* While the bucket stays as it is, readers see the same rows.
LEMMA ViewStays ==
    ASSUME SingleWriter, objects' = objects
    PROVE  View' = View
  <1> DEFINE p == CHOOSE q \in Procs : TRUE
             read == order_by_chain(objects)
  <1>1. CASE objects = {}
    BY <1>1 DEF View, SingleWriter
  <1>2. CASE objects # {}
    <2>1. read_all(p) = read /\ read_all(p)' = read
      BY <1>2 DEF read_all, read_objects, SingleWriter
    <2> HIDE DEF read
    <2>2. View = CHOOSE r \in read : TRUE
      BY <1>2, <2>1 DEF View, SingleWriter
    <2>3. View' = CHOOSE r \in read : TRUE
      BY <1>2, <2>1 DEF View, SingleWriter
    <2> QED BY <2>2, <2>3
  <1> QED BY <1>1, <1>2

\* A row that is stored appears at the end of what readers see, points at the row that
\* was last there and is none of them.
LEMMA ViewGrows ==
    ASSUME SingleWriter, TypeInv, ChainInv, TypeInv', ChainInv',
           ViewIsTheChain, ViewIsTheChain', NEW c \in Calls, pc[c] = "put", UNCHANGED <<env, seq>>,
           objects' = objects \cup {[seq |-> seq[c], env |-> env[c]]}
    PROVE  /\ Len(View') = Len(View) + 1
           /\ View' = Append(View, View'[Len(View) + 1])
           /\ View'[Len(View) + 1] = env[c]
           /\ env[c].prev = IF View = <<>> THEN GENESIS ELSE chain_hash(View[Len(View)])
           /\ \A i \in 1..Len(View) : View[i].call # env[c].call
  <1> DEFINE n == Len(View)
             new == [seq |-> seq[c], env |-> env[c]]
  <1>1. /\ View \in Seq(Envelope) /\ Linear(objects, n)
        /\ \A i \in 1..n : [seq |-> i - 1, env |-> View[i]] \in objects
    BY DEF ViewIsTheChain
  <1>2. /\ View' \in Seq(Envelope) /\ Linear(objects', Len(View'))
        /\ \A i \in 1..Len(View') : [seq |-> i - 1, env |-> View'[i]] \in objects'
    BY DEF ViewIsTheChain
  <1>3. objects \subseteq Objects /\ objects' \subseteq Objects
    BY DEF TypeInv, TypeOK, Objects
  <1>4. seq[c] = n
    BY <1>1, <1>3, PutExtends, LinearLength
  <1>5. new \in Objects /\ new.seq = n /\ new.env = env[c] /\ env[c].call = c
    BY <1>4 DEF SignedBeforeWrite, TypeInv, TypeOK, Objects
  <1>6. /\ n = 0 => env[c].prev = GENESIS
        /\ \A o \in objects : n = o.seq + 1 => env[c].prev = chain_hash(o.env)
    BY <1>4 DEF ChainInv, TipStillFresh
  <1>7. \A o \in objects : chain_hash(o.env) # chain_hash(env[c])
    BY <1>5 DEF ChainInv, StoredIsPast, chain_hash, Finished
  <1>8. n \in Nat /\ Linear(objects', n + 1)
    <2>1. n \in Nat
      BY <1>1
    <2> HIDE DEF n, new
    <2>2. objects' = objects \cup {new}
      BY DEF new
    <2> QED BY <1>1, <1>3, <1>5, <1>6, <1>7, <2>1, <2>2, LinearExtend
  <1>9. Len(View') = n + 1
    <2>1. Len(View') \in Nat /\ n + 1 \in Nat
      BY <1>2, <1>8
    <2> QED BY <1>2, <1>3, <1>8, <2>1, LinearLength
  <1>10. \A i \in 1..n : View'[i] = View[i]
    <2> SUFFICES ASSUME NEW i \in 1..n PROVE View'[i] = View[i]
      OBVIOUS
    <2> DEFINE o == [seq |-> i - 1, env |-> View[i]]
               q == [seq |-> i - 1, env |-> View'[i]]
    <2>1. i \in 1..Len(View')
      BY <1>8, <1>9
    <2>2. o \in objects' /\ q \in objects' /\ o.seq = q.seq
      BY <1>1, <1>2, <2>1
    <2>3. o = q
      BY <1>8, <2>2 DEF Linear
    <2> QED BY <2>3
  <1>11. View'[n + 1] = env[c]
    <2> DEFINE q == [seq |-> (n + 1) - 1, env |-> View'[n + 1]]
    <2>1. n + 1 \in 1..Len(View') /\ (n + 1) - 1 = n
      BY <1>8, <1>9
    <2>2. q \in objects' /\ q.seq = new.seq /\ new \in objects'
      BY <1>2, <1>5, <2>1
    <2>3. q = new
      BY <1>8, <2>2 DEF Linear
    <2> QED BY <2>3
  <1>12. env[c].prev = IF View = <<>> THEN GENESIS ELSE chain_hash(View[n])
    <2>1. CASE View = <<>>
      BY <1>6, <2>1
    <2>2. CASE View # <<>>
      <3> DEFINE o == [seq |-> n - 1, env |-> View[n]]
      <3>1. n \in 1..n /\ n = (n - 1) + 1
        BY <1>1, <2>2
      <3>2. o \in objects /\ n = o.seq + 1 /\ o.env = View[n]
        BY <1>1, <3>1
      <3> QED BY <1>6, <2>2, <3>2
    <2> QED BY <2>1, <2>2
  <1>13. \A i \in 1..n : View[i].call # env[c].call
    <2> SUFFICES ASSUME NEW i \in 1..n PROVE View[i].call # env[c].call
      OBVIOUS
    <2> DEFINE o == [seq |-> i - 1, env |-> View[i]]
    <2>1. o \in objects /\ o.env = View[i]
      BY <1>1
    <2> QED BY <1>7, <2>1 DEF chain_hash
  <1>14. View' = Append(View, View'[n + 1])
    BY <1>1, <1>2, <1>8, <1>9, <1>10
  <1> QED BY <1>9, <1>11, <1>12, <1>13, <1>14

\* The log of one orchestrator implements AppendOnlyLog: every step of the implementation
\* leaves the rows readers see alone or appends one row, chained to the last.
THEOREM SingleWriterRefines ==
    ASSUME SingleWriter, Procs # {}
    PROVE  Spec => ImplementsAppendOnlyLog
  <1>1. Init => Abstract!Init
    BY DEF Init, Abstract!Init, SingleWriter
  <1>2. TypeInv /\ ChainInv => ViewIsTheChain
    BY ChainIsViewed
  <1>3. /\ TypeInv /\ ChainInv /\ ViewIsTheChain
        /\ TypeInv' /\ ChainInv' /\ ViewIsTheChain'
        /\ [Next]_vars
        => [Abstract!Next]_View
    <2> SUFFICES ASSUME TypeInv, ChainInv, ViewIsTheChain,
                        TypeInv', ChainInv', ViewIsTheChain', [Next]_vars
                 PROVE  Abstract!Next \/ View' = View
      OBVIOUS
    <2>1. CASE objects' = objects
      BY <2>1, ViewStays
    <2>2. CASE \E c \in Calls : pc[c] = "put" /\ UNCHANGED <<env, seq>> /\
                 objects' = objects \cup {[seq |-> seq[c], env |-> env[c]]}
      <3>1. PICK c \in Calls : pc[c] = "put" /\ UNCHANGED <<env, seq>> /\
                 objects' = objects \cup {[seq |-> seq[c], env |-> env[c]]}
        BY <2>2
      <3>2. /\ Len(View') = Len(View) + 1
            /\ View' = Append(View, View'[Len(View) + 1])
            /\ View'[Len(View) + 1] = env[c]
            /\ env[c].prev = IF View = <<>> THEN GENESIS ELSE chain_hash(View[Len(View)])
            /\ \A i \in 1..Len(View) : View[i].call # env[c].call
        BY <3>1, ViewGrows
      <3> QED BY <3>2 DEF Abstract!Next, Abstract!AppendRow, Abstract!TipHash,
                          Abstract!Genesis, GENESIS, chain_hash, View
    <2> QED BY <2>1, <2>2, BucketStep
  <1> QED
    BY <1>1, <1>2, <1>3, ChainInvariant, PTL
       DEF Spec, ImplementsAppendOnlyLog, Abstract!Spec, View

-----------------------------------------------------------------------------
(***************************************************************************)
(* File-only deployments, of any number of processes and with any rows     *)
(* from an earlier run in the file.                                        *)
(***************************************************************************)

\* A call that is about to write read the file, and since it holds the mutex the file is
\* still as it read it: without a line that does not parse.
WritesAfterRead ==
    ~UseObjects =>
        \A c \in Calls :
            /\ pc[c] \notin {"put", "put_tip"}
            /\ pc[c] = "local" => \A i \in 1..Len(file[ProcOf[c]].lines) :
                                      file[ProcOf[c]].lines[i] # Bad

\* A file that does not exist has no lines.
NoLinesWithoutFile == \A p \in Procs : ~file[p].exists => file[p].lines = <<>>

FileInv == HoldsMutex /\ NoLinesWithoutFile /\ WritesAfterRead

\* The mutex of a process is held by its one call between locking and returning.
LEMMA MutexStep ==
    ASSUME TypeInv, HoldsMutex, [Next]_vars
    PROVE  HoldsMutex'
  <1> USE LogConstants DEF InCall, Finished, At
  <1>0. /\ pc \in [Calls -> {"start"} \cup InCall \cup Finished]
        /\ lock \in [Procs -> Calls \cup {Free}]
        /\ \A c \in Calls : c # Free /\ ProcOf[c] \in Procs
    BY DEF TypeInv, TypeOK, Free, GENESIS
  <1>1. ASSUME NEW c \in Calls, Lock(c) PROVE HoldsMutex'
    <2> SUFFICES ASSUME NEW d \in Calls, pc'[d] \in InCall PROVE lock'[ProcOf[d]] = d
      BY DEF HoldsMutex
    <2>1. CASE d = c
      BY <1>0, <1>1, <2>1 DEF Lock
    <2>2. CASE d # c
      <3>1. lock[ProcOf[d]] = d
        BY <1>0, <1>1, <2>2 DEF Lock, Goto, HoldsMutex
      <3>2. ProcOf[d] # ProcOf[c]
        BY <1>0, <1>1, <3>1 DEF Lock
      <3> QED BY <1>0, <1>1, <3>1, <3>2 DEF Lock
    <2> QED BY <2>1, <2>2
  <1>2. ASSUME NEW c \in Calls, NEW r \in Finished, lock[ProcOf[c]] = c, Return(c, r)
        PROVE  HoldsMutex'
    <2> SUFFICES ASSUME NEW d \in Calls, pc'[d] \in InCall PROVE lock'[ProcOf[d]] = d
      BY DEF HoldsMutex
    <2>1. d # c
      BY <1>0, <1>2 DEF Return, Goto
    <2>2. lock[ProcOf[d]] = d
      BY <1>0, <1>2, <2>1 DEF Return, Goto, HoldsMutex
    <2>3. ProcOf[d] # ProcOf[c]
      BY <1>2, <2>1, <2>2
    <2> QED BY <1>0, <1>2, <2>2, <2>3 DEF Return
  <1>3. ASSUME NEW c \in Calls, NEW next \in InCall, pc[c] \in InCall, Goto(c, next),
               UNCHANGED lock
        PROVE  HoldsMutex'
    BY <1>0, <1>3 DEF Goto, HoldsMutex
  <1>4. ASSUME NEW p \in Procs, Crash(p) PROVE HoldsMutex'
    <2> SUFFICES ASSUME NEW d \in Calls, pc'[d] \in InCall PROVE lock'[ProcOf[d]] = d
      BY DEF HoldsMutex
    <2>1. ProcOf[d] # p /\ pc[d] \in InCall
      BY <1>0, <1>4 DEF Crash
    <2> QED BY <1>0, <1>4, <2>1 DEF Crash, HoldsMutex
  <1>5. ASSUME NEW c \in Calls, Step(c) PROVE HoldsMutex'
    <2>1. CASE Hydrate(c) \/ ReadTip(c) \/ PutEnvelope(c) \/ PutTip(c)
      BY <1>3, <2>1 DEF Hydrate, ReadTip, PutEnvelope, PutTip
    <2>2. CASE \/ HydrateFails(c) \/ ReadTipFails(c) \/ PutEnvelopeFails(c) \/ PutTipFails(c)
               \/ WriteLocal(c) \/ WriteLocalFails(c)
      BY <1>2, <2>2 DEF HydrateFails, ReadTipFails, PutEnvelopeFails, PutTipFails, WriteLocal,
                        WriteLocalFails
    <2> QED BY <1>1, <1>5, <2>1, <2>2 DEF Step
  <1>6. CASE UNCHANGED vars
    BY <1>6 DEF vars, HoldsMutex
  <1> QED BY <1>4, <1>5, <1>6 DEF Next

\* A file without lines exists or not; every write makes it exist.
LEMMA FileShapeStep ==
    ASSUME TypeInv, NoLinesWithoutFile, [Next]_vars
    PROVE  NoLinesWithoutFile'
  <1> USE LogConstants
  <1>0. file \in [Procs -> File]
    BY DEF TypeInv, TypeOK
  <1>1. ASSUME NEW c \in Calls, NEW f, file' = [file EXCEPT ![ProcOf[c]] = f],
               ~f.exists => f.lines = <<>>
        PROVE  NoLinesWithoutFile'
    BY <1>0, <1>1 DEF NoLinesWithoutFile
  <1>2. CASE UNCHANGED file
    BY <1>2 DEF NoLinesWithoutFile
  <1>3. ASSUME NEW c \in Calls, Hydrate(c) PROVE NoLinesWithoutFile'
    BY <1>1, <1>2, <1>3 DEF Hydrate
  <1>4. ASSUME NEW c \in Calls, HydrateFails(c) PROVE NoLinesWithoutFile'
    <2>1. \A rows : \A f \in PartialBody(rows) : f.exists
      BY DEF PartialBody
    <2> QED BY <1>1, <1>2, <1>4, <2>1 DEF HydrateFails
  <1>5. ASSUME NEW c \in Calls, WriteLocal(c) PROVE NoLinesWithoutFile'
    BY <1>1, <1>5 DEF WriteLocal
  <1>6. ASSUME NEW c \in Calls, WriteLocalFails(c) PROVE NoLinesWithoutFile'
    <2> DEFINE g == file[ProcOf[c]]
    <2>1. g \in File /\ (~g.exists => g.lines = <<>>)
      BY <1>0 DEF NoLinesWithoutFile
    <2>2. ASSUME NEW f \in PartialLine(g, env[c]) PROVE f = g \/ f.exists
      <3>1. [g EXCEPT !.exists = TRUE].exists
        BY <2>1 DEF File
      <3>2. ASSUME NEW lines, NEW open PROVE [exists |-> TRUE, lines |-> lines, open |-> open].exists
        OBVIOUS
      <3>3. \/ f = g \/ f = [g EXCEPT !.exists = TRUE]
            \/ \E lines, open : f = [exists |-> TRUE, lines |-> lines, open |-> open]
        BY <2>2, Zenon DEF PartialLine
      <3> QED BY <3>1, <3>2, <3>3
    <2>3. PICK f \in PartialLine(g, env[c]) : file' = [file EXCEPT ![ProcOf[c]] = f]
      BY <1>6 DEF WriteLocalFails
    <2> QED BY <1>1, <2>1, <2>2, <2>3
  <1>7. ASSUME NEW p \in Procs, Crash(p) PROVE NoLinesWithoutFile'
    BY <1>0, <1>7 DEF Crash, NoLinesWithoutFile, NoFile
  <1>8. ASSUME NEW c \in Calls, Step(c) PROVE NoLinesWithoutFile'
    BY <1>2, <1>3, <1>4, <1>5, <1>6, <1>8
       DEF Step, Lock, ReadTip, ReadTipFails, PutEnvelope, PutEnvelopeFails, PutTip, PutTipFails
  <1> QED BY <1>2, <1>7, <1>8 DEF Next, vars

\* Every step keeps it that a call about to write has read a file without a broken line.
LEMMA WritesAfterReadStep ==
    ASSUME TypeInv, FileInv, [Next]_vars
    PROVE  WritesAfterRead'
  <1> USE LogConstants DEF At
  <1> SUFFICES ASSUME ~UseObjects, NEW d \in Calls
               PROVE  /\ pc'[d] \notin {"put", "put_tip"}
                      /\ pc'[d] = "local" => \A i \in 1..Len(file'[ProcOf[d]].lines) :
                                                 file'[ProcOf[d]].lines[i] # Bad
    BY DEF WritesAfterRead
  <1> DEFINE Readable == \A i \in 1..Len(file[ProcOf[d]].lines) : file[ProcOf[d]].lines[i] # Bad
  <1>0. /\ pc \in [Calls -> {"start"} \cup InCall \cup Finished]
        /\ file \in [Procs -> File] /\ ProcOf[d] \in Procs
    BY DEF TypeInv, TypeOK
  <1>1. pc[d] \notin {"put", "put_tip"} /\ (pc[d] = "local" => Readable)
    BY DEF FileInv, WritesAfterRead
  <1>2. ASSUME UNCHANGED file, pc'[d] = pc[d] \/ pc'[d] \notin {"put", "put_tip", "local"}
        PROVE  pc'[d] \notin {"put", "put_tip"} /\ (pc'[d] = "local" => Readable')
    BY <1>1, <1>2
  <1>3. ASSUME NEW c \in Calls, Lock(c) \/ Hydrate(c)
        PROVE  pc'[d] \notin {"put", "put_tip"} /\ (pc'[d] = "local" => Readable')
    <2>1. UNCHANGED file
      BY <1>3 DEF Lock, Hydrate, NeedsHydrate
    <2>2. pc'[d] = pc[d] \/ pc'[d] \in {"hydrate", "tip"}
      BY <1>0, <1>3 DEF Lock, Hydrate, Goto
    <2> QED BY <1>2, <2>1, <2>2
  <1>4. ASSUME NEW c \in Calls, ReadTip(c)
        PROVE  pc'[d] \notin {"put", "put_tip"} /\ (pc'[d] = "local" => Readable')
    <2>1. UNCHANGED file /\ pc' = [pc EXCEPT ![c] = "local"] /\ read_all(ProcOf[c]) # {}
      BY <1>4 DEF ReadTip, Goto
    <2>2. CASE d # c
      BY <1>0, <1>2, <2>1, <2>2
    <2>3. CASE d = c
      <3>1. CASE file[ProcOf[d]].exists
        <4>1. PICK rows \in read_all(ProcOf[d]) : TRUE
          BY <2>1, <2>3
        <4>2. rows \in read_ndjson(ProcOf[d])
          BY <3>1, <4>1 DEF read_all
        <4>3. Readable
          BY <4>2 DEF read_ndjson
        <4> QED BY <1>0, <2>1, <2>3, <4>3
      <3>2. CASE ~file[ProcOf[d]].exists
        <4>1. file[ProcOf[d]].lines = <<>>
          BY <1>0, <3>2 DEF FileInv, NoLinesWithoutFile
        <4>2. Readable
          BY <4>1
        <4> QED BY <1>0, <2>1, <2>3, <4>2
      <3> QED BY <3>1, <3>2
    <2> QED BY <2>2, <2>3
  <1>5. ASSUME NEW c \in Calls, ReadTipFails(c)
        PROVE  pc'[d] \notin {"put", "put_tip"} /\ (pc'[d] = "local" => Readable')
    <2>1. UNCHANGED file /\ (pc'[d] = pc[d] \/ pc'[d] = "err")
      BY <1>0, <1>5 DEF ReadTipFails, Return, Goto
    <2> QED BY <1>2, <2>1
  \* Who writes holds the mutex, so no other call of the process is about to write.
  <1>6. ASSUME NEW c \in Calls, WriteLocal(c) \/ WriteLocalFails(c)
        PROVE  pc'[d] \notin {"put", "put_tip"} /\ (pc'[d] = "local" => Readable')
    <2>1. pc'[d] = pc[d] \/ pc'[d] \in {"ok", "err"}
      BY <1>0, <1>6 DEF WriteLocal, WriteLocalFails, Return, Goto
    <2>2. ASSUME pc'[d] = "local" PROVE file'[ProcOf[d]] = file[ProcOf[d]] /\ pc[d] = "local"
      <3>1. pc[d] = "local" /\ d # c
        BY <1>0, <1>6, <2>1, <2>2 DEF WriteLocal, WriteLocalFails, Return, Goto
      <3>2. lock[ProcOf[d]] = d /\ lock[ProcOf[c]] = c
        BY <1>6, <3>1 DEF FileInv, HoldsMutex, InCall, WriteLocal, WriteLocalFails
      <3>3. ProcOf[d] # ProcOf[c]
        BY <3>1, <3>2
      <3> QED BY <1>0, <1>6, <3>1, <3>3 DEF WriteLocal, WriteLocalFails
    <2> QED BY <1>1, <2>1, <2>2
  <1>7. ASSUME NEW p \in Procs, Crash(p)
        PROVE  pc'[d] \notin {"put", "put_tip"} /\ (pc'[d] = "local" => Readable')
    <2>1. UNCHANGED file /\ (pc'[d] = pc[d] \/ pc'[d] = "crashed")
      BY <1>0, <1>7 DEF Crash
    <2> QED BY <1>2, <2>1
  \* Without an object store there is no listing to fail and nothing to PUT.
  <1>8. ASSUME NEW c \in Calls
        PROVE  /\ ~HydrateFails(c) /\ ~PutEnvelope(c) /\ ~PutEnvelopeFails(c)
               /\ ~PutTip(c) /\ ~PutTipFails(c)
    BY DEF FileInv, WritesAfterRead, HydrateFails, PutEnvelope, PutEnvelopeFails, PutTip,
           PutTipFails
  <1>9. CASE UNCHANGED vars
    BY <1>2, <1>9 DEF vars
  <1> QED BY <1>3, <1>4, <1>5, <1>6, <1>7, <1>8, <1>9 DEF Next, Step

\* A local log with a line that does not parse takes no more rows: no append that finds
\* the file so, or for which it becomes so, is acknowledged.
THEOREM UnreadableLogIsClosed == Spec => UnreadableLogRefuses
  <1>1. Init => FileInv
    BY DEF Init, FileInv, HoldsMutex, NoLinesWithoutFile, WritesAfterRead, InCall, NoFile
  <1>2. TypeInv /\ FileInv /\ [Next]_vars => FileInv'
    BY MutexStep, FileShapeStep, WritesAfterReadStep DEF FileInv
  <1>3. TypeInv /\ FileInv /\ [Next]_vars =>
          [\A c \in Calls :
              /\ ~UseObjects
              /\ \E i \in 1..Len(file[ProcOf[c]].lines) : file[ProcOf[c]].lines[i] = Bad
              => ~(pc[c] # "ok" /\ pc'[c] = "ok")]_vars
    <2> SUFFICES ASSUME TypeInv, FileInv, [Next]_vars, NEW c \in Calls, ~UseObjects,
                        pc[c] # "ok", pc'[c] = "ok"
                 PROVE  \A i \in 1..Len(file[ProcOf[c]].lines) : file[ProcOf[c]].lines[i] # Bad
      OBVIOUS
    <2>1. pc[c] = "local"
      <3> USE LogConstants DEF At
      <3>0. pc \in [Calls -> {"start"} \cup InCall \cup Finished]
        BY DEF TypeInv, TypeOK
      <3>1. ASSUME NEW d \in Calls, Step(d) PROVE pc[c] = "local"
        BY <3>0, <3>1 DEF Step, Lock, Hydrate, HydrateFails, ReadTip, ReadTipFails, PutEnvelope,
              PutEnvelopeFails, PutTip, PutTipFails, WriteLocal, WriteLocalFails, Return, Goto
      <3>2. ASSUME NEW p \in Procs, Crash(p) PROVE FALSE
        BY <3>0, <3>2 DEF Crash
      <3> QED BY <3>1, <3>2 DEF Next, vars
    <2> QED BY <2>1 DEF FileInv, WritesAfterRead
  <1> QED
    BY <1>1, <1>2, <1>3, LogTypeInvariant, PTL DEF Spec, UnreadableLogRefuses
=============================================================================
