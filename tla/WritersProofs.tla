--------------------------- MODULE WritersProofs ---------------------------
(***************************************************************************)
(* The warm writer, the durable trace writer and the detection poller, for *)
(* any topic, any batch size, any detections, and any number of restarts   *)
(* and failures.                                                           *)
(***************************************************************************)
EXTENDS Writers, FiniteSetTheorems, TLAPS

\* A step of Writers is a step of a process or leaves it alone.
LEMMA StepsOfAProcess ==
    ASSUME [Next]_writersVars
    PROVE  [WarmNext]_warmVars /\ [WriterNext]_writerVars /\ [PollerNext]_pollerVars
  BY DEF Next, writersVars

-----------------------------------------------------------------------------
\* The warm writer.

WarmTypes ==
    /\ topic \in Seq({"event", "garbage"})
    /\ committed \in Nat /\ issued \in Nat /\ position \in 0..Len(topic)
    /\ buffer \in Seq(Nat)
    /\ pc \in {"down", "loop", "writing", "hinting"}
    /\ catalog \in Seq(Seq(Nat)) /\ hint \in Seq(Seq(Nat))
    /\ faults \in Nat /\ crashes \in Nat

\* Events up to x that a process which restarted now would not find again.
Gone(x) == { o \in Events : o <= x /\ ~InBuffer(o) /\ ~InTable(hint, o) }

\* Every failure pays for one batch, also while the hint lags behind the catalog: what is
\* counted is what the hint leads to, and that is never more than the catalog has.
WarmInv ==
    /\ WarmTypes
    /\ committed <= issued /\ issued <= position
    /\ pc = "down" => buffer = <<>>
    /\ pc = "loop" => Len(buffer) < BatchSize
    /\ Len(buffer) <= BatchSize
    /\ \A o \in Nat : InTable(hint, o) => InTable(catalog, o)
    /\ pc = "hinting" => \A o \in Nat : InBuffer(o) => InTable(catalog, o)
    /\ Cardinality(Gone(position)) <= (faults + crashes) * BatchSize

\* The entries of a list are not more than its length.
LEMMA ListSize ==
    ASSUME NEW b \in Seq(Nat)
    PROVE  IsFiniteSet(ToSet(b)) /\ Cardinality(ToSet(b)) <= Len(b)
  <1>1. Len(b) \in Nat /\ b \in [1..Len(b) -> Nat]
    OBVIOUS
  <1>2. b \in [1..Len(b) -> ToSet(b)]
    <2>1. \A i \in 1..Len(b) : b[i] \in ToSet(b)
      BY <1>1 DEF ToSet
    <2> QED BY <1>1, <2>1
  <1>3. \A x \in ToSet(b) : \E i \in 1..Len(b) : b[i] = x
    BY <1>1 DEF ToSet
  <1>4. b \in Surjection(1..Len(b), ToSet(b))
    BY <1>2, <1>3 DEF Surjection
  <1>5. IsFiniteSet(1..Len(b)) /\ Cardinality(1..Len(b)) = Len(b)
    <2>1. 1 \in Int /\ Len(b) \in Int
      BY <1>1
    <2>2. /\ IsFiniteSet(1..Len(b))
          /\ Cardinality(1..Len(b)) = IF 1 > Len(b) THEN 0 ELSE Len(b) - 1 + 1
      BY <2>1, FS_Interval
    <2> QED BY <1>1, <2>2
  <1> QED BY <1>4, <1>5, FS_Surjection

\* What may be gone is finite.
LEMMA GoneFinite ==
    ASSUME WarmTypes, NEW x
    PROVE  /\ IsFiniteSet(Gone(x)) /\ Cardinality(Gone(x)) \in Nat
           /\ Gone(x) \subseteq 1..Len(topic)
  <1>1. Len(topic) \in Nat /\ DOMAIN topic = 1..Len(topic)
    BY DEF WarmTypes
  <1>2. Gone(x) \in SUBSET (1..Len(topic))
    BY <1>1 DEF Gone, Events
  <1>3. IsFiniteSet(1..Len(topic))
    BY <1>1, FS_Interval
  <1>4. IsFiniteSet(Gone(x))
    BY <1>2, <1>3, FS_Subset
  <1> QED BY <1>2, <1>4, FS_CardinalityType

\* A step that adds nothing to what may be gone keeps its bound.
LEMMA NothingGoes ==
    ASSUME WarmInv, WarmTypes', Gone(position)' \subseteq Gone(position),
           faults' = faults, crashes' = crashes
    PROVE  Cardinality(Gone(position)') <= (faults' + crashes') * BatchSize
  <1>1. IsFiniteSet(Gone(position)) /\ Cardinality(Gone(position)) \in Nat
    BY GoneFinite DEF WarmInv
  <1>2. Cardinality(Gone(position)') <= Cardinality(Gone(position))
    BY <1>1, FS_Subset
  <1>3. Gone(position)' = Gone(position)' /\ Cardinality(Gone(position)') \in Nat
    BY <1>1, FS_Subset, FS_CardinalityType
  <1>4. (faults + crashes) * BatchSize \in Nat
    BY IcebergConstants DEF WarmInv, WarmTypes
  <1> QED BY <1>1, <1>2, <1>3, <1>4 DEF WarmInv

\* A failure pays for the buffer it loses.
LEMMA BatchGoes ==
    ASSUME WarmInv, WarmTypes', Gone(position)' \subseteq Gone(position) \cup ToSet(buffer),
           faults' + crashes' = faults + crashes + 1
    PROVE  Cardinality(Gone(position)') <= (faults' + crashes') * BatchSize
  <1>1. IsFiniteSet(Gone(position)) /\ Cardinality(Gone(position)) \in Nat
    BY GoneFinite DEF WarmInv
  <1>2. IsFiniteSet(ToSet(buffer)) /\ Cardinality(ToSet(buffer)) <= Len(buffer)
    BY ListSize DEF WarmInv, WarmTypes
  <1>3. Cardinality(ToSet(buffer)) \in Nat
    BY <1>2, FS_CardinalityType
  <1> DEFINE U == Gone(position) \cup ToSet(buffer)
  <1>4. IsFiniteSet(U) /\ Cardinality(U) =
            Cardinality(Gone(position)) + Cardinality(ToSet(buffer))
              - Cardinality(Gone(position) \cap ToSet(buffer))
    BY <1>1, <1>2, FS_Union
  <1>5. Cardinality(Gone(position) \cap ToSet(buffer)) \in Nat
    BY <1>1, FS_Intersection, FS_CardinalityType
  <1>6. Cardinality(Gone(position)') <= Cardinality(U) /\ Cardinality(U) \in Nat
    BY <1>4, FS_Subset, FS_CardinalityType
  <1>7. Cardinality(Gone(position)') \in Nat
    BY <1>4, FS_Subset, FS_CardinalityType
  <1>8. /\ Len(buffer) \in Nat /\ Len(buffer) <= BatchSize /\ BatchSize \in Nat
        /\ faults + crashes \in Nat
        /\ Cardinality(Gone(position)) <= (faults + crashes) * BatchSize
    BY IcebergConstants DEF WarmInv, WarmTypes
  <1>9. (faults + crashes + 1) * BatchSize = (faults + crashes) * BatchSize + BatchSize
    BY <1>8
  <1>10. (faults + crashes) * BatchSize \in Nat
    BY <1>8
  <1> HIDE DEF U
  <1>11. Cardinality(Gone(position)') <= (faults + crashes) * BatchSize + BatchSize
    BY <1>1, <1>2, <1>3, <1>4, <1>5, <1>6, <1>7, <1>8, <1>10
  <1> QED BY <1>9, <1>11

\* A snapshot adds its rows to the table and takes none away.
LEMMA SnapshotAdds ==
    ASSUME NEW t \in Seq(Seq(Nat)), NEW b \in Seq(Nat), NEW o
    PROVE  InTable(Append(t, b), o) <=> InTable(t, o) \/ o \in ToSet(b)
  <1>1. /\ DOMAIN t = 1..Len(t) /\ DOMAIN Append(t, b) = 1..(Len(t) + 1) /\ Len(t) \in Nat
        /\ \A i \in 1..Len(t) : Append(t, b)[i] = t[i]
        /\ Append(t, b)[Len(t) + 1] = b
    OBVIOUS
  <1>2. \A i \in 1..(Len(t) + 1) : i \in 1..Len(t) \/ i = Len(t) + 1
    BY <1>1
  <1>3. Len(t) + 1 \in 1..(Len(t) + 1) /\ \A i \in 1..Len(t) : i \in 1..(Len(t) + 1)
    BY <1>1
  <1> QED BY <1>1, <1>2, <1>3 DEF InTable

\* Steps that leave the messages, the buffer and the tables alone.
LEMMA WarmRests ==
    ASSUME WarmInv, WarmTypes', UNCHANGED <<topic, position, buffer, hint, catalog, faults, crashes>>,
           committed' <= issued', issued' <= position,
           pc' = pc \/ (pc = "loop" /\ pc' = "writing") \/ (pc = "loop" /\ buffer = <<>> /\ pc' = "down")
    PROVE  WarmInv'
  <1>1. Gone(position)' = Gone(position)
    BY DEF Gone, Events, InBuffer, InTable, ToSet
  <1>2. Cardinality(Gone(position)') <= (faults' + crashes') * BatchSize
    BY <1>1, NothingGoes
  <1>3. /\ \A o \in Nat : InTable(hint, o)' => InTable(catalog, o)'
        /\ pc' = "hinting" => \A o \in Nat : InBuffer(o)' => InTable(catalog, o)'
    BY DEF WarmInv, InTable, InBuffer, ToSet
  <1>4. /\ pc' = "down" => buffer' = <<>>
        /\ pc' = "loop" => Len(buffer') < BatchSize
        /\ Len(buffer') <= BatchSize
    BY DEF WarmInv
  <1> QED BY <1>2, <1>3, <1>4 DEF WarmInv

\* The end of a flush, and a crash, leave an empty buffer behind.
LEMMA BufferCleared ==
    ASSUME WarmInv, WarmTypes', UNCHANGED <<topic, position, catalog, committed>>,
           buffer' = <<>>, pc' \in {"down", "loop"},
           committed <= issued', issued' <= position,
           \/ hint' = hint /\ faults' + crashes' = faults + crashes + 1
           \/ hint' = catalog /\ pc = "hinting" /\ faults' = faults /\ crashes' = crashes
    PROVE  WarmInv'
  <1>1. /\ \A o \in Nat : InTable(hint, o) => InTable(catalog, o)
        /\ BatchSize \in Nat \ {0}
    BY IcebergConstants DEF WarmInv
  <1>2. ASSUME NEW o, o \in Gone(position)' PROVE o \in Nat /\ o \in Events /\ o <= position
    <2>1. Len(topic) \in Nat /\ DOMAIN topic = 1..Len(topic)
      BY DEF WarmInv, WarmTypes
    <2> QED BY <1>2, <2>1 DEF Gone, Events
  <1>3. Cardinality(Gone(position)') <= (faults' + crashes') * BatchSize
    <2>1. CASE hint' = hint /\ faults' + crashes' = faults + crashes + 1
      <3>1. ASSUME NEW o, o \in Gone(position)' PROVE o \in Gone(position) \cup ToSet(buffer)
        BY <1>2, <2>1, <3>1 DEF Gone, InBuffer, InTable
      <3> QED BY <2>1, <3>1, BatchGoes
    <2>2. CASE hint' = catalog /\ pc = "hinting" /\ faults' = faults /\ crashes' = crashes
      <3>1. ASSUME NEW o, o \in Gone(position)' PROVE o \in Gone(position)
        <4>1. o \in Nat /\ o \in Events /\ o <= position
          BY <1>2, <3>1
        <4>2. ~InTable(catalog, o)
          BY <2>2, <3>1 DEF Gone, InTable
        <4>3. ~InBuffer(o) /\ ~InTable(hint, o)
          BY <1>1, <2>2, <4>1, <4>2 DEF WarmInv
        <4> QED BY <4>1, <4>3 DEF Gone
      <3> QED BY <2>2, <3>1, NothingGoes
    <2> QED BY <2>1, <2>2
  <1>4. \A o \in Nat : InTable(hint, o)' => InTable(catalog, o)'
    <2>1. CASE hint' = hint
      BY <1>1, <2>1 DEF InTable
    <2>2. CASE hint' = catalog
      BY <2>2 DEF InTable
    <2> QED BY <2>1, <2>2
  <1>5. Len(buffer') = 0
    OBVIOUS
  <1> QED BY <1>1, <1>3, <1>4, <1>5 DEF WarmInv

\* The writer has not been started yet.
LEMMA WarmStarts == WarmInit => WarmInv
  <1> SUFFICES ASSUME WarmInit PROVE WarmInv
    OBVIOUS
  <1>1. /\ topic = <<>> /\ committed = 0 /\ issued = 0 /\ position = 0 /\ buffer = <<>>
        /\ pc = "down" /\ catalog = <<>> /\ hint = <<>> /\ crashes = 0 /\ faults = 0
    BY DEF WarmInit
  <1>2. WarmTypes
    BY <1>1 DEF WarmTypes
  <1>3. Gone(position) = {}
    <2>1. Len(topic) = 0
      BY <1>1
    <2>2. Gone(position) \subseteq 1..0
      BY <1>2, <2>1, GoneFinite
    <2> QED BY <2>2
  <1>4. Cardinality(Gone(position)) = 0
    BY <1>3, FS_EmptySet
  <1>5. BatchSize \in Nat \ {0} /\ Len(buffer) = 0
    BY <1>1, IcebergConstants
  <1> QED BY <1>1, <1>2, <1>4, <1>5 DEF WarmInv

\* Every step of the writer keeps its invariant: only a failed flush and a crash lose what
\* is buffered.
LEMMA WarmStep == WarmInv /\ [WarmNext]_warmVars => WarmInv'
  <1> SUFFICES ASSUME WarmInv, [WarmNext]_warmVars PROVE WarmInv'
    OBVIOUS
  <1>0. /\ WarmTypes /\ committed <= issued /\ issued <= position
        /\ committed \in Nat /\ issued \in Nat /\ position \in Nat /\ position <= Len(topic)
        /\ Len(topic) \in Nat /\ DOMAIN topic = 1..Len(topic)
        /\ buffer \in Seq(Nat) /\ Len(buffer) \in Nat /\ BatchSize \in Nat \ {0}
    BY IcebergConstants DEF WarmInv, WarmTypes
  <1>1. CASE Produce
    <2>1. PICK k \in {"event", "garbage"} : topic' = Append(topic, k)
      BY <1>1 DEF Produce
    <2>2. UNCHANGED <<committed, issued, position, buffer, pc, catalog, hint, faults, crashes>>
      BY <1>1 DEF Produce, bounds
    <2>3. /\ DOMAIN topic' = 1..(Len(topic) + 1) /\ Len(topic') = Len(topic) + 1
          /\ \A i \in 1..Len(topic) : topic'[i] = topic[i]
      BY <1>0, <2>1 DEF WarmTypes
    <2>4. WarmTypes'
      BY <1>0, <2>1, <2>2, <2>3 DEF WarmTypes
    <2>5. ASSUME NEW o, o \in Gone(position)' PROVE o \in Gone(position)
      <3>1. o \in 1..(Len(topic) + 1) /\ topic'[o] = "event" /\ o <= position
        BY <2>2, <2>3, <2>5 DEF Gone, Events
      <3>2. o \in 1..Len(topic)
        BY <1>0, <3>1
      <3>3. ~InBuffer(o) /\ ~InTable(hint, o)
        BY <2>2, <2>5 DEF Gone, InBuffer, InTable
      <3> QED BY <1>0, <2>3, <3>1, <3>2, <3>3 DEF Gone, Events
    <2>6. Cardinality(Gone(position)') <= (faults' + crashes') * BatchSize
      BY <2>2, <2>4, <2>5, NothingGoes
    <2>7. /\ \A o \in Nat : InTable(hint, o)' => InTable(catalog, o)'
          /\ pc' = "hinting" => \A o \in Nat : InBuffer(o)' => InTable(catalog, o)'
      BY <2>2 DEF WarmInv, InTable, InBuffer
    <2> QED BY <2>2, <2>4, <2>6, <2>7 DEF WarmInv
  <1>2. CASE CommitArrives
    <2>1. /\ UNCHANGED <<topic, position, buffer, hint, catalog, faults, crashes, pc>>
          /\ committed' = issued /\ issued' = issued
      BY <1>2 DEF CommitArrives, bounds
    <2>2. WarmTypes'
      BY <1>0, <2>1 DEF WarmTypes
    <2> QED BY <1>0, <2>1, <2>2, WarmRests
  <1>3. CASE Start
    <2>1. /\ UNCHANGED <<topic, committed, hint, faults, crashes>>
          /\ catalog' = hint /\ position' = committed /\ issued' = committed
          /\ buffer' = <<>> /\ pc' = "loop" /\ buffer = <<>>
      BY <1>3 DEF Start, open_or_create_table, WarmInv
    <2>2. WarmTypes'
      BY <1>0, <2>1 DEF WarmTypes
    <2>3. ASSUME NEW o, o \in Gone(position)' PROVE o \in Gone(position)
      <3>1. o \in Events /\ o <= committed /\ ~InBuffer(o) /\ ~InTable(hint, o)
        BY <2>1, <2>3 DEF Gone, Events, InBuffer, InTable
      <3>2. o \in Nat
        BY <1>0, <3>1 DEF Events
      <3>3. o <= position
        BY <1>0, <3>1, <3>2
      <3> QED BY <3>1, <3>3 DEF Gone
    <2>4. Cardinality(Gone(position)') <= (faults' + crashes') * BatchSize
      BY <2>1, <2>2, <2>3, NothingGoes
    <2>5. \A o \in Nat : InTable(hint, o)' => InTable(catalog, o)'
      BY <2>1 DEF InTable
    <2>6. Len(buffer') = 0
      BY <2>1
    <2> QED BY <1>0, <2>1, <2>2, <2>4, <2>5, <2>6 DEF WarmInv
  <1>4. CASE Recv
    <2>1. /\ pc = "loop" /\ position < Len(topic) /\ position' = position + 1
          /\ UNCHANGED <<topic, committed, catalog, hint, faults, crashes>>
      BY <1>4 DEF Recv, bounds
    <2>2. CASE topic[position + 1] = "event"
      <3>1. buffer' = Append(buffer, position + 1)
        BY <1>4, <2>2 DEF Recv
      <3>2. /\ buffer' \in Seq(Nat) /\ Len(buffer') = Len(buffer) + 1
            /\ \A o : o \in ToSet(buffer') <=> o \in ToSet(buffer) \/ o = position + 1
        <4>1. /\ DOMAIN buffer' = 1..(Len(buffer) + 1) /\ DOMAIN buffer = 1..Len(buffer)
              /\ \A i \in 1..Len(buffer) : buffer'[i] = buffer[i]
              /\ buffer'[Len(buffer) + 1] = position + 1
              /\ buffer' \in Seq(Nat) /\ Len(buffer') = Len(buffer) + 1
          BY <1>0, <3>1
        <4>2. \A i : i \in 1..(Len(buffer) + 1) <=> i \in 1..Len(buffer) \/ i = Len(buffer) + 1
          BY <1>0
        <4> QED BY <4>1, <4>2 DEF ToSet
      <3>3. \/ IsFull(buffer') /\ pc' = "writing" /\ issued' = issued
            \/ ~IsFull(buffer') /\ pc' = "loop" /\ issued' = position'
        BY <1>4, <2>1, <2>2 DEF Recv
      <3>4. /\ Len(buffer') <= BatchSize /\ (pc' = "loop" => Len(buffer') < BatchSize)
            /\ committed <= issued' /\ issued' <= position' /\ issued' \in Nat
            /\ pc' \in {"loop", "writing"}
        BY <1>0, <2>1, <3>2, <3>3 DEF IsFull, WarmInv
      <3>5. WarmTypes'
        BY <1>0, <2>1, <3>2, <3>4 DEF WarmTypes
      <3>6. ASSUME NEW o, o \in Gone(position)' PROVE o \in Gone(position)
        <4>1. /\ o \in Events /\ o <= position + 1 /\ o # position + 1
              /\ ~InBuffer(o) /\ ~InTable(hint, o)
          BY <2>1, <3>2, <3>6 DEF Gone, Events, InBuffer, InTable
        <4>2. o \in Nat
          BY <1>0, <4>1 DEF Events
        <4> QED BY <1>0, <4>1, <4>2 DEF Gone
      <3>7. Cardinality(Gone(position)') <= (faults' + crashes') * BatchSize
        BY <2>1, <3>5, <3>6, NothingGoes
      <3>8. \A o \in Nat : InTable(hint, o)' => InTable(catalog, o)'
        BY <2>1 DEF InTable, WarmInv
      <3> QED BY <2>1, <3>4, <3>5, <3>7, <3>8 DEF WarmInv
    <2>3. CASE topic[position + 1] # "event"
      <3>1. buffer' = buffer /\ issued' = position + 1 /\ pc' = "loop"
        BY <1>4, <2>1, <2>3 DEF Recv
      <3>2. WarmTypes'
        BY <1>0, <2>1, <3>1 DEF WarmTypes
      <3>3. ASSUME NEW o, o \in Gone(position)' PROVE o \in Gone(position)
        <4>1. /\ o \in Events /\ o <= position + 1 /\ ~InBuffer(o) /\ ~InTable(hint, o)
          BY <2>1, <3>1, <3>3 DEF Gone, Events, InBuffer, InTable
        <4>2. o \in Nat /\ o # position + 1
          BY <1>0, <2>3, <4>1 DEF Events
        <4> QED BY <1>0, <4>1, <4>2 DEF Gone
      <3>4. Cardinality(Gone(position)') <= (faults' + crashes') * BatchSize
        BY <2>1, <3>2, <3>3, NothingGoes
      <3>5. \A o \in Nat : InTable(hint, o)' => InTable(catalog, o)'
        BY <2>1 DEF InTable, WarmInv
      <3>6. committed' <= issued' /\ issued' <= position'
        BY <1>0, <2>1, <3>1
      <3> QED BY <2>1, <3>1, <3>2, <3>4, <3>5, <3>6 DEF WarmInv
    <2> QED BY <2>2, <2>3
  <1>5. CASE Tick \/ Shutdown
    <2>1. /\ UNCHANGED <<topic, position, buffer, hint, catalog, faults, crashes, committed, issued>>
          /\ pc = "loop"
          /\ pc' = "writing" \/ (buffer = <<>> /\ pc' = "down")
      BY <1>5 DEF Tick, Shutdown, bounds
    <2>2. WarmTypes'
      BY <1>0, <2>1 DEF WarmTypes
    <2> QED BY <1>0, <2>1, <2>2, WarmRests
  <1>6. CASE CommitSnapshot
    <2>1. /\ UNCHANGED <<topic, position, buffer, hint, faults, crashes, committed, issued>>
          /\ catalog' = Append(catalog, buffer) /\ pc' = "hinting" /\ pc = "writing"
      BY <1>6 DEF CommitSnapshot, bounds
    <2>2. WarmTypes'
      BY <1>0, <2>1 DEF WarmTypes
    <2>3. \A o : InTable(catalog', o) <=> InTable(catalog, o) \/ InBuffer(o)
      BY <1>0, <2>1, SnapshotAdds DEF WarmTypes, InBuffer
    <2>4. /\ \A o \in Nat : InTable(hint, o)' => InTable(catalog, o)'
          /\ \A o \in Nat : InBuffer(o)' => InTable(catalog, o)'
      BY <2>1, <2>3 DEF WarmInv, InTable, InBuffer
    <2>5. Gone(position)' = Gone(position)
      BY <2>1 DEF Gone, Events, InBuffer, InTable, ToSet
    <2>6. Cardinality(Gone(position)') <= (faults' + crashes') * BatchSize
      BY <2>1, <2>2, <2>5, NothingGoes
    <2> QED BY <2>1, <2>2, <2>4, <2>6 DEF WarmInv
  <1>7. CASE PersistHint
    <2>1. /\ UNCHANGED <<topic, position, catalog, committed, faults, crashes>>
          /\ buffer' = <<>> /\ pc' \in {"down", "loop"} /\ issued' \in {position, issued}
          /\ hint' = catalog /\ pc = "hinting"
      BY <1>7 DEF PersistHint, EndFlush, Cleared
    <2>2. WarmTypes'
      BY <1>0, <2>1 DEF WarmTypes
    <2>3. committed <= issued' /\ issued' <= position
      BY <1>0, <2>1
    <2> QED BY <2>1, <2>2, <2>3, BufferCleared
  <1>8. CASE FlushFails
    <2>1. /\ UNCHANGED <<topic, position, catalog, committed, hint, crashes>>
          /\ buffer' = <<>> /\ pc' \in {"down", "loop"} /\ issued' \in {position, issued}
          /\ faults' = faults + 1
      BY <1>8 DEF FlushFails, EndFlush, Cleared
    <2>2. WarmTypes'
      BY <1>0, <2>1 DEF WarmTypes
    <2>3. committed <= issued' /\ issued' <= position
      BY <1>0, <2>1
    <2>4. faults' + crashes' = faults + crashes + 1
      BY <1>0, <2>1 DEF WarmTypes
    <2> QED BY <2>1, <2>2, <2>3, <2>4, BufferCleared
  <1>9. CASE Crash
    <2>1. /\ UNCHANGED <<topic, position, catalog, committed, hint, faults, issued>>
          /\ buffer' = <<>> /\ pc' = "down" /\ crashes' = crashes + 1
      BY <1>9 DEF Crash
    <2>2. WarmTypes'
      BY <1>0, <2>1 DEF WarmTypes
    <2>3. faults' + crashes' = faults + crashes + 1
      BY <1>0, <2>1 DEF WarmTypes
    <2> QED BY <1>0, <2>1, <2>2, <2>3, BufferCleared
  <1>10. CASE UNCHANGED warmVars
    <2>1. UNCHANGED <<topic, position, buffer, hint, catalog, faults, crashes, committed, issued, pc>>
      BY <1>10 DEF warmVars
    <2>2. WarmTypes'
      BY <1>0, <2>1 DEF WarmTypes
    <2> QED BY <1>0, <2>1, <2>2, WarmRests
  <1> QED BY <1>1, <1>2, <1>3, <1>4, <1>5, <1>6, <1>7, <1>8, <1>9, <1>10 DEF WarmNext, Flush

\* Of the events whose offsets are committed no more are lost than a batch for each failed
\* flush and each crash: nothing is when ctrl_c is all that ever ends the writer.
THEOREM LossIsBounded == Spec => []LossBoundedByBatch
  <1>1. Init => WarmInv
    BY WarmStarts DEF Init
  <1>2. WarmInv /\ [Next]_writersVars => WarmInv'
    BY WarmStep, StepsOfAProcess
  <1>3. WarmInv => LossBoundedByBatch
    <2> SUFFICES ASSUME WarmInv PROVE LossBoundedByBatch
      OBVIOUS
    <2>1. ASSUME NEW o \in Lost PROVE o \in Gone(position)
      <3>1. /\ o \in Events /\ o <= committed /\ ~InBuffer(o)
            /\ (pc = "down" => ~InTable(hint, o)) /\ (pc # "down" => ~InTable(catalog, o))
        BY DEF Lost
      <3>2. o \in Nat /\ committed \in Nat /\ issued \in Nat /\ position \in Nat
        <4>1. DOMAIN topic = 1..Len(topic)
          BY DEF WarmInv, WarmTypes
        <4> QED BY <3>1, <4>1 DEF Events, WarmInv, WarmTypes
      <3>3. o <= position /\ ~InTable(hint, o)
        BY <3>1, <3>2 DEF WarmInv
      <3> QED BY <3>1, <3>3 DEF Gone
    <2>2. IsFiniteSet(Gone(position)) /\ Cardinality(Gone(position)) \in Nat
      BY GoneFinite DEF WarmInv
    <2>3. Cardinality(Lost) <= Cardinality(Gone(position)) /\ Cardinality(Lost) \in Nat
      BY <2>1, <2>2, FS_Subset, FS_CardinalityType
    <2>4. (faults + crashes) * BatchSize \in Nat
      BY IcebergConstants DEF WarmInv, WarmTypes
    <2> QED BY <2>2, <2>3, <2>4 DEF WarmInv, LossBoundedByBatch
  <1> QED BY <1>1, <1>2, <1>3, PTL DEF Spec

-----------------------------------------------------------------------------
\* The trace writer.

Offset == Nat \cup {NoOffset}

WriterTypes ==
    /\ traceTopic \in Seq(RowIds \cup {NoStep})
    /\ traceCommitted \in Offset /\ traceIssued \in Offset
    /\ tracePosition \in 0..Len(traceTopic) /\ base \in Nat
    /\ stepRows \in [RowIds -> Nat \cup {NoRow}]
    /\ writerFaults \in Nat

\* Steps of the group's history up to x that are in no row.
Missing(x) == { n \in (base + 1)..x : IsStep(n) /\ ~HasRow(n) }

\* Up to x, which is in the topic, no more steps are missing than statements failed.
Paid(x) == x \in 0..Len(traceTopic) /\ Cardinality(Missing(x)) <= writerFaults

\* The messages the writer has dealt with.
Processed == IF writerPc \in {"case", "step"} THEN tracePosition - 1 ELSE tracePosition

\* While the connection is up everything behind the writer is paid for; so is what it
\* committed, and that alone counts once the connection is lost.
WriterInv ==
    /\ WriterTypes
    /\ traceCommitted # NoOffset => Paid(traceCommitted)
    /\ traceIssued # NoOffset => Paid(traceIssued)
    /\ pgUp => Paid(Processed)
    /\ writerPc \in {"case", "step"} =>
          tracePosition # 0 /\ traceTopic[tracePosition] # NoStep

\* What is paid for stays so when rows, messages and faults are only added.
LEMMA PaidStays ==
    ASSUME WriterTypes, WriterTypes', NEW x, Paid(x), base' = base,
           writerFaults <= writerFaults', Len(traceTopic) <= Len(traceTopic'),
           \A n \in 1..Len(traceTopic) : traceTopic'[n] = traceTopic[n],
           \A r \in RowIds : stepRows[r] # NoRow => stepRows'[r] # NoRow
    PROVE  Paid(x)'
  <1>1. /\ x \in 0..Len(traceTopic) /\ base \in Nat /\ Len(traceTopic) \in Nat
        /\ Len(traceTopic') \in Nat /\ writerFaults \in Nat /\ writerFaults' \in Nat
        /\ DOMAIN traceTopic = 1..Len(traceTopic)
        /\ DOMAIN traceTopic' = 1..Len(traceTopic')
    BY DEF Paid, WriterTypes
  <1>2. x \in 0..Len(traceTopic')
    BY <1>1
  <1>3. Missing(x)' \subseteq Missing(x)
    <2>1. ASSUME NEW n \in (base + 1)..x, IsStep(n)', ~HasRow(n)'
          PROVE  IsStep(n) /\ ~HasRow(n)
      <3>1. n \in 1..Len(traceTopic) /\ traceTopic'[n] = traceTopic[n]
        BY <1>1
      <3>2. traceTopic[n] \in RowIds
        BY <2>1, <3>1 DEF IsStep, WriterTypes
      <3>3. IsStep(n)
        BY <1>1, <2>1, <3>1 DEF IsStep
      <3>4. stepRows'[traceTopic'[n]] = NoRow
        BY <2>1 DEF HasRow
      <3> QED BY <3>1, <3>2, <3>3, <3>4 DEF HasRow
    <2>2. ASSUME NEW n \in Missing(x)' PROVE n \in Missing(x)
      <3>1. n \in (base + 1)..x /\ IsStep(n)' /\ ~HasRow(n)'
        BY DEF Missing
      <3> QED BY <2>1, <3>1 DEF Missing
    <2> QED BY <2>2
  <1>4. IsFiniteSet(Missing(x)) /\ Cardinality(Missing(x)) \in Nat
    <2>1. IsFiniteSet((base + 1)..x)
      <3>1. base + 1 \in Int /\ x \in Int
        BY <1>1
      <3> QED BY <3>1, FS_Interval
    <2>2. Missing(x) \subseteq (base + 1)..x
      BY DEF Missing
    <2> QED BY <2>1, <2>2, FS_Subset, FS_CardinalityType
  <1>5. Cardinality(Missing(x)') <= Cardinality(Missing(x)) /\ Cardinality(Missing(x)') \in Nat
    BY <1>3, <1>4, FS_Subset, FS_CardinalityType
  <1>6. Cardinality(Missing(x)') <= writerFaults'
    BY <1>1, <1>4, <1>5 DEF Paid
  <1> QED BY <1>2, <1>6 DEF Paid

\* One more message is paid for when it is no step or has a row, and with one more fault in
\* any case.
LEMMA PaidAdvances ==
    ASSUME WriterTypes, NEW x, x + 1 \in 1..Len(traceTopic), Paid(x)
    PROVE  /\ ~IsStep(x + 1) \/ HasRow(x + 1) => Paid(x + 1)
           /\ Cardinality(Missing(x + 1)) <= writerFaults + 1
  <1>1. /\ x \in Nat /\ x + 1 \in 0..Len(traceTopic) /\ base \in Nat /\ writerFaults \in Nat
        /\ Len(traceTopic) \in Nat
    BY DEF Paid, WriterTypes
  <1>2. IsFiniteSet(Missing(x)) /\ Cardinality(Missing(x)) \in Nat
    <2>1. IsFiniteSet((base + 1)..x)
      BY <1>1, FS_Interval
    <2>2. Missing(x) \subseteq (base + 1)..x
      BY DEF Missing
    <2> QED BY <2>1, <2>2, FS_Subset, FS_CardinalityType
  <1>3. Missing(x + 1) \subseteq Missing(x) \cup {x + 1}
    <2>1. \A n \in (base + 1)..(x + 1) : n = x + 1 \/ n \in (base + 1)..x
      BY <1>1
    <2> QED BY <2>1 DEF Missing
  <1>4. ASSUME ~IsStep(x + 1) \/ HasRow(x + 1) PROVE Paid(x + 1)
    <2>1. Missing(x + 1) \subseteq Missing(x)
      BY <1>3, <1>4 DEF Missing
    <2>2. Cardinality(Missing(x + 1)) <= Cardinality(Missing(x))
          /\ Cardinality(Missing(x + 1)) \in Nat
      BY <1>2, <2>1, FS_Subset, FS_CardinalityType
    <2> QED BY <1>1, <1>2, <2>2 DEF Paid
  <1>5. Cardinality(Missing(x + 1)) <= writerFaults + 1
    <2>1. /\ IsFiniteSet(Missing(x) \cup {x + 1})
          /\ Cardinality(Missing(x) \cup {x + 1}) <= Cardinality(Missing(x)) + 1
          /\ Cardinality(Missing(x) \cup {x + 1}) \in Nat
      BY <1>2, FS_AddElement, FS_CardinalityType
    <2>2. /\ Cardinality(Missing(x + 1)) <= Cardinality(Missing(x) \cup {x + 1})
          /\ Cardinality(Missing(x + 1)) \in Nat
      BY <1>3, <2>1, FS_Subset, FS_CardinalityType
    <2> QED BY <1>1, <1>2, <2>1, <2>2 DEF Paid
  <1> QED BY <1>4, <1>5

\* The writer has not been started yet.
LEMMA WriterStarts == WriterInit => WriterInv
  <1> SUFFICES ASSUME WriterInit PROVE WriterInv
    OBVIOUS
  <1>1. WriterTypes
    <2>1. traceTopic \in Seq(RowIds \cup {NoStep}) /\ Len(traceTopic) = 0
      BY DEF WriterInit
    <2> QED BY <2>1 DEF WriterInit, WriterTypes, Offset
  <1> QED BY <1>1 DEF WriterInit, WriterInv

\* A step of which the topic and the rows are kept and the faults are not fewer.
LEMMA PaidStaysPut ==
    ASSUME WriterTypes, WriterTypes', UNCHANGED <<traceTopic, stepRows, base>>,
           writerFaults <= writerFaults', NEW x, Paid(x)
    PROVE  Paid(x)'
  <1>1. Len(traceTopic) \in Nat
    BY DEF WriterTypes
  <1> QED BY <1>1, PaidStays

\* The topic grows behind everything the writer knows of.
LEMMA PublishKeeps ==
    ASSUME WriterInv, Publish
    PROVE  WriterInv'
  <1>1. PICK r \in RowIds \cup {NoStep} : traceTopic' = Append(traceTopic, r)
    BY DEF Publish
  <1>2. UNCHANGED <<traceCommitted, traceIssued, tracePosition, base, writerPc, pgUp, stepRows,
                    writerFaults>>
    BY DEF Publish, offsets, storage, writerBounds
  <1>3. WriterTypes /\ traceTopic \in Seq(RowIds \cup {NoStep}) /\ Len(traceTopic) \in Nat
    BY DEF WriterInv, WriterTypes
  <1>4. /\ traceTopic' \in Seq(RowIds \cup {NoStep}) /\ Len(traceTopic') = Len(traceTopic) + 1
        /\ \A n \in 1..Len(traceTopic) : traceTopic'[n] = traceTopic[n]
    BY <1>1, <1>3
  <1>5. WriterTypes'
    BY <1>2, <1>3, <1>4 DEF WriterTypes
  <1>6. ASSUME NEW x, Paid(x) PROVE Paid(x)'
    BY <1>2, <1>3, <1>4, <1>5, <1>6, PaidStays DEF WriterTypes
  <1>7. Processed' = Processed
    BY <1>2 DEF Processed
  <1>8. writerPc \in {"case", "step"} => traceTopic'[tracePosition] # NoStep
    BY <1>3, <1>4 DEF WriterInv, WriterTypes
  <1> QED BY <1>2, <1>5, <1>6, <1>7, <1>8 DEF WriterInv

\* Steps that leave the topic, the rows and the history alone.
LEMMA StandingKeeps ==
    ASSUME WriterInv, UNCHANGED <<traceTopic, stepRows, base>>,
           writerFaults' \in Nat, writerFaults <= writerFaults',
           traceCommitted' \in {traceCommitted, traceIssued},
           traceIssued' \in {traceCommitted, traceIssued},
           tracePosition' \in 0..Len(traceTopic),
           pgUp' => Paid(Processed'),
           writerPc' \in {"case", "step"} =>
              tracePosition' # 0 /\ traceTopic[tracePosition'] # NoStep
    PROVE  WriterInv'
  <1>1. WriterTypes /\ WriterTypes'
    BY DEF WriterInv, WriterTypes
  <1>2. ASSUME NEW x, Paid(x) PROVE Paid(x)'
    BY <1>1, <1>2, PaidStaysPut
  <1>3. /\ traceCommitted' # NoOffset => Paid(traceCommitted')
        /\ traceIssued' # NoOffset => Paid(traceIssued')
    BY DEF WriterInv
  <1> QED BY <1>1, <1>2, <1>3 DEF WriterInv

\* The writer starts: behind its last commit, or at the end of the topic, where the history
\* of the group then begins.
LEMMA StartKeeps ==
    ASSUME WriterInv, StartWriter
    PROVE  WriterInv'
  <1>1. WriterTypes /\ Len(traceTopic) \in Nat
    BY DEF WriterInv, WriterTypes
  <1>2. /\ writerPc' = "receive" /\ traceIssued' = traceCommitted
        /\ UNCHANGED <<traceTopic, traceCommitted, stepRows, writerFaults>>
    BY DEF StartWriter, writerBounds
  <1>3. CASE traceCommitted # NoOffset
    <2>1. tracePosition' = traceCommitted /\ base' = base /\ Paid(traceCommitted)
      BY <1>3 DEF StartWriter, WriterInv
    <2>2. Processed' = traceCommitted
      BY <1>2, <2>1 DEF Processed
    <2>3. /\ tracePosition' \in 0..Len(traceTopic)
          /\ writerFaults' \in Nat /\ writerFaults <= writerFaults'
      BY <1>1, <1>2, <2>1 DEF Paid, WriterTypes
    <2> QED BY <1>2, <2>1, <2>2, <2>3, StandingKeeps
  <1>4. CASE traceCommitted = NoOffset
    <2>1. tracePosition' = Len(traceTopic) /\ base' = Len(traceTopic)
      BY <1>4 DEF StartWriter
    <2>2. WriterTypes'
      BY <1>1, <1>2, <2>1 DEF WriterTypes
    <2>3. Processed' = Len(traceTopic)
      BY <1>2, <2>1 DEF Processed
    <2>4. Missing(Len(traceTopic))' = {}
      BY <1>1, <1>2, <2>1 DEF Missing
    <2>5. Paid(Processed)'
      <3>1. Cardinality(Missing(Processed))' = 0
        BY <1>2, <2>3, <2>4, FS_EmptySet
      <3>2. writerFaults' \in Nat /\ Processed' \in 0..Len(traceTopic')
        BY <1>1, <1>2, <2>3 DEF WriterTypes
      <3> QED BY <3>1, <3>2 DEF Paid
    <2> QED BY <1>2, <1>4, <2>2, <2>5 DEF WriterInv
  <1> QED BY <1>3, <1>4

\* Each message is dealt with in turn; garbage needs no row.
LEMMA ReceiveKeeps ==
    ASSUME WriterInv, Receive
    PROVE  WriterInv'
  <1> DEFINE n == tracePosition + 1
  <1>1. /\ WriterTypes /\ Len(traceTopic) \in Nat /\ tracePosition \in Nat
        /\ n \in 1..Len(traceTopic) /\ writerPc = "receive" /\ tracePosition' = n
        /\ writerPc' = AfterParse(traceTopic[n])
        /\ UNCHANGED <<traceTopic, traceCommitted, traceIssued, base, pgUp, stepRows, writerFaults>>
    BY DEF Receive, WriterInv, WriterTypes, storage, writerBounds
  <1>2. pgUp => Paid(tracePosition)
    BY <1>1 DEF WriterInv, Processed
  <1>3. pgUp' => Paid(Processed')
    <2>1. CASE traceTopic[n] = NoStep
      <3>1. Processed' = n /\ ~IsStep(n)
        BY <1>1, <2>1 DEF Processed, AfterParse, IsStep
      <3> QED BY <1>1, <1>2, <3>1, PaidAdvances
    <2>2. CASE traceTopic[n] # NoStep
      <3>1. Processed' = tracePosition
        BY <1>1, <2>2 DEF Processed, AfterParse
      <3> QED BY <1>1, <1>2, <3>1
    <2> QED BY <2>1, <2>2
  <1>4. writerPc' \in {"case", "step"} => tracePosition' # 0 /\ traceTopic[tracePosition'] # NoStep
    BY <1>1 DEF AfterParse
  <1>5. /\ tracePosition' \in 0..Len(traceTopic)
        /\ writerFaults' \in Nat /\ writerFaults <= writerFaults'
    BY <1>1 DEF WriterTypes
  <1> QED BY <1>1, <1>3, <1>4, <1>5, StandingKeeps

\* The step gets its row before its offset is committed.
LEMMA InsertKeeps ==
    ASSUME WriterInv, InsertStep
    PROVE  WriterInv'
  <1> DEFINE n == tracePosition
             r == traceTopic[n]
  <1>1. /\ WriterTypes /\ Len(traceTopic) \in Nat /\ n \in 1..Len(traceTopic)
        /\ writerPc = "step" /\ pgUp /\ r \in RowIds /\ Paid(n - 1)
    BY DEF InsertStep, WriterInv, WriterTypes, Processed
  <1>2. /\ stepRows' = Upsert(r, n) /\ traceIssued' = n /\ writerPc' = "receive"
        /\ UNCHANGED <<traceTopic, traceCommitted, tracePosition, base, pgUp, writerFaults>>
    BY DEF InsertStep, writerBounds
  <1>3. /\ stepRows' \in [RowIds -> Nat \cup {NoRow}] /\ stepRows'[r] # NoRow
        /\ \A q \in RowIds : stepRows[q] # NoRow => stepRows'[q] # NoRow
    <2>1. NoRow \notin Nat /\ n \in Nat /\ stepRows \in [RowIds -> Nat \cup {NoRow}]
      BY <1>1, WriterConstants DEF WriterTypes
    <2> QED BY <1>1, <1>2, <2>1 DEF Upsert
  <1>4. WriterTypes'
    BY <1>1, <1>2, <1>3 DEF WriterTypes, Offset
  <1>5. ASSUME NEW x, Paid(x) PROVE Paid(x)'
    <2>1. writerFaults <= writerFaults' /\ Len(traceTopic) <= Len(traceTopic')
      BY <1>1, <1>2 DEF WriterTypes
    <2> QED BY <1>1, <1>2, <1>3, <1>4, <1>5, <2>1, PaidStays
  <1>6. Paid(n)'
    <2>1. PICK x : x = n - 1
      OBVIOUS
    <2>2. Paid(x)' /\ x + 1 = n
      BY <1>1, <1>5, <2>1
    <2>3. HasRow(x + 1)'
      BY <1>1, <1>2, <1>3, <2>2 DEF HasRow, IsStep, WriterInv
    <2>4. (x + 1 \in 1..Len(traceTopic))'
      BY <1>1, <1>2, <2>2
    <2>5. Missing(n)' = Missing(x)'
      <3>1. /\ base' \in Nat /\ x \in Nat /\ n' = x + 1 /\ HasRow(n)'
        BY <1>1, <1>2, <1>4, <2>1, <2>2, <2>3 DEF WriterTypes
      <3>2. \A m : m \in (base' + 1)..(x + 1) <=> m \in (base' + 1)..x \/ (m = x + 1 /\ base' <= x)
        BY <3>1
      <3> QED BY <2>3, <3>1, <3>2 DEF Missing
    <2> QED BY <1>2, <2>2, <2>4, <2>5 DEF Paid
  <1>7. Processed' = n
    BY <1>2 DEF Processed
  <1> QED BY <1>2, <1>4, <1>5, <1>6, <1>7 DEF WriterInv

\* A step whose insert the page's row refuses has that row.
LEMMA RefusedKeeps ==
    ASSUME WriterInv, InsertRefused
    PROVE  WriterInv'
  <1> DEFINE n == tracePosition
  <1>1. /\ WriterTypes /\ Len(traceTopic) \in Nat /\ n \in 1..Len(traceTopic)
        /\ writerPc = "step" /\ writerPc' = "receive" /\ pgUp /\ Paid(n - 1)
        /\ traceTopic[n] # NoStep /\ stepRows[traceTopic[n]] # NoRow
        /\ UNCHANGED <<traceTopic, traceCommitted, traceIssued, tracePosition, base, pgUp, stepRows,
                       writerFaults>>
    BY WriterConstants
    DEF InsertRefused, WriterInv, WriterTypes, Processed, PageRow, offsets, storage, writerBounds
  <1>2. HasRow(n)
    BY <1>1 DEF HasRow, IsStep
  <1>3. Paid(n)
    <2>1. PICK x : x = n - 1
      OBVIOUS
    <2>2. x \in Nat /\ x + 1 = n /\ Paid(x) /\ base \in Nat
      BY <1>1, <2>1 DEF WriterTypes
    <2>3. \A m : m \in (base + 1)..(x + 1) <=> m \in (base + 1)..x \/ (m = x + 1 /\ base <= x)
      BY <2>2
    <2>4. Missing(n) = Missing(x)
      BY <1>2, <2>2, <2>3 DEF Missing
    <2> QED BY <1>1, <2>2, <2>4 DEF Paid
  <1>4. pgUp' => Paid(Processed')
    BY <1>1, <1>3 DEF Processed
  <1>5. /\ tracePosition' \in 0..Len(traceTopic)
        /\ writerFaults' \in Nat /\ writerFaults <= writerFaults'
    BY <1>1 DEF WriterTypes
  <1> QED BY <1>1, <1>4, <1>5, StandingKeeps

\* The page's rows only add to the writer's.
LEMMA PageStoresKeeps ==
    ASSUME WriterInv, NEW r \in RowIds, PageStores(r)
    PROVE  WriterInv'
  <1>1. /\ WriterTypes /\ Len(traceTopic) \in Nat
        /\ stepRows' = [stepRows EXCEPT ![r] = 0]
        /\ UNCHANGED <<traceTopic, traceCommitted, traceIssued, tracePosition, base, writerPc, pgUp,
                       writerFaults>>
    BY DEF PageStores, WriterInv, WriterTypes, PageRow, offsets, writerBounds
  <1>2. /\ stepRows' \in [RowIds -> Nat \cup {NoRow}]
        /\ \A q \in RowIds : stepRows[q] # NoRow => stepRows'[q] # NoRow
    <2>1. NoRow \notin Nat /\ stepRows \in [RowIds -> Nat \cup {NoRow}]
      BY <1>1, WriterConstants DEF WriterTypes
    <2> QED BY <1>1, <2>1
  <1>3. WriterTypes'
    BY <1>1, <1>2 DEF WriterTypes
  <1>4. ASSUME NEW x, Paid(x) PROVE Paid(x)'
    <2>1. writerFaults <= writerFaults' /\ Len(traceTopic) <= Len(traceTopic')
      BY <1>1 DEF WriterTypes
    <2> QED BY <1>1, <1>2, <1>3, <1>4, <2>1, PaidStays
  <1>5. Processed' = Processed
    BY <1>1 DEF Processed
  <1> QED BY <1>1, <1>3, <1>4, <1>5 DEF WriterInv

\* A failed statement pays for its own step, unless the connection is down and nothing of
\* what follows can be committed.
LEMMA InsertFailsKeeps ==
    ASSUME WriterInv, InsertFails
    PROVE  WriterInv'
  <1> DEFINE n == tracePosition
  <1>1. /\ WriterTypes /\ Len(traceTopic) \in Nat /\ n \in 1..Len(traceTopic)
        /\ writerPc \in {"case", "step"} /\ writerPc' = "receive" /\ writerFaults \in Nat
        /\ UNCHANGED <<traceTopic, traceCommitted, traceIssued, tracePosition, base, pgUp, stepRows>>
    BY DEF InsertFails, WriterInv, WriterTypes, offsets, storage
  <1>2. CASE pgUp
    <2>1. writerFaults' = writerFaults + 1
      BY <1>2 DEF InsertFails
    <2>2. Paid(n - 1)
      BY <1>1, <1>2 DEF WriterInv, Processed
    <2>3. Cardinality(Missing(n)) <= writerFaults + 1
      <3>1. PICK x : x = n - 1
        OBVIOUS
      <3>2. x + 1 = n
        BY <1>1, <3>1
      <3> QED BY <1>1, <2>2, <3>1, <3>2, PaidAdvances
    <2>4. Missing(n)' = Missing(n)
      BY <1>1 DEF Missing, IsStep, HasRow
    <2>5. Paid(n)'
      BY <1>1, <2>1, <2>3, <2>4 DEF Paid
    <2>6. WriterTypes'
      BY <1>1, <2>1 DEF WriterTypes
    <2>7. ASSUME NEW x, Paid(x) PROVE Paid(x)'
      BY <1>1, <2>1, <2>6, <2>7, PaidStaysPut
    <2>8. Processed' = n
      BY <1>1 DEF Processed
    <2> QED BY <1>1, <2>5, <2>6, <2>7, <2>8 DEF WriterInv
  <1>3. CASE ~pgUp
    <2>1. writerFaults' = writerFaults
      BY <1>3 DEF InsertFails
    <2> QED BY <1>1, <1>3, <2>1, StandingKeeps
  <1> QED BY <1>2, <1>3

\* Every step of the writer keeps its invariant.
LEMMA WriterStep == WriterInv /\ [WriterNext]_writerVars => WriterInv'
  <1> SUFFICES ASSUME WriterInv, [WriterNext]_writerVars PROVE WriterInv'
    OBVIOUS
  <1>1. /\ WriterTypes /\ tracePosition \in 0..Len(traceTopic) /\ writerFaults \in Nat
        /\ writerPc \in {"case", "step"} =>
              tracePosition # 0 /\ traceTopic[tracePosition] # NoStep
    BY DEF WriterInv, WriterTypes
  <1>2. CASE OffsetArrives
    <2>1. /\ traceCommitted' = traceIssued
          /\ UNCHANGED <<traceTopic, traceIssued, tracePosition, base, writerPc, pgUp, stepRows,
                         writerFaults>>
      BY <1>2 DEF OffsetArrives, storage, writerBounds
    <2>2. pgUp' => Paid(Processed')
      BY <2>1 DEF WriterInv, Processed
    <2> QED BY <1>1, <2>1, <2>2, StandingKeeps
  <1>3. CASE LosePostgres
    <2>1. /\ ~pgUp' /\ writerFaults' = writerFaults + 1
          /\ UNCHANGED <<traceTopic, traceCommitted, traceIssued, tracePosition, base, writerPc,
                         stepRows>>
      BY <1>3 DEF LosePostgres, offsets
    <2> QED BY <1>1, <2>1, StandingKeeps
  <1>4. CASE UpsertCase
    <2>1. /\ writerPc = "case" /\ writerPc' = "step"
          /\ UNCHANGED <<traceTopic, traceCommitted, traceIssued, tracePosition, base, pgUp, stepRows,
                         writerFaults>>
      BY <1>4 DEF UpsertCase, offsets, storage, writerBounds
    <2>2. pgUp' => Paid(Processed')
      BY <2>1 DEF WriterInv, Processed
    <2> QED BY <1>1, <2>1, <2>2, StandingKeeps
  <1>5. CASE StopWriter
    <2>1. /\ ~pgUp' /\ writerPc' = "down"
          /\ UNCHANGED <<traceTopic, traceCommitted, traceIssued, tracePosition, base, stepRows,
                         writerFaults>>
      BY <1>5 DEF StopWriter, offsets
    <2> QED BY <1>1, <2>1, StandingKeeps
  <1>6. CASE UNCHANGED writerVars
    <2>1. UNCHANGED <<traceTopic, traceCommitted, traceIssued, tracePosition, base, writerPc, pgUp,
                      stepRows, writerFaults>>
      BY <1>6 DEF writerVars
    <2>2. pgUp' => Paid(Processed')
      BY <2>1 DEF WriterInv, Processed
    <2> QED BY <1>1, <2>1, <2>2, StandingKeeps
  <1> QED
    BY <1>2, <1>3, <1>4, <1>5, <1>6, PublishKeeps, StartKeeps, ReceiveKeeps, InsertKeeps,
       InsertFailsKeeps, RefusedKeeps, PageStoresKeeps DEF WriterNext, WriterWork

\* Whatever fails and however often the writer is stopped, the group leaves no more steps
\* without a row behind than statements failed (run_trace_writer).
THEOREM SkipsAreBounded == Spec => []SkipsBoundedByFaults
  <1>1. WriterInv => SkipsBoundedByFaults
    <2> SUFFICES ASSUME WriterInv PROVE SkipsBoundedByFaults
      OBVIOUS
    <2>1. CASE traceCommitted = NoOffset
      <3>1. Cardinality(Skipped) = 0
        BY <2>1, FS_EmptySet DEF Skipped
      <3> QED BY <3>1 DEF SkipsBoundedByFaults, WriterInv, WriterTypes
    <2>2. CASE traceCommitted # NoOffset
      <3>1. Skipped = Missing(traceCommitted)
        BY <2>2 DEF Skipped, Missing
      <3> QED BY <2>2, <3>1 DEF WriterInv, Paid, SkipsBoundedByFaults
    <2> QED BY <2>1, <2>2
  <1>2. Init => WriterInv
    BY WriterStarts DEF Init
  <1>3. WriterInv /\ [Next]_writersVars => WriterInv'
    BY WriterStep, StepsOfAProcess
  <1> QED BY <1>1, <1>2, <1>3, PTL DEF Spec

-----------------------------------------------------------------------------
\* The detection poller.

\* The key of what was sent is in the set, so nothing is sent twice.
AttemptsInv ==
    /\ attempts \in Seq(sentKeys)
    /\ IsInjective(attempts)

\* One process sends at most one alert for a detection and an event (SeenAlerts).
THEOREM AlertsAreSentOnce == Spec => []AtMostOncePerProcess
  <1>1. AttemptsInv => AtMostOncePerProcess
    BY DEF AttemptsInv, AtMostOncePerProcess
  <1>2. Init => AttemptsInv
    BY DEF Init, PollerInit, AttemptsInv, IsInjective
  <1>3. AttemptsInv /\ [PollerNext]_pollerVars => AttemptsInv'
    <2> SUFFICES ASSUME AttemptsInv, [PollerNext]_pollerVars PROVE AttemptsInv'
      OBVIOUS
    <2>1. CASE StartPoller
      BY <2>1 DEF StartPoller, AttemptsInv, IsInjective
    <2>2. CASE UNCHANGED <<sentKeys, attempts>>
      BY <2>2 DEF AttemptsInv, IsInjective
    <2>3. ASSUME NEW k, k \notin sentKeys, sentKeys' = sentKeys \cup {k},
                 attempts' = Append(attempts, k)
          PROVE  AttemptsInv'
      <3>1. attempts \in Seq(sentKeys') /\ attempts' \in Seq(sentKeys')
        BY <2>3 DEF AttemptsInv
      <3>2. /\ Len(attempts) \in Nat /\ DOMAIN attempts = 1..Len(attempts)
            /\ DOMAIN attempts' = 1..(Len(attempts) + 1)
            /\ attempts'[Len(attempts) + 1] = k
            /\ \A i \in 1..Len(attempts) : attempts'[i] = attempts[i] /\ attempts[i] # k
        BY <2>3, <3>1 DEF AttemptsInv
      <3>3. ASSUME NEW i \in DOMAIN attempts', NEW j \in DOMAIN attempts', attempts'[i] = attempts'[j]
            PROVE  i = j
        BY <3>2, <3>3 DEF AttemptsInv, IsInjective
      <3> QED BY <3>1, <3>3 DEF AttemptsInv, IsInjective
    <2>4. CASE NextRow
      <3>1. CASE UNCHANGED <<sentKeys, attempts>>
        BY <2>2, <3>1
      <3>2. CASE ~UNCHANGED <<sentKeys, attempts>>
        BY <2>3, <2>4, <3>2 DEF NextRow, IsSeen, dedup_key, tried
      <3> QED BY <3>1, <3>2
    <2> QED
      BY <2>1, <2>2, <2>4
         DEF PollerNext, CreateSchema, LoseRisingWave, Fire, WaitForSchema, Deploy, DeployFails,
             NextDeploy, Poll, PollTick, Query, QueryFails, SendOk, SendFails, Sent, StopPoller,
             tried, pollerVars
  <1>4. AttemptsInv /\ [Next]_writersVars => AttemptsInv'
    BY <1>3, StepsOfAProcess
  <1> QED BY <1>1, <1>2, <1>4, PTL DEF Spec
=============================================================================
