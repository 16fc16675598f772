--------------------------- MODULE AppendOnlyLog ---------------------------
(***************************************************************************)
(* What the attestation log promises to the rest of the system: a sequence *)
(* of rows, each pointing at the hash of the row before it, that only ever *)
(* grows at its end, one row at a time.                                    *)
(***************************************************************************)
EXTENDS Naturals, Sequences

CONSTANT Calls          \* hashes an appended row may have

VARIABLE rows           \* the log as readers see it

Genesis == 0

TipHash == IF rows = <<>> THEN Genesis ELSE rows[Len(rows)].call

Init == rows = <<>>

AppendRow(row) ==
    /\ row.prev = TipHash
    /\ \A i \in 1..Len(rows) : rows[i].call # row.call
    /\ rows' = Append(rows, row)

\* The row is the one that is new in the log.
Next ==
    /\ Len(rows') = Len(rows) + 1
    /\ AppendRow(rows'[Len(rows) + 1])

Spec == Init /\ [][Next]_rows
=============================================================================
