--------------------------- MODULE EnvelopeChain ---------------------------
(***************************************************************************)
(* The pure algorithms of crates/attest-attestation over hash-chained      *)
(* envelopes: the reconstruction of append order from an object-store      *)
(* listing (log.rs, order_by_chain) and the offline verification of a log  *)
(* (verify.rs, verify_log).                                                *)
(*                                                                         *)
(* Data abstraction.  An envelope keeps what those algorithms compare:     *)
(*   call   the sign_and_append call that signed it; SHA-256 over the      *)
(*          canonical bytes and the signature is injective, so the call    *)
(*          stands for the chain hash;                                     *)
(*   id     agent_action_id, the id part of the object key;                *)
(*   prev   prev_hash;                                                     *)
(*   key    the signing key, so "the signature verifies" is "key = vk".    *)
(***************************************************************************)
EXTENDS Naturals, Sequences, FiniteSets, SequencesExt

\* GENESIS_HASH: the hash the first row points at.
GENESIS == 0

Envelope == [call : Nat \ {GENESIS}, id : Nat, prev : Nat, key : Nat]

\* AttestationEnvelope::chain_hash.
chain_hash(env) == env.call

-----------------------------------------------------------------------------
(***************************************************************************)
(* order_by_chain.  The argument is the set of stored objects, records     *)
(* [seq, env]; read_objects hands them over in key order, the zero-padded  *)
(* sequence number first and the action id second.                         *)
(***************************************************************************)
KeyBefore(o, q) ==
    \/ o.seq < q.seq
    \/ o.seq = q.seq /\ o.env.id < q.env.id

\* What is left in the by_prev map after the loop: a later row with the same
\* prev_hash replaces the earlier one.
ByPrev(objs) ==
    { o \in objs : \A q \in objs : q.env.prev = o.env.prev => ~KeyBefore(o, q) }

\* The rows pushed to `extra`: those whose insert found the prev_hash taken.
Extra(objs) ==
    { o \in objs : \E q \in objs : q.env.prev = o.env.prev /\ KeyBefore(q, o) }

\* The hash a walk has reached.
Cursor(w) == IF w = <<>> THEN GENESIS ELSE chain_hash(w[Len(w)].env)

\* The while loop: start at genesis, follow prev_hash until no row of the map
\* points at the cursor.
IsWalk(map, w) ==
    /\ \A i \in 1..Len(w) :
          w[i].env.prev = (IF i = 1 THEN GENESIS ELSE chain_hash(w[i - 1].env))
    /\ \A o \in map : o.env.prev # Cursor(w)

Walks(map) ==
    { w \in UNION { [1..n -> map] : n \in 0..Cardinality(map) } : IsWalk(map, w) }

Envelopes(os) == [i \in 1..Len(os) |-> os[i].env]

\* Rows of the map the walk did not reach, returned in HashMap order.
Unreached(map) == { o \in map : \A w \in Walks(map) : \A i \in DOMAIN w : w[i] # o }

InKeyOrder(objs) ==
    { s \in SetToSeqs(objs) : \A i, j \in DOMAIN s : i < j => KeyBefore(s[i], s[j]) }

\* Every sequence order_by_chain may return: the walk, the unreached rows in any
\* order, and the extra rows in key order.
order_by_chain(objs) ==
    IF Cardinality(objs) <= 1
    THEN { Envelopes(s) : s \in SetToSeqs(objs) }
    ELSE { Envelopes(w \o rest \o extra) :
             w \in Walks(ByPrev(objs)),
             rest \in SetToSeqs(Unreached(ByPrev(objs))),
             extra \in InKeyOrder(Extra(objs)) }

-----------------------------------------------------------------------------
(***************************************************************************)
(* verify_log.  Every row of this system is signed with a prev_hash, so    *)
(* `chained` holds of every non-empty log.                                 *)
(***************************************************************************)
IsDuplicate(log, i) == \E j \in 1..(i - 1) : log[j].id = log[i].id

\* expected_prev when the loop reaches row i: the hash of the last row that was
\* not skipped as a duplicate.
ExpectedPrev(log, i) ==
    LET kept == { j \in 1..(i - 1) : ~IsDuplicate(log, j) }
    IN  IF kept = {} THEN GENESIS
        ELSE chain_hash(log[CHOOSE j \in kept : \A k \in kept : k <= j])

RowOk(log, vk, i) ==
    /\ ~IsDuplicate(log, i)
    /\ log[i].key = vk
    /\ log[i].prev = ExpectedPrev(log, i)

\* VerifyReport::all_ok.
verify_log(log, vk) == \A i \in 1..Len(log) : RowOk(log, vk, i)
=============================================================================
