----------------------------- MODULE Selection -----------------------------
(***************************************************************************)
(* The items of a sequence at some of its positions, in their order: what  *)
(* Array.prototype.filter of TypeScript and Iterator::filter of Rust give. *)
(* It is written without recursion, so that it can be reasoned about.      *)
(***************************************************************************)
EXTENDS Naturals, Sequences, FiniteSets

\* The k-th position in S.
Place(S, k) == CHOOSE i \in S : Cardinality({j \in S : j <= i}) = k

Pick(s, S) == [k \in 1..Cardinality(S) |-> s[Place(S, k)]]
=============================================================================
