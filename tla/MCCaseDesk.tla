----------------------------- MODULE MCCaseDesk -----------------------------
(***************************************************************************)
(* CaseDesk for TLC: requests are model values, the rest are bounds.       *)
(***************************************************************************)
EXTENDS CaseDesk
=============================================================================
