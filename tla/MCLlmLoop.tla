----------------------------- MODULE MCLlmLoop -----------------------------
(***************************************************************************)
(* A session on its own, for TLC.                                          *)
(***************************************************************************)
EXTENDS LlmLoop
=============================================================================
