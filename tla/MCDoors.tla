------------------------------ MODULE MCDoors ------------------------------
(***************************************************************************)
(* Doors for TLC.                                                          *)
(***************************************************************************)
EXTENDS Doors, TLC

\* The calls are interchangeable.
CallSymmetry == Permutations(Calls)

Call(role, tool, stacked, limit) ==
    [role |-> role, tool |-> tool, confidence |-> 90, stacked |-> stacked, limit |-> limit,
     sql_limit |-> 0]

\* A warm query, a stacked one, ones over the cap in the arguments and in the SQL, a tool of
\* another role, a stub and an unregistered tool the policy allows.
MCRequests ==
    { Call("investigator", "query_warm_tier", FALSE, 0),
      Call("investigator", "query_warm_tier", TRUE, 10),
      Call("triager", "query_warm_tier", FALSE, 20000),
      [Call("triager", "query_hot_tier", FALSE, 0) EXCEPT !.sql_limit = 20000],
      Call("triager", "firewall_block_ioc", FALSE, 0),
      Call("responder", "firewall_block_ioc", FALSE, 0),
      Call("investigator", "propose_escalation", FALSE, 0) }
=============================================================================
