------------------------------- MODULE MCLabs -------------------------------
(***************************************************************************)
(* Labs for TLC: two simulations and one check that looks for the event; a *)
(* batch of three requests; a case whose investigation calls the same tool *)
(* twice; a timeline of three steps, two of which cite the same event; and *)
(* clocks over a day of few hours.                                         *)
(***************************************************************************)
EXTENDS Labs

MCScenarios == <<"s3_exfil", "mfa_bypass">>
MCKinds == <<"tool_call", "tool_call">>
MCSummaries == <<"query_hot_tier", "query_hot_tier">>
MCCites == <<<<1>>, <<2, 1>>, <<3>>>>
=============================================================================
