---------------------------- MODULE MCLivePages ----------------------------
(***************************************************************************)
(* LivePages for TLC: a case with two mounts of its trace and steps of two *)
(* tenants, three firings of two detections, three addresses.              *)
(***************************************************************************)
EXTENDS LivePages, TLC

CONSTANTS s1, s2

Of(case, tenant) == [case |-> case, tenant |-> tenant]

MCMessages == {Of("c1", "t1"), Of("c1", "t2")}
MCPath == (s1 :> "c1") @@ (s2 :> "c1")
MCClaims == (s1 :> Of("c1", "t1")) @@ (s2 :> Of("c1", "t1"))

Firing(d, e) == [detection |-> d, event |-> e]

MCFirings == <<Firing("d1", "e1"), Firing("d1", "e2"), Firing("d2", "e1")>>
MCSeverity == [d1 |-> 1, d2 |-> 0]
=============================================================================
