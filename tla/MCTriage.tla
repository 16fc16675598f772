------------------------------ MODULE MCTriage ------------------------------
(***************************************************************************)
(* Instances of Triage for TLC: alerts that reach every route.             *)
(***************************************************************************)
EXTENDS Triage

MCNames == {"alice", "Alice", "root", "Root"}

MCLower == [s \in MCNames |-> IF s \in {"alice", "Alice"} THEN "alice" ELSE "root"]

\* Requests 1 and 2 are about one case, request 3 about another; the override
\* requests are numbered from 4.
MCCaseOf == [r \in Requests |-> IF r = 3 THEN 2 ELSE 1]

Alert(tenant, principal, class, raw, novelty) ==
    [tenant |-> tenant, principal |-> principal, class |-> class, raw |-> raw,
     novelty |-> novelty]

\* Request 1 has a familiar alert, a novel one the shadow check may close, a novel
\* one about a protected principal in another spelling or a novel one of a class
\* that is never closed; the other requests have one the shadow check may close.
MCAlerts ==
    [r \in Triages |->
        IF r = 1
        THEN { Alert("t1", "Alice", "login", 40, 10), Alert("t1", "Alice", "login", 95, 80),
               Alert("t1", "Root", "login", 95, 80), Alert("t1", "Alice", "delete", 95, 80) }
        ELSE { Alert("t2", "alice", "login", 95, 80) }]
=============================================================================
