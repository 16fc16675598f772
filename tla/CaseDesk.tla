------------------------------ MODULE CaseDesk ------------------------------
(***************************************************************************)
(* The triage of one case as its route meets it: from the page of one tab, *)
(* with its store and its effects (CasePage), or from any tabs and scripts *)
(* at once, which post when they like (CaseTriage alone).  A behaviour is  *)
(* of one of the two kinds.                                                *)
(***************************************************************************)
EXTENDS CasePage

VARIABLE callers    \* who posts: "page" or "anyone"

deskVars == <<pageVars, callers>>

DeskInit == PageInit /\ callers \in {"page", "anyone"}

DeskNext ==
    \/ callers = "page" /\ PageNext /\ UNCHANGED callers
    \/ callers = "anyone" /\ Next /\ UNCHANGED <<tab, callers>>

\* React runs the effects and answers are handled; statements return, and the
\* orchestrator answers or closes the connection.
DeskFairness ==
    /\ WF_pageVars(callers = "page" /\ Effects)
    /\ WF_pageVars(callers = "page" /\ ~due /\ Answers)
    /\ \A r \in Requests : WF_vars(~due /\ Handle(r))

DeskSpec == DeskInit /\ [][DeskNext]_deskVars /\ DeskFairness
=============================================================================
