----------------------------- MODULE LivePages -----------------------------
(***************************************************************************)
(* The workbench's pages that follow a server as it works (the trace of a  *)
(* case, the alert queue and the load lab, each with a WebSocket hook of   *)
(* its own).  They keep their state apart and every property is about one  *)
(* of them, so a behaviour of this module stays on one.                    *)
(***************************************************************************)
EXTENDS CaseTrace, AlertFeed, LoadLab

VARIABLE shown      \* the page the tab shows

livePagesVars == <<traceVars, alertVars, loadVars, shown>>

Init ==
    /\ TraceInit /\ AlertInit /\ LoadInit
    /\ shown \in {"trace", "alerts", "load"}

Next ==
    \/ /\ shown = "trace" /\ TraceNext
       /\ UNCHANGED <<alertVars, loadVars, shown>>
    \/ /\ shown = "alerts" /\ AlertNext
       /\ UNCHANGED <<traceVars, loadVars, shown>>
    \/ /\ shown = "load" /\ LoadNext
       /\ UNCHANGED <<traceVars, alertVars, shown>>

\* The brokers and the servers work and are restarted, requests are answered or time
\* out, timers fire and messages are handled.  A connection that is attempted again and
\* again while the control plane comes and goes is made at last.  Nobody is obliged to
\* open or leave a page, to click or to ask.
Fairness ==
    /\ WF_traceVars(shown = "trace" /\ GatewaySteps)
    /\ WF_traceVars(shown = "trace" /\ HookSteps)
    /\ \A s \in Sockets : WF_traceVars(shown = "trace" /\ OnMessage(s))
    /\ WF_alertVars(shown = "alerts" /\ CpReady)
    /\ WF_alertVars(shown = "alerts" /\ PollAlerts)
    /\ WF_alertVars(shown = "alerts" /\ AlertLink)
    /\ WF_alertVars(shown = "alerts" /\ OnAlert)
    /\ WF_loadVars(shown = "load" /\ LoadSteps)
    /\ WF_loadVars(shown = "load" /\ LabSocketSteps)
    /\ WF_loadVars(shown = "load" /\ SampleOnce)
    /\ WF_loadVars(shown = "load" /\ OnMetrics)
    /\ WF_loadVars(shown = "load" /\ RunEnds)

Spec == Init /\ [][Next]_livePagesVars /\ Fairness
=============================================================================
