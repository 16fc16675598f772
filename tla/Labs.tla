------------------------------- MODULE Labs --------------------------------
(***************************************************************************)
(* The workbench's pages that ask a server again and again: the simulation *)
(* lab, which polls the sinks of a run and sends batches, and the trace of *)
(* a case, which is read, stored and read back around the live steps, with *)
(* the rows of its timeline; and the clocks that pages show.  They keep    *)
(* their state apart, so a behaviour of this module stays with one of      *)
(* them.                                                                   *)
(***************************************************************************)
EXTENDS SimulateLab, BatchRuns, TraceView, TraceRows, Clocks

VARIABLE visited    \* the part of the pages that moves

labsVars == <<simVars, batchVars, viewVars, rowVars, clockVars, visited>>

\* A part that is not visited starts in one way only.
Init ==
    /\ SimInit /\ BatchInit /\ ViewInit /\ RowsInit /\ ClockInit
    /\ visited \in {"simulate", "batch", "case", "timeline", "clock"}
    /\ visited = "case" \/ reader = "workbench"
    /\ visited = "timeline" \/ path = "llm"
    /\ visited = "clock" \/ (time = 0 /\ storing)

Next ==
    \/ /\ visited = "simulate" /\ SimNext
       /\ UNCHANGED <<batchVars, viewVars, rowVars, clockVars, visited>>
    \/ /\ visited = "batch" /\ BatchNext
       /\ UNCHANGED <<simVars, viewVars, rowVars, clockVars, visited>>
    \/ /\ visited = "case" /\ ViewNext
       /\ UNCHANGED <<simVars, batchVars, rowVars, clockVars, visited>>
    \/ /\ visited = "timeline" /\ RowsNext
       /\ UNCHANGED <<simVars, batchVars, viewVars, clockVars, visited>>
    \/ /\ visited = "clock" /\ ClockNext
       /\ UNCHANGED <<simVars, batchVars, viewVars, rowVars, visited>>

\* Requests are answered, intervals tick and time passes; a sink need never get an event.
Fairness ==
    /\ WF_simVars(visited = "simulate" /\ PollTimeout)
    /\ \A s \in Sims : WF_simVars(visited = "simulate" /\ SimSteps(s))
    /\ WF_viewVars(visited = "case" /\ ViewRequests)

Spec == Init /\ [][Next]_labsVars /\ Fairness
=============================================================================
