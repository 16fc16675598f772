------------------------------ MODULE Writers ------------------------------
(***************************************************************************)
(* The three background processes that copy a stream into a store: the     *)
(* warm writer, the durable trace writer and the detection poller.  They   *)
(* read different topics, keep different groups and share no state, so a   *)
(* behaviour of all three is an interleaving of one of each and every      *)
(* property below is about one of them.  A behaviour of this module runs   *)
(* one: their state spaces add instead of multiplying.                     *)
(***************************************************************************)
EXTENDS IcebergConsumer, TraceWriter, DetectionPoller

VARIABLE process    \* the process that runs: "warm", "trace", "detection"

writersVars == <<warmVars, writerVars, pollerVars, process>>

Init ==
    /\ WarmInit /\ WriterInit /\ PollerInit
    /\ process \in {"warm", "trace", "detection"}

Next ==
    \/ process = "warm" /\ WarmNext /\ UNCHANGED <<writerVars, pollerVars, process>>
    \/ process = "trace" /\ WriterNext /\ UNCHANGED <<warmVars, pollerVars, process>>
    \/ process = "detection" /\ PollerNext /\ UNCHANGED <<warmVars, writerVars, process>>

\* The tasks of a running process are scheduled, its timers fire and the calls it
\* awaits return or time out; a supervisor, or spawn_trace_writer after 5 s,
\* starts it again.  Nothing makes it stop or fail.
Fairness ==
    /\ WF_warmVars(process = "warm" /\ Start)
    /\ WF_warmVars(process = "warm" /\ Recv)
    /\ WF_warmVars(process = "warm" /\ Tick)
    /\ WF_warmVars(process = "warm" /\ Flush)
    /\ WF_writerVars(process = "trace" /\ StartWriter)
    /\ WF_writerVars(process = "trace" /\ WriterWork)
    /\ WF_pollerVars(process = "detection" /\ StartPoller)
    /\ WF_pollerVars(process = "detection" /\ WaitForSchema)
    /\ WF_pollerVars(process = "detection" /\ (Deploy \/ DeployFails))
    /\ WF_pollerVars(process = "detection" /\ Poll)

Spec == Init /\ [][Next]_writersVars /\ Fairness
=============================================================================
