------------------------------ MODULE LoadLab ------------------------------
(***************************************************************************)
(* apps/workbench: the Load Lab page (load/page.tsx), its store            *)
(* (load-store.ts) and routes (api/load), the load generator they drive    *)
(* (tools/load-gen/src/control.rs) and the metrics stream of the control   *)
(* plane, whose sampler asks the generator for its status once a second.   *)
(*                                                                         *)
(* The store outlives the page.  A snapshot is its active_load_gen flag,   *)
(* and the history of snapshots its length.  The generator's run is named  *)
(* by who started it: this tab or another client.                          *)
(***************************************************************************)
EXTENDS Naturals

CONSTANTS
    HistoryMax,     \* HISTORY_MAX of the ring buffer
    MinTicks,       \* snapshots before an inactive one completes a run
    MaxRuns,        \* bound: starts from this tab
    MaxLoadFaults   \* bound: requests, samples and sockets that fail

ASSUME LoadConstants ==
    /\ HistoryMax \in Nat /\ MinTicks \in Nat /\ MinTicks < HistoryMax
    /\ MaxRuns \in Nat /\ MaxLoadFaults \in Nat

LoadStatus == {"idle", "starting", "running", "stopping", "completed", "error"}

VARIABLES
    status,         \* LoadStatus of the store
    ticks,          \* length of history
    generator,      \* "none", "tab", "other": whose run is active; "ended": a past run's handle
    request,        \* "none", "start", "starting", "stop", "accepted", "refused", "stopped"
    sample,         \* "none", "active", "inactive": a snapshot on its way
    labMounted,     \* is the page shown?
    labSocket,      \* "none", "connecting", "open", "closing": wsRef
    labTimer,       \* is reconnectTimerRef pending?
    runs, loadFaults

loadVars == <<status, ticks, generator, request, sample, labMounted, labSocket, labTimer, runs,
              loadFaults>>

store == <<status, ticks>>
labPage == <<labMounted, labSocket, labTimer>>
loadBounds == <<runs, loadFaults>>

LoadInit ==
    /\ status = "idle" /\ ticks = 0
    /\ generator = "none" /\ request = "none" /\ sample = "none"
    /\ labMounted = FALSE /\ labSocket = "none" /\ labTimer = FALSE
    /\ runs = 0 /\ loadFaults = 0

LoadFault == loadFaults < MaxLoadFaults /\ loadFaults' = loadFaults + 1

Active == generator \in {"tab", "other"}

-----------------------------------------------------------------------------
\* The store's operations.

\* The one button of the header, disabled while a request is pending.
Button == CASE status \in {"starting", "stopping"} -> "disabled"
            [] status = "running" -> "stop"
            [] OTHER -> "run"

\* startRun, up to its request, which carries the configuration.
startRun ==
    /\ labMounted /\ Button = "run" /\ runs < MaxRuns
    /\ status' = "starting" /\ ticks' = 0
    /\ request' = "start"
    /\ runs' = runs + 1
    /\ UNCHANGED <<generator, sample, labPage, loadFaults>>

stopRun ==
    /\ labMounted /\ Button = "stop"
    /\ status' = "stopping"
    /\ request' = "stop"
    /\ UNCHANGED <<ticks, generator, sample, labPage, loadBounds>>

\* The await of startRun or stopRun ends, also when the page is gone.  A refusal is an
\* HTTP status other than 404, the proxy's 502, or a fetch that fails.
Settle ==
    /\ request \in {"accepted", "refused", "stopped"}
    /\ status' = CASE request = "accepted" -> "running"
                   [] request = "stopped"  -> "completed"
                   [] request = "refused"  -> "error"
    /\ request' = "none"
    /\ UNCHANGED <<ticks, generator, sample, labPage, loadBounds>>

\* A run is over when the generator goes inactive after a few snapshots.
Completes(active) == status = "running" /\ ~active /\ ticks > MinTicks

ingestSnapshot(active) ==
    /\ ticks' = IF ticks >= HistoryMax THEN HistoryMax ELSE ticks + 1
    /\ status' = IF Completes(active) THEN "completed" ELSE status

reset ==
    /\ labMounted /\ status \in {"idle", "completed", "error"}
    /\ status' = "idle" /\ ticks' = 0
    /\ UNCHANGED <<generator, request, sample, labPage, loadBounds>>

-----------------------------------------------------------------------------
\* The load generator's handlers behind the routes.

\* run_handler: the run in the state is looked at and the lock is released ...
RunHandler ==
    /\ request = "start"
    /\ request' = IF Active THEN "refused" ELSE "starting"
    /\ UNCHANGED <<store, generator, sample, labPage, loadBounds>>

\* ... start_run connects to the brokers, and the new handle takes the place of the old.
StartHandle ==
    /\ request = "starting"
    /\ \/ generator' = "tab" /\ request' = "accepted" /\ UNCHANGED loadFaults
       \/ LoadFault /\ request' = "refused" /\ UNCHANGED generator
    /\ UNCHANGED <<store, sample, labPage, runs>>

\* stop_handler stops whatever run there is; without one it answers 404, which stopRun
\* takes for the end of the run.
StopHandler ==
    /\ request = "stop"
    /\ generator' = IF Active THEN "ended" ELSE generator
    /\ request' = "stopped"
    /\ UNCHANGED <<store, sample, labPage, loadBounds>>

\* The route's request to the generator fails, before or after it took effect, or the
\* page's to the route.
StartFails ==
    /\ request \in {"start", "accepted"} /\ LoadFault
    /\ request' = "refused"
    /\ UNCHANGED <<store, generator, sample, labPage, runs>>

StopFails ==
    /\ request \in {"stop", "stopped"} /\ LoadFault
    /\ request' = "refused"
    /\ UNCHANGED <<store, generator, sample, labPage, runs>>

\* A run reaches its duration; another client starts one.
RunEnds ==
    /\ Active
    /\ generator' = "ended"
    /\ UNCHANGED <<store, request, sample, labPage, loadBounds>>

OtherStarts ==
    /\ ~Active /\ LoadFault
    /\ generator' = "other"
    /\ UNCHANGED <<store, request, sample, labPage, runs>>

-----------------------------------------------------------------------------
\* The metrics stream.

\* sample_once; a status request that fails counts as inactive.
SampleOnce ==
    /\ labSocket = "open" /\ sample = "none"
    /\ \/ sample' = (IF Active THEN "active" ELSE "inactive") /\ UNCHANGED loadFaults
       \/ Active /\ LoadFault /\ sample' = "inactive"
    /\ UNCHANGED <<store, generator, request, labPage, runs>>

\* ws.onmessage; a socket that is closing hands nothing on.
OnMetrics ==
    /\ labSocket = "open" /\ sample # "none"
    /\ ingestSnapshot(sample = "active")
    /\ sample' = "none"
    /\ UNCHANGED <<generator, request, labPage, loadBounds>>

\* The page is mounted with refs of its own, and connects.
LabMount ==
    /\ ~labMounted /\ labSocket = "none"
    /\ labMounted' = TRUE /\ labSocket' = "connecting"
    /\ UNCHANGED <<store, generator, request, sample, labTimer, loadBounds>>

LabOpen ==
    /\ labSocket = "connecting" /\ labMounted
    /\ labSocket' = "open"
    /\ UNCHANGED <<store, generator, request, sample, labMounted, labTimer, loadBounds>>

\* ws.onerror closes the socket.
LabDrop ==
    /\ labSocket \in {"connecting", "open"} /\ LoadFault
    /\ labSocket' = "closing" /\ sample' = "none"
    /\ UNCHANGED <<store, generator, request, labMounted, labTimer, runs>>

\* Mutant of Reconnects: a closed socket is not opened again.
Reconnects_never == FALSE

Reconnects == labMounted

\* ws.onclose
LabClosed ==
    /\ labSocket = "closing"
    /\ labSocket' = "none"
    /\ labTimer' = Reconnects
    /\ UNCHANGED <<store, generator, request, sample, labMounted, loadBounds>>

\* The back-off is over: connectWs, unless the page is gone or a socket is there.
LabRetry ==
    /\ labTimer
    /\ labTimer' = FALSE
    /\ labSocket' = IF labMounted /\ labSocket = "none" THEN "connecting" ELSE labSocket
    /\ UNCHANGED <<store, generator, request, sample, labMounted, loadBounds>>

\* The effects' cleanups: the timer is cleared and the socket closed.
LabUnmount ==
    /\ labMounted
    /\ labMounted' = FALSE /\ labTimer' = FALSE
    /\ labSocket' = IF labSocket = "none" THEN "none" ELSE "closing"
    /\ sample' = "none"
    /\ UNCHANGED <<store, generator, request, loadBounds>>

\* The right of the page.  The stream goes on without a run, and so do the charts.
LabShows ==
    { x \in {"error", "empty", "charts"} :
        CASE x = "error"  -> status = "error"
          [] x = "empty"  -> ticks = 0 /\ status # "error"
          [] x = "charts" -> ticks > 0 }

LoadSteps == Settle \/ RunHandler \/ StartHandle \/ StopHandler
LabSocketSteps == LabOpen \/ LabClosed \/ LabRetry

LoadNext ==
    \/ startRun \/ stopRun \/ reset \/ LoadSteps \/ StartFails \/ StopFails
    \/ RunEnds \/ OtherStarts \/ SampleOnce \/ OnMetrics \/ LabMount \/ LabSocketSteps \/ LabDrop \/ LabUnmount

-----------------------------------------------------------------------------
\* Properties.

\* A page that stays is connected again, gets snapshots to chart, also without a run, and a
\* lab whose run is on learns that it ended, although snapshots and requests failed on the
\* way or the page was left and reopened.
RunIsSettled ==
    /\ status \in {"starting", "running", "stopping"}
        ~> (status \in {"completed", "error"} \/ ~labMounted)
    /\ "empty" \in LabShows /\ labMounted ~> ("empty" \notin LabShows \/ ~labMounted)
=============================================================================
