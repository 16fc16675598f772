----------------------------- MODULE CaseTrace -----------------------------
(***************************************************************************)
(* apps/workbench: the hook that keeps a case's page connected to the      *)
(* gateway (use-case-trace-ws.ts), the route that issues its tokens, and   *)
(* the steps in the case store.  The sockets are those of WsGateway, which *)
(* the tab opens one after the other.                                      *)
(*                                                                         *)
(* A mount has refs of its own; its timers, requests and sockets go on     *)
(* when it is gone, and the store is the tab's.  A line on its way to a    *)
(* tab that closes the socket is lost like one in the gateway's channel.   *)
(***************************************************************************)
EXTENDS WsGateway

CONSTANTS
    MaxMounts,      \* bound: mounts of the page
    MaxDrops        \* bound: token requests and sockets that fail

ASSUME TraceConstants ==
    MaxMounts \in Nat /\ MaxDrops \in Nat

Mounts == 1..MaxMounts

VARIABLES
    traceSteps,     \* offsets of the case's steps in the store, the last that came first
    tracing,        \* is the page mounted?
    mounts,         \* mounts so far
    tokens,         \* per mount: token requests under way
    timers,         \* per mount: reconnects that are scheduled
    opened,         \* per socket of the tab: the mount that opened it, or 0
    wsRef,          \* per mount: the socket opened last
    closeHeard,     \* sockets whose onclose has run
    drops

hook == <<traceSteps, tracing, mounts, tokens, timers, opened, wsRef, closeHeard, drops>>

traceVars == <<wsVars, hook>>

TraceInit ==
    /\ WsInit
    /\ traceSteps = <<>> /\ tracing = FALSE /\ mounts = 0
    /\ tokens = [v \in Mounts |-> 0] /\ timers = [v \in Mounts |-> 0]
    /\ opened = [s \in Sockets |-> 0] /\ wsRef = [v \in Mounts |-> None]
    /\ closeHeard = {} /\ drops = 0

Drop == drops < MaxDrops /\ drops' = drops + 1

-----------------------------------------------------------------------------
\* The effect of the mount: connect asks for a token.
MountTrace ==
    /\ ~tracing /\ mounts < MaxMounts
    /\ tracing' = TRUE /\ mounts' = mounts + 1
    /\ tokens' = [tokens EXCEPT ![mounts + 1] = 1]
    /\ UNCHANGED <<wsVars, traceSteps, timers, opened, wsRef, closeHeard, drops>>

\* Sockets the tab has not opened yet; they are alike.
Unused == { s \in Sockets : opened[s] = 0 }

\* The token, made for the case and the analyst's tenant, arrives and the socket is opened,
\* also when the page is gone.
TokenArrives(v) ==
    /\ tokens[v] > 0 /\ Unused # {}
    /\ tokens' = [tokens EXCEPT ![v] = @ - 1]
    /\ LET s == CHOOSE t \in Unused : TRUE
       IN opened' = [opened EXCEPT ![s] = v] /\ wsRef' = [wsRef EXCEPT ![v] = s]
    /\ UNCHANGED <<wsVars, traceSteps, tracing, mounts, timers, closeHeard, drops>>

\* No session, a failing route, or no answer.
TokenFails(v) ==
    /\ tokens[v] > 0 /\ Drop
    /\ tokens' = [tokens EXCEPT ![v] = @ - 1]
    /\ timers' = [timers EXCEPT ![v] = @ + 1]
    /\ UNCHANGED <<wsVars, traceSteps, tracing, mounts, opened, wsRef, closeHeard>>

\* The back-off is over: connectRef asks for a token again.
Reconnect(v) ==
    /\ timers[v] > 0
    /\ timers' = [timers EXCEPT ![v] = @ - 1]
    /\ tokens' = [tokens EXCEPT ![v] = @ + 1]
    /\ UNCHANGED <<wsVars, traceSteps, tracing, mounts, opened, wsRef, closeHeard, drops>>

\* The gateway upgrades the request, unless it comes when the token has expired.
TabConnects(s) ==
    /\ opened[s] # 0
    /\ \/ Connect(s, TRUE) /\ UNCHANGED drops
       \/ Connect(s, FALSE) /\ Drop
    /\ UNCHANGED <<traceSteps, tracing, mounts, tokens, timers, opened, wsRef, closeHeard>>

\* ws.onmessage: a notice is passed over, a step the store has is not added again.
appendTraceStep(n) ==
    IF n = Notice \/ n \in ToSet(traceSteps) THEN traceSteps ELSE <<n>> \o traceSteps

OnMessage(s) ==
    /\ Deliver(s)
    /\ traceSteps' = appendTraceStep(Head(chan[s]))
    /\ UNCHANGED <<tracing, mounts, tokens, timers, opened, wsRef, closeHeard, drops>>

\* Mutant of SocketFails: the error schedules a reconnect besides the one of the close.
SocketFails_retries(s) ==
    /\ opened[s] # 0 /\ Close(s) /\ Drop
    /\ timers' = [timers EXCEPT ![opened[s]] = @ + 1]
    /\ UNCHANGED <<traceSteps, tracing, mounts, tokens, opened, wsRef, closeHeard>>

\* The connection is lost; ws.onerror closes the socket.
SocketFails(s) ==
    /\ opened[s] # 0 /\ Close(s) /\ Drop
    /\ UNCHANGED <<traceSteps, tracing, mounts, tokens, timers, opened, wsRef, closeHeard>>

\* ws.onclose, whoever closed the socket and whether the page is there or not.
OnClose(s) ==
    /\ opened[s] # 0 /\ socket[s] \in {"closed", "refused"} /\ s \notin closeHeard
    /\ closeHeard' = closeHeard \cup {s}
    /\ timers' = [timers EXCEPT ![opened[s]] = @ + 1]
    /\ UNCHANGED <<wsVars, traceSteps, tracing, mounts, tokens, opened, wsRef, drops>>

\* The effect's cleanup clears the timer and closes the socket it knows of, if any.
UnmountTrace ==
    /\ tracing
    /\ tracing' = FALSE
    /\ timers' = [timers EXCEPT ![mounts] = IF @ > 0 THEN @ - 1 ELSE 0]
    /\ LET s == wsRef[mounts]
       IN \/ s # None /\ socket[s] = "open" /\ Close(s)
          \/ /\ s # None /\ socket[s] = "new"
             /\ socket' = [socket EXCEPT ![s] = "closed"]
             /\ UNCHANGED <<topic, group, task, chan, dropped>>
          \/ s = None /\ UNCHANGED wsVars
          \/ s # None /\ socket[s] \in {"closed", "refused"} /\ UNCHANGED wsVars
    /\ UNCHANGED <<traceSteps, mounts, tokens, opened, wsRef, closeHeard, drops>>

-----------------------------------------------------------------------------
HookSteps ==
    \/ \E v \in Mounts : Reconnect(v) \/ TokenArrives(v)
    \/ \E s \in Sockets : TabConnects(s) \/ OnClose(s)

GatewaySteps ==
    /\ \/ Rebalance \/ \E s \in Sockets : Consume(s) \/ SendNotice(s)
    /\ UNCHANGED hook

TraceNext ==
    \/ (Publish \/ AutoCommit) /\ UNCHANGED hook
    \/ MountTrace \/ UnmountTrace \/ HookSteps
    \/ \E v \in Mounts : TokenFails(v)
    \/ \E s \in Sockets : OnMessage(s) \/ SocketFails(s)
    \/ GatewaySteps

-----------------------------------------------------------------------------
\* Properties.

Alive(s, v) == opened[s] = v /\ s \notin closeHeard

\* A mount has one connection at most, counting the socket, the token it is waiting for and
\* the reconnect that is scheduled, however the page is left and whatever fails.  (It is
\* also the connection a page that is gone goes on renewing.)
OneConnectionPerMount ==
    \A v \in Mounts :
        tokens[v] + timers[v] + Cardinality({ s \in Sockets : Alive(s, v) }) <= 1

\* The store has each step once, and only steps of the case and the tenant of a token its
\* mounts got, also when the group resumes behind steps that were delivered.
StoreIsOwn ==
    /\ IsInjective(traceSteps)
    /\ \A n \in ToSet(traceSteps) : \E s \in Sockets : topic[n] = Claims[s]

\* A step that waits behind the consumer of the only socket comes to the store or, when the
\* tab is slow, is dropped, with steps of other cases in between.
SoleViewerIsServed ==
    \A n \in 1..MaxMessages :
        (\E s \in Sockets : Waiting(s, n) /\ owner = s /\ SoleViewer(s))
            ~> (\/ n \in ToSet(traceSteps) \cup UNION { dropped[s] : s \in Sockets }
                \/ ~ \E s \in Sockets : socket[s] = "open" /\ SoleViewer(s))
=============================================================================
