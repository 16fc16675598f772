----------------------------- MODULE WsGateway -----------------------------
(***************************************************************************)
(* apps/ws-gateway: the sockets that stream a case's trace steps to the    *)
(* workbench.  Every socket has a task with a Kafka consumer of its own,   *)
(* and all consumers are in one group on a topic of one partition, so one  *)
(* of them has it.  The task passes the socket's steps on through a        *)
(* bounded channel and does not wait when it is full.                      *)
(*                                                                         *)
(* A message is the case and the tenant of its step; messages that do not  *)
(* parse are skipped like those of another case.                           *)
(***************************************************************************)
EXTENDS Naturals, Sequences, FiniteSets, SequencesExt

CONSTANTS
    Sockets,
    Path,           \* case in the path of a socket's request
    Claims,         \* [case, tenant] in its token
    Messages,       \* [case, tenant] of the steps that are published
    Capacity,       \* of the mpsc channel
    None,           \* no socket, no offset
    Notice,         \* the backpressure_dropped notice
    MaxMessages     \* bound: messages

ASSUME GatewayConstants ==
    /\ Capacity \in Nat \ {0} /\ MaxMessages \in Nat
    /\ None \notin Sockets \cup Nat /\ Notice \notin Nat
    /\ \A m \in Messages \cup {Claims[s] : s \in Sockets} : m = [case |-> m.case, tenant |-> m.tenant]

VARIABLES
    topic,
    committed,  \* offset of the group at the broker
    position,   \* messages the group has received since the last rebalance, and before
    owner,      \* the socket whose consumer has the partition
    unstable,   \* the group's members changed since the last rebalance
    socket,     \* "new", "open", "closed", "refused"
    task,       \* "none", "recv", "notice", "done"
    chan,       \* offsets of steps, and notices, on their way to the socket
    dropped     \* offsets try_send found no room for

wsVars == <<topic, committed, position, owner, unstable, socket, task, chan, dropped>>

group == <<committed, position, owner, unstable>>

WsInit ==
    /\ topic = <<>>
    /\ committed = None /\ position = 0 /\ owner = None /\ unstable = FALSE
    /\ socket = [s \in Sockets |-> "new"]
    /\ task = [s \in Sockets |-> "none"]
    /\ chan = [s \in Sockets |-> <<>>]
    /\ dropped = [s \in Sockets |-> {}]

-----------------------------------------------------------------------------
\* Publishers and the broker.

Publish ==
    /\ Len(topic) < MaxMessages
    /\ \E msg \in Messages : topic' = Append(topic, msg)
    /\ UNCHANGED <<group, socket, task, chan, dropped>>

\* enable.auto.commit
AutoCommit ==
    /\ owner # None /\ committed # position
    /\ committed' = position
    /\ UNCHANGED <<topic, position, owner, unstable, socket, task, chan, dropped>>

Members == { s \in Sockets : task[s] \in {"recv", "notice"} }

\* The group settles on a member, which resumes behind the committed offset, or at
\* the end of the topic when there is none; a revoked owner may have committed.
Rebalance ==
    /\ unstable
    /\ unstable' = FALSE
    /\ IF Members = {}
       THEN owner' = None /\ UNCHANGED <<committed, position>>
       ELSE /\ owner' \in Members
            /\ committed' \in IF owner = None THEN {committed} ELSE {committed, position}
            /\ position' = IF committed' = None THEN Len(topic) ELSE committed'
    /\ UNCHANGED <<topic, socket, task, chan, dropped>>

-----------------------------------------------------------------------------
\* The token has not expired and was made for the case in the path.
verify_token(s, fresh) == fresh /\ Claims[s].case = Path[s]

\* ws_trace: refuse, or upgrade and spawn the socket's consumer.
Connect(s, fresh) ==
    /\ socket[s] = "new"
    /\ IF verify_token(s, fresh)
       THEN /\ socket' = [socket EXCEPT ![s] = "open"]
            /\ task' = [task EXCEPT ![s] = "recv"]
            /\ unstable' = TRUE
       ELSE socket' = [socket EXCEPT ![s] = "refused"] /\ UNCHANGED <<task, unstable>>
    /\ UNCHANGED <<topic, committed, position, owner, chan, dropped>>

\* Mutant of Matches: the tenant is not looked at.
Matches_case(s, msg) == msg.case = Path[s]

\* case_filter and tenant_filter
Matches(s, msg) == msg.case = Path[s] /\ msg.tenant = Claims[s].tenant

HasRoom(s) == Len(chan[s]) < Capacity

Receiving(s) ==
    /\ owner = s /\ ~unstable /\ task[s] = "recv"
    /\ position < Len(topic)
    /\ position' = position + 1

\* Mutant of Skip: a step of another case ends the task.
Skip_ends(s) ==
    /\ Receiving(s) /\ ~Matches(s, topic[position + 1])
    /\ task' = [task EXCEPT ![s] = "ended"]
    /\ UNCHANGED <<topic, committed, owner, unstable, socket, chan, dropped>>

\* A step of another case or tenant.
Skip(s) ==
    /\ Receiving(s) /\ ~Matches(s, topic[position + 1])
    /\ UNCHANGED <<topic, committed, owner, unstable, socket, task, chan, dropped>>

\* try_send of a step: sent, dropped because the channel is full, or the socket is
\* gone, which is where the task of a closed socket ends.
TrySend(s) ==
    /\ Receiving(s) /\ Matches(s, topic[position + 1])
    /\ \/ /\ socket[s] = "open" /\ HasRoom(s)
          /\ chan' = [chan EXCEPT ![s] = Append(@, position + 1)]
          /\ UNCHANGED <<task, dropped, unstable>>
       \/ /\ socket[s] = "open" /\ ~HasRoom(s)
          /\ dropped' = [dropped EXCEPT ![s] = @ \cup {position + 1}]
          /\ task' = [task EXCEPT ![s] = "notice"]
          /\ UNCHANGED <<chan, unstable>>
       \/ /\ socket[s] # "open"
          /\ task' = [task EXCEPT ![s] = "done"]
          /\ unstable' = TRUE
          /\ UNCHANGED <<chan, dropped>>
    /\ UNCHANGED <<topic, committed, owner, socket>>

\* try_send of the notice; its failure is ignored.
SendNotice(s) ==
    /\ task[s] = "notice"
    /\ task' = [task EXCEPT ![s] = "recv"]
    /\ chan' = IF socket[s] = "open" /\ HasRoom(s)
               THEN [chan EXCEPT ![s] = Append(@, Notice)] ELSE chan
    /\ UNCHANGED <<topic, group, socket, dropped>>

\* handle_socket sends the next line.
Deliver(s) ==
    /\ socket[s] = "open" /\ chan[s] # <<>>
    /\ chan' = [chan EXCEPT ![s] = Tail(@)]
    /\ UNCHANGED <<topic, group, socket, task, dropped>>

\* A send or a receive on the socket fails, or the client closes it; the channel's
\* receiver is dropped, the consumer's task is not told.
Close(s) ==
    /\ socket[s] = "open"
    /\ socket' = [socket EXCEPT ![s] = "closed"]
    /\ chan' = [chan EXCEPT ![s] = <<>>]
    /\ UNCHANGED <<topic, group, task, dropped>>

Consume(s) == Skip(s) \/ TrySend(s)

-----------------------------------------------------------------------------
\* The step is of the socket's case and its consumer is about to receive it.
Waiting(s, n) == n \in DOMAIN topic /\ Matches(s, topic[n]) /\ socket[s] = "open" /\ n > position

\* No other socket has joined the group so far.
SoleViewer(s) == \A t \in Sockets \ {s} : task[t] = "none"
=============================================================================
