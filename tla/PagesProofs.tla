---------------------------- MODULE PagesProofs ----------------------------
(***************************************************************************)
(* The workbench's live pages: the connections of a case's trace and the   *)
(* alert queue (CaseTrace and AlertFeed, in LivePages), its simulation lab *)
(* (SimulateLab), the trace a case page shows (TraceView), the rows of its *)
(* timeline (TraceRows) and the times pages show (Clocks), for any         *)
(* sockets, mounts, alerts, runs, steps, intervals and failures.           *)
(***************************************************************************)
EXTENDS LivePages, SimulateLab, TraceView, TraceRows, Clocks, TLAPS, FiniteSetTheorems,
        SequenceTheorems, WellFoundedInduction

\* A step of LivePages is a step of the page of a component or leaves it alone.
LEMMA StepsOfTheTrace ==
    ASSUME [Next]_livePagesVars
    PROVE  [TraceNext]_traceVars /\ [AlertNext]_alertVars
  BY DEF Next, livePagesVars

-----------------------------------------------------------------------------
\* Selections of a sequence's items.

\* Every non-empty set of naturals has a least element.
LEMMA LeastNat ==
    ASSUME NEW T, T \subseteq Nat, T # {}
    PROVE  \E x \in T : \A y \in T : x <= y
  <1>1. PICK x \in T : \A y \in T : ~ (<<y, x>> \in OpToRel(<, Nat))
    BY NatLessThanWellFounded, WFMin
  <1>2. \A y \in T : ~(y < x)
    BY <1>1 DEF OpToRel
  <1> QED BY <1>2

\* Sets of positions are finite.
LEMMA PositionsFinite ==
    ASSUME NEW n \in Nat, NEW S, S \subseteq 1..n
    PROVE  IsFiniteSet(S) /\ Cardinality(S) \in Nat
  <1>1. 1 \in Int /\ n \in Int
    OBVIOUS
  <1>2. IsFiniteSet(1..n)
    BY <1>1, FS_Interval
  <1> QED BY <1>2, FS_Subset, FS_CardinalityType

\* An interval from 1 has as many members as its end says.
LEMMA IntervalSize ==
    ASSUME NEW n \in Nat
    PROVE  IsFiniteSet(1..n) /\ Cardinality(1..n) = n
  <1>1. 1 \in Int /\ n \in Int
    OBVIOUS
  <1>2. IsFiniteSet(1..n) /\ Cardinality(1..n) = IF 1 > n THEN 0 ELSE n - 1 + 1
    BY <1>1, FS_Interval
  <1> QED BY <1>2

\* The positions of a selection are numbered: every number up to their count is the rank
\* of one of them, and every one of them has such a number.
LEMMA PlaceIsOneToOne ==
    ASSUME NEW n \in Nat, NEW S, S \subseteq 1..n
    PROVE  /\ Cardinality(S) \in Nat
           /\ \A k \in 1..Cardinality(S) : Place(S, k) \in S
           /\ \A k, l \in 1..Cardinality(S) : Place(S, k) = Place(S, l) => k = l
           /\ \A i \in S : \E k \in 1..Cardinality(S) : Place(S, k) = i
  <1> DEFINE Upto(i) == {j \in S : j <= i}
             rank == [i \in S |-> Cardinality(Upto(i))]
             m == Cardinality(S)
  <1>1. IsFiniteSet(S) /\ m \in Nat
    BY PositionsFinite
  <1>2. \A i \in S : i \in Nat
    OBVIOUS
  <1>3. \A i \in S : IsFiniteSet(Upto(i)) /\ Cardinality(Upto(i)) \in 1..m
    <2> SUFFICES ASSUME NEW i \in S
                 PROVE  IsFiniteSet(Upto(i)) /\ Cardinality(Upto(i)) \in 1..m
      OBVIOUS
    <2>1. Upto(i) \subseteq S /\ i \in Upto(i)
      BY <1>2
    <2>2. IsFiniteSet(Upto(i)) /\ Cardinality(Upto(i)) <= m
      BY <1>1, <2>1, FS_Subset
    <2>3. Cardinality(Upto(i)) \in Nat
      BY <2>2, FS_CardinalityType
    <2>4. Cardinality(Upto(i)) # 0
      BY <2>1, <2>2, FS_EmptySet
    <2> HIDE DEF Upto, m
    <2> QED BY <1>1, <2>2, <2>3, <2>4
  <1>4. ASSUME NEW i \in S, NEW j \in S, Cardinality(Upto(i)) = Cardinality(Upto(j)) PROVE i = j
    <2>1. ASSUME NEW a \in S, NEW b \in S, a < b, Cardinality(Upto(a)) = Cardinality(Upto(b))
          PROVE FALSE
      <3>1. a \in Nat /\ b \in Nat
        BY <1>2
      <3>2. Upto(a) \subseteq Upto(b) /\ b \in Upto(b) /\ b \notin Upto(a)
        <4>1. \A x \in S : x <= a => x <= b
          BY <1>2, <2>1, <3>1
        <4>2. b <= b /\ ~(b <= a)
          BY <2>1, <3>1
        <4> QED BY <2>1, <4>1, <4>2
      <3>3. IsFiniteSet(Upto(b))
        BY <1>3
      <3>4. Upto(a) = Upto(b)
        <4> HIDE DEF Upto
        <4> QED BY <2>1, <3>2, <3>3, FS_Subset
      <3> QED BY <3>2, <3>4
    <2>2. i \in Nat /\ j \in Nat
      BY <1>2
    <2> QED BY <1>4, <2>1, <2>2
  <1>5. rank \in [S -> 1..m]
    <2> HIDE DEF Upto, m
    <2> QED BY <1>3
  <1>6. rank \in Injection(S, 1..m)
    <2>1. \A i, j \in S : rank[i] = rank[j] => i = j
      <3> HIDE DEF Upto
      <3> QED BY <1>4
    <2> HIDE DEF rank, m
    <2> QED BY <1>5, <2>1 DEF Injection, IsInjective
  <1>7. rank \in Surjection(S, 1..m)
    <2>1. IsFiniteSet(1..m) /\ Cardinality(1..m) = m
      <3> HIDE DEF m
      <3> QED BY <1>1, IntervalSize
    <2> HIDE DEF rank
    <2> QED BY <1>6, <2>1, FS_Injection
  <1>8. \A k \in 1..m : \E i \in S : rank[i] = k
    <2> HIDE DEF rank, m
    <2> QED BY <1>7 DEF Surjection
  <1>9. \A k \in 1..m : Place(S, k) \in S /\ Cardinality(Upto(Place(S, k))) = k
    <2> SUFFICES ASSUME NEW k \in 1..m
                 PROVE  Place(S, k) \in S /\ Cardinality(Upto(Place(S, k))) = k
      OBVIOUS
    <2>1. \E i \in S : Cardinality({j \in S : j <= i}) = k
      BY <1>8
    <2>2. Place(S, k) \in S /\ Cardinality({j \in S : j <= Place(S, k)}) = k
      BY <2>1 DEF Place
    <2> QED BY <2>2
  <1>10. ASSUME NEW i \in S PROVE \E k \in 1..m : Place(S, k) = i
    <2>1. Cardinality(Upto(i)) \in 1..m
      BY <1>3
    <2> DEFINE k == Cardinality(Upto(i))
    <2>2. Place(S, k) \in S /\ Cardinality(Upto(Place(S, k))) = k
      <3> HIDE DEF Upto, m
      <3> QED BY <1>9, <2>1
    <2>3. Place(S, k) = i
      <3> HIDE DEF Upto
      <3> QED BY <1>4, <2>2
    <2> QED BY <2>1, <2>3
  <1>11. ASSUME NEW k \in 1..m, NEW l \in 1..m, Place(S, k) = Place(S, l) PROVE k = l
    <2>1. Cardinality(Upto(Place(S, k))) = k /\ Cardinality(Upto(Place(S, l))) = l
      BY <1>9
    <2> QED BY <1>11, <2>1
  <1> QED BY <1>1, <1>9, <1>10, <1>11

\* filter: a sequence of the selected items, one for each position.
LEMMA PickGives ==
    ASSUME NEW T, NEW s \in Seq(T), NEW S, S \subseteq DOMAIN s
    PROVE  /\ Pick(s, S) \in Seq(T)
           /\ Cardinality(S) \in Nat /\ IsFiniteSet(S)
           /\ Len(Pick(s, S)) = Cardinality(S) /\ DOMAIN Pick(s, S) = 1..Cardinality(S)
           /\ \A k \in DOMAIN Pick(s, S) : Place(S, k) \in S /\ Pick(s, S)[k] = s[Place(S, k)]
           /\ \A k, l \in DOMAIN Pick(s, S) : Place(S, k) = Place(S, l) => k = l
           /\ \A i \in S : \E k \in DOMAIN Pick(s, S) : Place(S, k) = i /\ Pick(s, S)[k] = s[i]
  <1>1. Len(s) \in Nat /\ DOMAIN s = 1..Len(s) /\ \A i \in DOMAIN s : s[i] \in T
    OBVIOUS
  <1>2. /\ Cardinality(S) \in Nat
        /\ \A k \in 1..Cardinality(S) : Place(S, k) \in S
        /\ \A k, l \in 1..Cardinality(S) : Place(S, k) = Place(S, l) => k = l
        /\ \A i \in S : \E k \in 1..Cardinality(S) : Place(S, k) = i
    BY <1>1, PlaceIsOneToOne
  <1>3. IsFiniteSet(S)
    BY <1>1, PositionsFinite
  <1>4. /\ DOMAIN Pick(s, S) = 1..Cardinality(S)
        /\ \A k \in 1..Cardinality(S) : Pick(s, S)[k] = s[Place(S, k)]
    BY DEF Pick
  <1>5. Pick(s, S) \in Seq(T) /\ Len(Pick(s, S)) = Cardinality(S)
    <2>1. \A k \in 1..Cardinality(S) : s[Place(S, k)] \in T
      BY <1>1, <1>2
    <2> DEFINE m == Cardinality(S)
               f == [k \in 1..m |-> s[Place(S, k)]]
    <2>2. m \in Nat /\ f = Pick(s, S)
      BY <1>2 DEF Pick
    <2>3. f \in [1..m -> T]
      <3> HIDE DEF m
      <3> QED BY <2>1 DEF m
    <2> HIDE DEF m, f
    <2>4. f \in Seq(T) /\ Len(f) = m
      BY <2>2, <2>3
    <2> QED BY <2>2, <2>4 DEF m
  <1> QED BY <1>2, <1>3, <1>4, <1>5


-----------------------------------------------------------------------------
\* One connection for each mount.

HookTypes ==
    /\ mounts \in 0..MaxMounts
    /\ tokens \in [Mounts -> Nat] /\ timers \in [Mounts -> Nat]
    /\ opened \in [Sockets -> 0..MaxMounts]
    /\ closeHeard \subseteq {s \in Sockets : opened[s] # 0}

\* A mount waits for one token or one timer, or has one socket at most.
Single(v) ==
    \/ /\ tokens[v] = 0 /\ timers[v] = 0
       /\ \A s, t \in Sockets : Alive(s, v) /\ Alive(t, v) => s = t
    \/ /\ tokens[v] + timers[v] = 1
       /\ \A s \in Sockets : ~Alive(s, v)

\* A mount that is yet to come has none.
Absent(v) == tokens[v] = 0 /\ timers[v] = 0 /\ \A s \in Sockets : opened[s] # v

HookInv ==
    /\ HookTypes
    /\ \A v \in Mounts : Single(v) /\ (v > mounts => Absent(v))

\* Every step of the trace's page keeps the invariant of its connections.
LEMMA HookStep ==
    ASSUME HookInv, [TraceNext]_traceVars
    PROVE  HookInv'
  <1> USE TraceConstants DEF HookInv, HookTypes, Mounts, Single, Absent, Alive
  <1>1. CASE MountTrace
    BY <1>1 DEF MountTrace
  <1>2. ASSUME NEW v \in Mounts, TokenArrives(v) PROVE HookInv'
    <2>1. PICK s : s = CHOOSE t \in Unused : TRUE
      OBVIOUS
    <2>2. s \in Sockets /\ opened[s] = 0
      BY <1>2, <2>1 DEF TokenArrives, Unused
    <2>3. tokens[v] = 1 /\ timers[v] = 0 /\ v <= mounts
      <3>1. tokens[v] \in Nat /\ timers[v] \in Nat /\ tokens[v] > 0
        BY <1>2 DEF TokenArrives
      <3> QED BY <3>1
    <2>4. /\ tokens' = [tokens EXCEPT ![v] = 0] /\ opened' = [opened EXCEPT ![s] = v]
          /\ UNCHANGED <<mounts, timers, closeHeard>>
      BY <1>2, <2>1, <2>3 DEF TokenArrives
    <2> QED BY <2>2, <2>3, <2>4
  <1>3. ASSUME NEW v \in Mounts, TokenFails(v) PROVE HookInv'
    BY <1>3 DEF TokenFails
  <1>4. ASSUME NEW v \in Mounts, Reconnect(v) PROVE HookInv'
    <2>1. tokens[v] \in Nat /\ timers[v] \in Nat /\ timers[v] > 0
      BY <1>4 DEF Reconnect
    <2>2. tokens[v] = 0 /\ timers[v] = 1 /\ v <= mounts
      BY <2>1
    <2>3. /\ tokens' = [tokens EXCEPT ![v] = 1] /\ timers' = [timers EXCEPT ![v] = 0]
          /\ UNCHANGED <<mounts, opened, closeHeard>>
      BY <1>4, <2>2 DEF Reconnect
    <2> QED BY <2>2, <2>3
  <1>5. ASSUME NEW s \in Sockets, OnClose(s) PROVE HookInv'
    <2>1. PICK v \in Mounts : v = opened[s]
      BY <1>5 DEF OnClose
    <2>2. /\ Alive(s, v) /\ tokens[v] = 0 /\ timers[v] = 0 /\ v <= mounts
      <3>1. Alive(s, v)
        BY <1>5, <2>1 DEF OnClose
      <3>2. Single(v) /\ (v > mounts => Absent(v))
        OBVIOUS
      <3> QED BY <2>1, <3>1, <3>2
    <2>3. /\ timers' = [timers EXCEPT ![v] = 1] /\ closeHeard' = closeHeard \cup {s}
          /\ UNCHANGED <<mounts, tokens, opened>>
      BY <1>5, <2>1, <2>2 DEF OnClose
    <2> QED BY <1>5, <2>1, <2>2, <2>3
  <1>6. CASE UnmountTrace
    <2>1. UNCHANGED <<mounts, tokens, opened, closeHeard>>
      BY <1>6 DEF UnmountTrace
    <2>2. timers' \in [Mounts -> Nat] /\ \A v \in Mounts : timers'[v] <= timers[v]
      <3>1. timers' = [timers EXCEPT ![mounts] = IF timers[mounts] > 0 THEN timers[mounts] - 1 ELSE 0]
        BY <1>6 DEF UnmountTrace
      <3>2. ASSUME NEW v \in Mounts PROVE timers'[v] \in Nat /\ timers'[v] <= timers[v]
        BY <3>1
      <3> QED BY <3>1, <3>2
    <2>3. ASSUME NEW v \in Mounts PROVE Single(v)' /\ (v > mounts => Absent(v)')
      <3>1. tokens[v] \in Nat /\ timers[v] \in Nat /\ timers'[v] \in Nat /\ timers'[v] <= timers[v]
        BY <2>2
      <3> QED BY <2>1, <3>1
    <2> QED BY <2>1, <2>2, <2>3
  <1>7. CASE UNCHANGED <<mounts, tokens, timers, opened, closeHeard>>
    BY <1>7
  <1>8. ASSUME NEW s \in Sockets, TabConnects(s) \/ OnMessage(s) \/ SocketFails(s) PROVE HookInv'
    BY <1>7, <1>8 DEF TabConnects, OnMessage, SocketFails
  <1>9. CASE GatewaySteps \/ ((Publish \/ AutoCommit) /\ UNCHANGED hook) \/ UNCHANGED traceVars
    BY <1>7, <1>9 DEF GatewaySteps, hook, traceVars
  <1> QED BY <1>1, <1>2, <1>3, <1>4, <1>5, <1>6, <1>8, <1>9 DEF TraceNext, HookSteps

\* However the page is left and whatever fails, a mount has one connection at most.
THEOREM OneConnection == Spec => []OneConnectionPerMount
  <1>1. Init => HookInv
    BY TraceConstants DEF Init, TraceInit, HookInv, HookTypes, Mounts, Single, Absent, Alive
  <1>2. HookInv /\ [Next]_livePagesVars => HookInv'
    BY HookStep, StepsOfTheTrace
  <1>3. HookInv => OneConnectionPerMount
    <2>1. SUFFICES ASSUME HookInv, NEW v \in Mounts
                   PROVE  tokens[v] + timers[v] + Cardinality({ s \in Sockets : Alive(s, v) }) <= 1
      BY DEF OneConnectionPerMount
    <2> DEFINE A == { s \in Sockets : Alive(s, v) }
    <2>2. tokens[v] \in Nat /\ timers[v] \in Nat /\ Single(v)
      BY <2>1 DEF HookInv, HookTypes
    <2>3. CASE A = {}
      <3>1. Cardinality(A) = 0
        BY <2>3, FS_EmptySet
      <3>2. tokens[v] + timers[v] <= 1
        BY <2>2 DEF Single
      <3> QED BY <2>2, <3>1, <3>2
    <2>4. CASE A # {}
      <3>1. PICK s \in Sockets : Alive(s, v)
        BY <2>4
      <3>2. tokens[v] = 0 /\ timers[v] = 0 /\ A = {s}
        BY <2>2, <3>1 DEF Single
      <3>3. Cardinality(A) = 1
        BY <3>2, FS_Singleton
      <3> QED BY <3>2, <3>3
    <2> QED BY <2>3, <2>4
  <1> QED BY <1>1, <1>2, <1>3, PTL DEF Spec

-----------------------------------------------------------------------------
\* The steps in the store.

WireTypes ==
    /\ topic \in Seq(Messages)
    /\ committed \in Nat \cup {None} /\ position \in Nat
    /\ socket \in [Sockets -> {"new", "open", "closed", "refused"}]
    /\ chan \in [Sockets -> Seq(Nat \cup {Notice})]
    /\ traceSteps \in Seq(Nat)

\* The offset of a step that some socket has a token for.
Own(n) == n \in 1..Len(topic) /\ \E s \in Sockets : topic[n] = Claims[s]

\* What is on its way to the tab, and what has arrived, is its own.
WireInv ==
    /\ WireTypes
    /\ \A s \in Sockets : socket[s] = "open" => Claims[s].case = Path[s]
    /\ \A s \in Sockets : \A i \in 1..Len(chan[s]) : chan[s][i] # Notice => Own(chan[s][i])
    /\ \A i, j \in 1..Len(traceSteps) : traceSteps[i] = traceSteps[j] => i = j
    /\ \A i \in 1..Len(traceSteps) : Own(traceSteps[i])

\* The invariant after a step that publishes nothing, in terms of the state before it.
LEMMA WireSame ==
    ASSUME WireInv, WireTypes', UNCHANGED topic,
           \A s \in Sockets : socket'[s] = "open" => Claims[s].case = Path[s],
           \A s \in Sockets : \A i \in 1..Len(chan'[s]) : chan'[s][i] # Notice => Own(chan'[s][i]),
           \A i, j \in 1..Len(traceSteps') : traceSteps'[i] = traceSteps'[j] => i = j,
           \A i \in 1..Len(traceSteps') : Own(traceSteps'[i])
    PROVE  WireInv'
  <1>1. \A s \in Sockets : \A i \in 1..Len(chan'[s]) : chan'[s][i] # Notice =>
            chan'[s][i] \in 1..Len(topic') /\ \E t \in Sockets : topic'[chan'[s][i]] = Claims[t]
    BY DEF Own
  <1>2. \A i \in 1..Len(traceSteps') :
            traceSteps'[i] \in 1..Len(topic') /\ \E t \in Sockets : topic'[traceSteps'[i]] = Claims[t]
    BY DEF Own
  <1> QED BY <1>1, <1>2 DEF WireInv, Own

\* The steps a step of the gateway or of the tab leaves as they are.
LEMMA WireKeeps ==
    ASSUME WireInv, WireTypes', UNCHANGED <<topic, traceSteps>>,
           \A s \in Sockets : chan'[s] \in {chan[s], <<>>},
           \A s \in Sockets : socket'[s] = "open" => socket[s] = "open" \/ Claims[s].case = Path[s]
    PROVE  WireInv'
  <1>1. \A s \in Sockets : socket'[s] = "open" => Claims[s].case = Path[s]
    BY DEF WireInv
  <1>2. ASSUME NEW s \in Sockets, NEW i \in 1..Len(chan'[s]), chan'[s][i] # Notice
        PROVE  Own(chan'[s][i])
    BY <1>2 DEF WireInv
  <1> QED BY <1>1, <1>2, WireSame DEF WireInv

\* A message is published.
LEMMA PublishKeepsWire ==
    ASSUME WireInv, Publish, UNCHANGED hook
    PROVE  WireInv'
  <1>1. PICK msg \in Messages : topic' = Append(topic, msg)
    BY DEF Publish
  <1>2. UNCHANGED <<committed, position, socket, chan, traceSteps>>
    BY DEF Publish, group, hook
  <1>3. topic \in Seq(Messages)
    BY DEF WireInv, WireTypes
  <1>4. /\ topic' \in Seq(Messages) /\ Len(topic') = Len(topic) + 1 /\ Len(topic) \in Nat
        /\ \A n \in 1..Len(topic) : topic'[n] = topic[n]
    BY <1>1, <1>3
  <1>5. ASSUME NEW n, Own(n) PROVE Own(n)'
    BY <1>4, <1>5 DEF Own
  <1>6. WireTypes'
    BY <1>2, <1>4 DEF WireInv, WireTypes
  <1> QED BY <1>2, <1>5, <1>6 DEF WireInv

\* What try_send passes on matches the token of an open socket.
LEMMA TrySendKeeps ==
    ASSUME WireInv, NEW s \in Sockets, TrySend(s), UNCHANGED hook
    PROVE  WireInv'
  <1>0. PICK n : n = position + 1
    OBVIOUS
  <1>1. /\ WireTypes /\ n \in 1..Len(topic) /\ Len(topic) \in Nat /\ position' = n
        /\ UNCHANGED <<topic, committed, socket, traceSteps>>
    BY <1>0 DEF WireInv, WireTypes, TrySend, Receiving, hook
  <1>2. CASE socket[s] = "open" /\ chan' = [chan EXCEPT ![s] = Append(@, n)]
    <2>1. topic[n] = Claims[s]
      <3>1. topic[n] \in Messages
        BY <1>1 DEF WireTypes
      <3>2. topic[n].case = Claims[s].case /\ topic[n].tenant = Claims[s].tenant
        BY <1>0, <1>2 DEF WireInv, TrySend, Matches
      <3>3. PICK x, y : x = topic[n] /\ y = Claims[s]
        OBVIOUS
      <3>4. /\ x = [case |-> x.case, tenant |-> x.tenant]
            /\ y = [case |-> y.case, tenant |-> y.tenant]
        BY <3>1, <3>3, GatewayConstants
      <3> QED BY <3>2, <3>3, <3>4
    <2>2. Own(n)
      BY <1>1, <2>1 DEF Own
    <2>3. /\ chan[s] \in Seq(Nat \cup {Notice}) /\ chan'[s] = Append(chan[s], n)
          /\ \A t \in Sockets \ {s} : chan'[t] = chan[t]
      BY <1>1, <1>2 DEF WireTypes
    <2>4. /\ chan'[s] \in Seq(Nat \cup {Notice})
          /\ \A i \in 1..Len(chan'[s]) : chan'[s][i] = n \/ (i \in 1..Len(chan[s]) /\ chan'[s][i] = chan[s][i])
      BY <1>1, <2>3
    <2>5. WireTypes'
      BY <1>1, <1>2, <2>4 DEF WireTypes
    <2>6. ASSUME NEW t \in Sockets, NEW i \in 1..Len(chan'[t]), chan'[t][i] # Notice
          PROVE  Own(chan'[t][i])
      BY <2>2, <2>3, <2>4, <2>6 DEF WireInv
    <2> QED BY <1>1, <2>5, <2>6, WireSame DEF WireInv
  <1>3. CASE chan' = chan
    <2>1. WireTypes'
      BY <1>1, <1>3 DEF WireTypes
    <2> QED BY <1>1, <1>3, <2>1, WireKeeps
  <1> QED BY <1>0, <1>2, <1>3 DEF TrySend

\* The notice is none of the steps.
LEMMA NoticeKeeps ==
    ASSUME WireInv, NEW s \in Sockets, SendNotice(s), UNCHANGED hook
    PROVE  WireInv'
  <1>1. WireTypes /\ UNCHANGED <<topic, committed, position, socket, traceSteps>>
    BY DEF WireInv, SendNotice, group, hook
  <1>2. CASE chan' = [chan EXCEPT ![s] = Append(@, Notice)]
    <2>1. /\ chan[s] \in Seq(Nat \cup {Notice}) /\ chan'[s] = Append(chan[s], Notice)
          /\ \A t \in Sockets \ {s} : chan'[t] = chan[t]
      BY <1>1, <1>2 DEF WireTypes
    <2>2. /\ chan'[s] \in Seq(Nat \cup {Notice})
          /\ \A i \in 1..Len(chan'[s]) : chan'[s][i] = Notice \/ (i \in 1..Len(chan[s]) /\ chan'[s][i] = chan[s][i])
      BY <2>1
    <2>3. WireTypes'
      BY <1>1, <1>2, <2>2 DEF WireTypes
    <2>4. ASSUME NEW t \in Sockets, NEW i \in 1..Len(chan'[t]), chan'[t][i] # Notice
          PROVE  Own(chan'[t][i])
      BY <2>1, <2>2, <2>4 DEF WireInv
    <2> QED BY <1>1, <2>3, <2>4, WireSame DEF WireInv
  <1>3. CASE chan' = chan
    <2>1. WireTypes'
      BY <1>1, <1>3 DEF WireTypes
    <2> QED BY <1>1, <1>3, <2>1, WireKeeps
  <1> QED BY <1>2, <1>3 DEF SendNotice

\* A step that arrives is added once.
LEMMA OnMessageKeeps ==
    ASSUME WireInv, NEW s \in Sockets, OnMessage(s)
    PROVE  WireInv'
  <1> DEFINE n == Head(chan[s])
  <1>1. /\ WireTypes /\ chan[s] \in Seq(Nat \cup {Notice}) /\ chan[s] # <<>>
        /\ chan' = [chan EXCEPT ![s] = Tail(@)] /\ traceSteps \in Seq(Nat)
        /\ UNCHANGED <<topic, committed, position, socket>>
        /\ traceSteps' = appendTraceStep(n)
    BY DEF WireInv, WireTypes, OnMessage, Deliver, group
  <1>2. /\ n \in Nat \cup {Notice} /\ Len(chan[s]) \in Nat /\ 1 \in 1..Len(chan[s]) /\ n = chan[s][1]
        /\ Tail(chan[s]) \in Seq(Nat \cup {Notice})
        /\ \A i \in 1..Len(Tail(chan[s])) : i + 1 \in 1..Len(chan[s]) /\ Tail(chan[s])[i] = chan[s][i + 1]
    BY <1>1
  <1>3. n # Notice => n \in Nat /\ Own(n)
    BY <1>2 DEF WireInv
  <1>4. /\ chan' \in [Sockets -> Seq(Nat \cup {Notice})] /\ chan'[s] = Tail(chan[s])
        /\ \A t \in Sockets \ {s} : chan'[t] = chan[t]
    BY <1>1, <1>2 DEF WireTypes
  <1>5. ASSUME NEW t \in Sockets, NEW i \in 1..Len(chan'[t]), chan'[t][i] # Notice
        PROVE  Own(chan'[t][i])
    <2>1. PICK j \in 1..Len(chan[t]) : chan'[t][i] = chan[t][j]
      <3>1. CASE t = s
        <4>1. i \in 1..Len(Tail(chan[s])) /\ chan'[t][i] = Tail(chan[s])[i]
          BY <1>4, <3>1
        <4>2. i + 1 \in 1..Len(chan[t]) /\ chan'[t][i] = chan[t][i + 1]
          BY <1>2, <3>1, <4>1
        <4> QED BY <4>2
      <3>2. CASE t # s
        BY <1>4, <3>2
      <3> QED BY <3>1, <3>2
    <2> QED BY <1>5, <2>1 DEF WireInv
  <1>6. /\ traceSteps' \in Seq(Nat)
        /\ \A i, j \in 1..Len(traceSteps') : traceSteps'[i] = traceSteps'[j] => i = j
        /\ \A i \in 1..Len(traceSteps') : Own(traceSteps'[i])
    <2>1. CASE n = Notice \/ n \in ToSet(traceSteps)
      BY <1>1, <2>1 DEF appendTraceStep, WireInv
    <2>2. CASE n # Notice /\ n \notin ToSet(traceSteps)
      <3>1. traceSteps' = <<n>> \o traceSteps /\ n \in Nat /\ Own(n)
        BY <1>1, <1>3, <2>2 DEF appendTraceStep
      <3>2. /\ traceSteps' \in Seq(Nat) /\ Len(traceSteps') = Len(traceSteps) + 1 /\ Len(traceSteps) \in Nat
            /\ traceSteps'[1] = n
            /\ \A i \in 2..Len(traceSteps') : i - 1 \in 1..Len(traceSteps) /\ traceSteps'[i] = traceSteps[i - 1]
        <4>1. /\ <<n>> \in Seq(Nat) /\ Len(<<n>>) = 1 /\ <<n>>[1] = n /\ Len(traceSteps) \in Nat
          BY <1>1, <3>1
        <4>2. PICK one : one = <<n>>
          OBVIOUS
        <4>3. /\ one \o traceSteps \in Seq(Nat) /\ Len(one \o traceSteps) = 1 + Len(traceSteps)
              /\ \A i \in 1..(1 + Len(traceSteps)) :
                    (one \o traceSteps)[i] = IF i <= 1 THEN one[i] ELSE traceSteps[i - 1]
          BY <1>1, <4>1, <4>2
        <4> QED BY <3>1, <4>1, <4>2, <4>3
      <3>3. \A i \in 1..Len(traceSteps) : traceSteps[i] # n
        BY <1>1, <2>2 DEF ToSet
      <3>4. \A i \in 1..Len(traceSteps') : i = 1 \/ i \in 2..Len(traceSteps')
        BY <3>2
      <3>5. ASSUME NEW i \in 1..Len(traceSteps'), NEW j \in 1..Len(traceSteps'), traceSteps'[i] = traceSteps'[j]
            PROVE  i = j
        <4>1. CASE i = 1 \/ j = 1
          BY <3>2, <3>3, <3>4, <3>5, <4>1
        <4>2. CASE i # 1 /\ j # 1
          <5>1. i - 1 \in 1..Len(traceSteps) /\ j - 1 \in 1..Len(traceSteps)
                /\ traceSteps[i - 1] = traceSteps[j - 1]
            BY <3>2, <3>4, <3>5, <4>2
          <5>2. i - 1 = j - 1
            BY <5>1 DEF WireInv
          <5> QED BY <5>2
        <4> QED BY <4>1, <4>2
      <3>6. \A i \in 1..Len(traceSteps') : Own(traceSteps'[i])
        BY <3>1, <3>2, <3>4 DEF WireInv
      <3> QED BY <3>2, <3>5, <3>6
    <2> QED BY <2>1, <2>2
  <1>7. WireTypes'
    BY <1>1, <1>4, <1>6 DEF WireTypes
  <1>8. \A s1 \in Sockets : socket'[s1] = "open" => Claims[s1].case = Path[s1]
    BY <1>1 DEF WireInv
  <1> QED BY <1>1, <1>5, <1>6, <1>7, <1>8, WireSame

\* Every step of the trace's page keeps what is in its store and on its way there.
LEMMA WireStep ==
    ASSUME WireInv, [TraceNext]_traceVars
    PROVE  WireInv'
  <1>1. WireTypes
    BY DEF WireInv
  <1>2. ASSUME UNCHANGED <<topic, committed, position, socket, chan, traceSteps>> PROVE WireInv'
    <2>1. WireTypes'
      BY <1>1, <1>2 DEF WireTypes
    <2> QED BY <1>2, <2>1, WireKeeps
  <1>3. ASSUME NEW s \in Sockets, Close(s), UNCHANGED traceSteps PROVE WireInv'
    <2>1. /\ WireTypes' /\ \A t \in Sockets : chan'[t] \in {chan[t], <<>>}
          /\ \A t \in Sockets : socket'[t] = "open" => socket[t] = "open"
      BY <1>1, <1>3 DEF WireTypes, Close, group
    <2> QED BY <1>3, <2>1, WireKeeps DEF Close
  <1>4. CASE Publish /\ UNCHANGED hook
    BY <1>4, PublishKeepsWire
  <1>5. CASE AutoCommit /\ UNCHANGED hook
    <2>1. WireTypes'
      BY <1>1, <1>5 DEF WireTypes, AutoCommit, hook
    <2> QED BY <1>5, <2>1, WireKeeps DEF AutoCommit, hook
  <1>6. CASE Rebalance /\ UNCHANGED hook
    <2>1. WireTypes'
      <3>1. committed' \in Nat \cup {None} /\ position' \in Nat
        BY <1>1, <1>6 DEF WireTypes, Rebalance
      <3> QED BY <1>1, <1>6, <3>1 DEF WireTypes, Rebalance, hook
    <2> QED BY <1>6, <2>1, WireKeeps DEF Rebalance, hook
  <1>7. ASSUME NEW s \in Sockets, Skip(s), UNCHANGED hook PROVE WireInv'
    <2>1. WireTypes'
      BY <1>1, <1>7 DEF WireTypes, Skip, Receiving, hook
    <2> QED BY <1>7, <2>1, WireKeeps DEF Skip, hook
  <1>8. ASSUME NEW s \in Sockets, NEW fresh, Connect(s, fresh), UNCHANGED traceSteps PROVE WireInv'
    <2>1. /\ WireTypes' /\ UNCHANGED <<topic, chan>>
          /\ \A t \in Sockets : socket'[t] = "open" => socket[t] = "open" \/ Claims[t].case = Path[t]
      BY <1>1, <1>8 DEF WireTypes, Connect, verify_token
    <2> QED BY <1>8, <2>1, WireKeeps
  <1>9. CASE UnmountTrace
    <2>1. PICK s : s = wsRef[mounts]
      OBVIOUS
    <2>2. CASE UNCHANGED wsVars
      BY <1>2, <1>9, <2>2 DEF UnmountTrace, wsVars
    <2>3. CASE Close(s) /\ s \in Sockets
      BY <1>3, <1>9, <2>3 DEF UnmountTrace
    <2>4. ASSUME socket' = [socket EXCEPT ![s] = "closed"], UNCHANGED <<topic, group, task, chan, dropped>>
          PROVE  WireInv'
      <3>1. WireTypes' /\ UNCHANGED <<topic, chan, traceSteps>>
        BY <1>1, <1>9, <2>4 DEF WireTypes, UnmountTrace, group
      <3>2. \A t \in Sockets : socket'[t] = "open" => socket[t] = "open"
        BY <1>1, <2>4 DEF WireTypes
      <3> QED BY <3>1, <3>2, WireKeeps
    <2>5. ASSUME Close(s), s \notin Sockets PROVE WireInv'
      <3>1. socket' = socket /\ chan' = chan
        BY <1>1, <2>5 DEF Close, WireTypes
      <3> QED BY <1>2, <1>9, <2>5, <3>1 DEF Close, UnmountTrace, group
    <2> QED BY <1>9, <2>1, <2>2, <2>3, <2>4, <2>5 DEF UnmountTrace
  <1>10. CASE MountTrace \/ (\E v \in Mounts : Reconnect(v) \/ TokenArrives(v) \/ TokenFails(v))
              \/ (\E s \in Sockets : OnClose(s)) \/ UNCHANGED traceVars
    BY <1>2, <1>10 DEF MountTrace, Reconnect, TokenArrives, TokenFails, OnClose, traceVars, wsVars, hook
  <1>11. ASSUME NEW s \in Sockets, TabConnects(s) \/ SocketFails(s) PROVE WireInv'
    BY <1>3, <1>8, <1>11 DEF TabConnects, SocketFails
  <1>12. ASSUME NEW s \in Sockets, Consume(s) \/ SendNotice(s), UNCHANGED hook PROVE WireInv'
    BY <1>7, <1>12, TrySendKeeps, NoticeKeeps DEF Consume
  <1>13. ASSUME NEW s \in Sockets, OnMessage(s) PROVE WireInv'
    BY <1>13, OnMessageKeeps
  <1> QED BY <1>4, <1>5, <1>6, <1>9, <1>10, <1>11, <1>12, <1>13 DEF TraceNext, HookSteps, GatewaySteps

\* The store has each step once, and only steps of the case and tenant of a token of the tab,
\* also when the group resumes behind steps that were delivered.
THEOREM StoreHasOwnSteps == Spec => []StoreIsOwn
  <1>1. Init => WireInv
    BY GatewayConstants DEF Init, TraceInit, WsInit, WireInv, WireTypes
  <1>2. WireInv /\ [Next]_livePagesVars => WireInv'
    BY WireStep, StepsOfTheTrace
  <1>3. WireInv => StoreIsOwn
    <2>1. SUFFICES ASSUME WireInv PROVE StoreIsOwn
      OBVIOUS
    <2>2. DOMAIN traceSteps = 1..Len(traceSteps)
      BY <2>1 DEF WireInv, WireTypes
    <2> QED BY <2>1, <2>2 DEF WireInv, StoreIsOwn, Own, ToSet, IsInjective
  <1> QED BY <1>1, <1>2, <1>3, PTL DEF Spec

-----------------------------------------------------------------------------
\* The alert queue's table.

\* Lists are lists: of rows on the wire and of the hook, of alerts in a render.
Alert == [row : Nat, agent : {"idle", "running", "complete"}]

AlertTypes ==
    /\ firedRows \in Nat /\ pageIndex \in Nat
    /\ wire \in Seq(Nat) /\ newAlerts \in Seq(Nat) /\ initialAlerts \in Seq(Alert)

\* A page other than the first is one of the table's; a page that is opened starts at the
\* first.
PageExists == pageIndex # 0 => pageIndex < PageCount

TableInv == AlertTypes /\ PageExists /\ (alertPage = "none" => pageIndex = 0)

\* A page before the last that the count rounds up to has a first row.
LEMMA RoundedUp ==
    ASSUME NEW a \in Nat, NEW b \in Nat \ {0}, NEW q \in Nat, q < (a + b - 1) \div b
    PROVE  q * b \in Nat /\ q * b < a
  <1> DEFINE x == a + b - 1
             c == x \div b
  <1>1. x \in Nat /\ c \in Nat /\ b * c <= x
    BY Z3
  <1>2. c - q - 1 \in Nat
    BY <1>1
  <1> HIDE DEF c
  <1>3. (c - q - 1) * b \in Nat /\ q * b \in Nat
    <2> DEFINE d == c - q - 1
    <2>1. d \in Nat
      BY <1>2
    <2> HIDE DEF d
    <2>2. d * b \in Nat /\ q * b \in Nat
      BY <2>1
    <2> QED BY <2>2 DEF d
  <1>4. (c - q - 1) * b = b * c - (q * b + b)
    BY <1>1
  <1> QED BY <1>1, <1>3, <1>4

\* fetch_all_fired answers with a list of rows.
LEMMA FetchType ==
    ASSUME AlertTypes, NEW skipped
    PROVE  fetch_all_fired(skipped) \in Seq(Nat)
  <1>1. CASE ~cpReady
    BY <1>1 DEF fetch_all_fired
  <1>2. CASE cpReady
    <2> DEFINE rows == [i \in 1..firedRows |-> firedRows + 1 - i]
               S == {i \in 1..firedRows : Within(rows[i]) /\ DetectionOf(rows[i]) \notin skipped}
    <2>1. fetch_all_fired(skipped) = Pick(rows, S)
      BY <1>2 DEF fetch_all_fired
    <2>2. rows \in Seq(Nat) /\ DOMAIN rows = 1..firedRows
      BY DEF AlertTypes
    <2>3. S \subseteq DOMAIN rows
      BY <2>2
    <2> HIDE DEF rows, S
    <2>4. Pick(rows, S) \in Seq(Nat)
      BY <2>2, <2>3, PickGives
    <2> QED BY <2>1, <2>4
  <1> QED BY <1>1, <1>2

\* The rows of the table are a list of alerts.
LEMMA FilteredType ==
    ASSUME AlertTypes
    PROVE  Filtered \in Seq(Alert)
  <1> DEFINE lives == [i \in DOMAIN newAlerts |-> firedDetectionToAlert(newAlerts[i])]
             merged == lives \o initialAlerts
             First(i) == \A j \in 1..(i - 1) : EventOf(merged[j].row) # EventOf(merged[i].row)
  <1>1. lives \in Seq(Alert)
    <2>1. /\ Len(newAlerts) \in Nat /\ DOMAIN newAlerts = 1..Len(newAlerts)
          /\ \A i \in DOMAIN newAlerts : newAlerts[i] \in Nat
      BY DEF AlertTypes
    <2>2. \A i \in DOMAIN newAlerts : firedDetectionToAlert(newAlerts[i]) \in Alert
      BY <2>1 DEF firedDetectionToAlert, Alert
    <2> QED BY <2>1, <2>2
  <1>2. merged \in Seq(Alert)
    <2> HIDE DEF lives
    <2> QED BY <1>1 DEF AlertTypes
  <1>3. QueueAlerts \in Seq(Alert)
    <2>1. QueueAlerts = Pick(merged, {i \in DOMAIN merged : First(i)})
      BY DEF QueueAlerts
    <2> HIDE DEF merged, First
    <2> QED BY <1>2, <2>1, PickGives
  <1>4. TableAlerts \in Seq(Alert)
    <2>1. CASE alertPage = "queue"
      <3> DEFINE S == {i \in DOMAIN QueueAlerts : StateOf(QueueAlerts[i]) = tab}
      <3>1. TableAlerts = Pick(QueueAlerts, S)
        BY <2>1 DEF TableAlerts
      <3>2. S \subseteq DOMAIN QueueAlerts
        OBVIOUS
      <3> HIDE DEF S
      <3> QED BY <1>3, <3>1, <3>2, PickGives
    <2>2. CASE alertPage # "queue"
      BY <2>2 DEF TableAlerts, AlertTypes
    <2> QED BY <2>1, <2>2
  <1> DEFINE S == {i \in DOMAIN TableAlerts : search = "" \/ EventOf(TableAlerts[i].row) = search}
  <1>5. Filtered = Pick(TableAlerts, S)
    BY DEF Filtered
  <1>6. S \subseteq DOMAIN TableAlerts
    OBVIOUS
  <1> HIDE DEF S
  <1> QED BY <1>4, <1>5, <1>6, PickGives

\* The number of pages is a number.
LEMMA PageCountType ==
    ASSUME AlertTypes
    PROVE  PageCount \in Nat /\ Len(Filtered) \in Nat
  <1>1. Len(Filtered) \in Nat
    BY FilteredType
  <1>2. \A n \in Nat : (n + PageSize - 1) \div PageSize \in Nat
    BY AlertConstants, Z3
  <1> QED BY <1>1, <1>2 DEF PageCount

\* What the number of pages depends on.
tableRows == <<newAlerts, initialAlerts, alertPage, tab, search>>

\* Rows that stay as they are have as many pages as before.
LEMMA SamePages ==
    ASSUME UNCHANGED tableRows
    PROVE  PageCount' = PageCount
  BY DEF tableRows, PageCount, Filtered, TableAlerts, QueueAlerts

\* A step that leaves the table alone.
LEMMA TableRests ==
    ASSUME TableInv, AlertTypes', UNCHANGED <<tableRows, pageIndex>>
    PROVE  TableInv'
  <1>1. PageCount' = PageCount
    BY SamePages
  <1> QED BY <1>1 DEF TableInv, PageExists, tableRows

\* A step that leads to the table's first page.
LEMMA TableResets ==
    ASSUME AlertTypes', pageIndex' = 0
    PROVE  TableInv'
  BY DEF TableInv, PageExists

\* A poll puts a list of rows on the wire.
LEMMA PollKeepsTypes ==
    ASSUME AlertTypes, PollAlerts
    PROVE  AlertTypes'
  <1> DEFINE Unseen(rows) ==
               Pick(rows, {i \in DOMAIN rows : \A q \in cpSeen : key(q) # key(rows[i])})
  <1>1. PICK skipped \in SUBSET Rules :
          \E rows \in {fetch_all_fired(skipped)} : \E new \in {Unseen(rows)} :
            LET sent == wire \o new
                kept == IF Len(sent) <= AlertCapacity THEN sent
                        ELSE SubSeq(sent, Len(sent) - AlertCapacity + 1, Len(sent))
            IN wire' = kept \/ wire' = wire
    BY DEF PollAlerts
  <1> DEFINE rows == fetch_all_fired(skipped)
             new == Unseen(rows)
             sent == wire \o new
             kept == IF Len(sent) <= AlertCapacity THEN sent
                     ELSE SubSeq(sent, Len(sent) - AlertCapacity + 1, Len(sent))
  <1>2. wire' = kept \/ wire' = wire
    BY <1>1
  <1>3. rows \in Seq(Nat)
    BY FetchType
  <1>4. new \in Seq(Nat)
    <2> HIDE DEF rows
    <2> QED BY <1>3, PickGives
  <1>5. sent \in Seq(Nat)
    <2> HIDE DEF new
    <2> QED BY <1>4 DEF AlertTypes
  <1>6. kept \in Seq(Nat)
    <2> HIDE DEF sent
    <2>1. AlertCapacity \in Nat \ {0} /\ Len(sent) \in Nat
      BY <1>5, AlertConstants
    <2>2. CASE ~(Len(sent) <= AlertCapacity)
      <3> DEFINE m == Len(sent) - AlertCapacity + 1
      <3>1. m \in Int /\ Len(sent) \in Int /\ m >= 1
        BY <2>1, <2>2
      <3>2. \A i \in m..Len(sent) : sent[i] \in Nat
        BY <1>5, <2>1, <3>1
      <3> HIDE DEF m
      <3>3. SubSeq(sent, m, Len(sent)) \in Seq(Nat)
        BY <3>1, <3>2, SubSeqProperties
      <3> QED BY <2>2, <3>3 DEF m
    <2> QED BY <1>5, <2>2
  <1> HIDE DEF kept
  <1>7. UNCHANGED <<firedRows, newAlerts, initialAlerts, pageIndex>>
    BY DEF PollAlerts, render, table
  <1> QED BY <1>2, <1>6, <1>7 DEF AlertTypes

\* The render of a page is a list of alerts.
LEMMA OpenKeepsTypes ==
    ASSUME AlertTypes, NEW page, OpenAlerts(page)
    PROVE  AlertTypes'
  <1>1. UNCHANGED <<firedRows, newAlerts, wire, pageIndex>>
    BY DEF OpenAlerts, control, table
  <1>2. initialAlerts' \in Seq(Alert)
    <2>1. \/ \E skipped \in SUBSET Rules : \E persisted \in PersistedCases :
               initialAlerts' = enrichAlerts(fetch_all_fired(skipped), persisted)
          \/ initialAlerts' = <<>>
      BY DEF OpenAlerts, Rendered, Offline
    <2>2. ASSUME NEW skipped, NEW persisted
          PROVE  enrichAlerts(fetch_all_fired(skipped), persisted) \in Seq(Alert)
      <3> DEFINE rows == fetch_all_fired(skipped)
      <3>1. rows \in Seq(Nat)
        BY FetchType
      <3> HIDE DEF rows
      <3>2. /\ Len(rows) \in Nat /\ DOMAIN rows = 1..Len(rows)
            /\ \A i \in DOMAIN rows : rows[i] \in Nat
        BY <3>1
      <3>3. \A i \in DOMAIN rows : mergePersistedCase(rows[i], persisted) \in Alert
        <4> SUFFICES ASSUME NEW i \in DOMAIN rows
                     PROVE  mergePersistedCase(rows[i], persisted) \in Alert
          OBVIOUS
        <4> DEFINE said == persisted[EventOf(rows[i])]
        <4>1. (IF said \in {"running", "complete"} THEN said ELSE "idle") \in {"idle", "running", "complete"}
          OBVIOUS
        <4> HIDE DEF said
        <4>2. mergePersistedCase(rows[i], persisted) =
                [row |-> rows[i], agent |-> IF said \in {"running", "complete"} THEN said ELSE "idle"]
          BY DEF mergePersistedCase, said
        <4> QED BY <3>2, <4>1, <4>2 DEF Alert
      <3>4. enrichAlerts(rows, persisted) \in Seq(Alert)
        BY <3>2, <3>3 DEF enrichAlerts
      <3> QED BY <3>4 DEF rows
    <2>3. <<>> \in Seq(Alert)
      OBVIOUS
    <2> QED BY <2>1, <2>2, <2>3
  <1> QED BY <1>1, <1>2 DEF AlertTypes

\* The buttons of the footer turn to a page of the table.
LEMMA TurnKeeps ==
    ASSUME TableInv, TurnPage
    PROVE  TableInv'
  <1>1. AlertTypes /\ PageCount \in Nat
    BY PageCountType DEF TableInv
  <1>2. UNCHANGED <<firedRows, wire, newAlerts, initialAlerts, alertPage, tab, search>>
    BY DEF TurnPage, pageState, control, link, render
  <1>3. PageCount' = PageCount
    BY <1>2, SamePages DEF tableRows
  <1>4. pageIndex' \in Nat /\ (pageIndex' # 0 => pageIndex' < PageCount)
    BY <1>1 DEF TurnPage, TableInv, PageExists, AlertTypes
  <1>5. alertPage # "none"
    BY DEF TurnPage, TableShown
  <1> QED BY <1>1, <1>2, <1>3, <1>4, <1>5 DEF TableInv, PageExists, AlertTypes

\* Every step of the alerts' pages leaves the reader on a page of the table.
LEMMA TableStep ==
    ASSUME TableInv, [AlertNext]_alertVars
    PROVE  TableInv'
  <1> USE DEF control, link, render, table, alertBounds
  <1>0. AlertTypes
    BY DEF TableInv
  <1>1. CASE FireRow
    <2>1. AlertTypes' /\ UNCHANGED <<tableRows, pageIndex>>
      BY <1>0, <1>1 DEF FireRow, AlertTypes, tableRows
    <2> QED BY <2>1, TableRests
  <1>2. CASE CpReady
    <2>1. AlertTypes' /\ UNCHANGED <<tableRows, pageIndex>>
      BY <1>0, <1>2 DEF CpReady, AlertTypes, tableRows
    <2> QED BY <2>1, TableRests
  <1>3. CASE PollAlerts
    <2>1. AlertTypes' /\ UNCHANGED <<tableRows, pageIndex>>
      BY <1>0, <1>3, PollKeepsTypes DEF PollAlerts, tableRows
    <2> QED BY <2>1, TableRests
  <1>4. CASE CpCrash \/ AlertsDrop
    <2>1. AlertTypes' /\ UNCHANGED <<tableRows, pageIndex>>
      <3>1. /\ wire' = <<>>
            /\ UNCHANGED <<firedRows, newAlerts, initialAlerts, alertPage, tab, search, pageIndex>>
        <4>1. CASE CpCrash
          BY <4>1 DEF CpCrash
        <4>2. CASE AlertsDrop
          BY <4>2 DEF AlertsDrop
        <4> QED BY <1>4, <4>1, <4>2
      <3>2. wire' \in Seq(Nat)
        BY <3>1
      <3> QED BY <1>0, <3>1, <3>2 DEF AlertTypes, tableRows
    <2> QED BY <2>1, TableRests
  <1>5. ASSUME NEW page \in {"queue", "cases"}, OpenAlerts(page) PROVE TableInv'
    <2>1. AlertTypes' /\ pageIndex' = 0
      BY <1>0, <1>5, OpenKeepsTypes DEF OpenAlerts, TableInv
    <2> QED BY <2>1, TableResets
  <1>6. CASE OpenDetections
    <2>1. AlertTypes' /\ pageIndex' = 0
      BY <1>0, <1>6 DEF OpenDetections, TableInv, AlertTypes
    <2> QED BY <2>1, TableResets
  <1>7. CASE LeaveAlerts
    <2>1. AlertTypes' /\ pageIndex' = 0
      <3>1. /\ wire' = <<>> /\ newAlerts' = <<>> /\ initialAlerts' = <<>> /\ pageIndex' = 0
            /\ firedRows' = firedRows
        BY <1>7 DEF LeaveAlerts
      <3>2. wire' \in Seq(Nat) /\ newAlerts' \in Seq(Nat) /\ initialAlerts' \in Seq(Alert)
        BY <3>1
      <3> QED BY <1>0, <3>1, <3>2 DEF AlertTypes
    <2> QED BY <2>1, TableResets
  <1>8. CASE AlertsOpen \/ AlertsClosed
    <2>1. AlertTypes' /\ pageIndex' = 0
      BY <1>0, <1>8 DEF AlertsOpen, AlertsClosed, FirstPage, AutoReset, AlertTypes
    <2> QED BY <2>1, TableResets
  <1>9. CASE Subscribe \/ AlertsRefused \/ AlertsRetry
    <2>1. AlertTypes' /\ UNCHANGED <<tableRows, pageIndex>>
      BY <1>0, <1>9 DEF Subscribe, AlertsRefused, AlertsRetry, AlertTypes, tableRows
    <2> QED BY <2>1, TableRests
  <1>10. CASE OnAlert
    <2>1. wire # <<>> /\ wire \in Seq(Nat)
      BY <1>0, <1>10 DEF OnAlert, AlertTypes
    <2>2. Head(wire) \in Nat /\ wire' \in Seq(Nat) /\ UNCHANGED <<firedRows, initialAlerts, alertPage>>
      BY <1>10, <2>1 DEF OnAlert
    <2>3. CASE UNCHANGED <<newAlerts, table>>
      <3>1. AlertTypes' /\ UNCHANGED <<tableRows, pageIndex>>
        BY <1>0, <2>2, <2>3 DEF AlertTypes, tableRows
      <3> QED BY <3>1, TableRests
    <2>4. CASE newAlerts' = <<Head(wire)>> \o newAlerts /\ FirstPage
      <3>1. newAlerts' \in Seq(Nat)
        BY <1>0, <2>2, <2>4 DEF AlertTypes
      <3>2. AlertTypes' /\ pageIndex' = 0
        BY <1>0, <2>2, <2>4, <3>1 DEF FirstPage, AutoReset, AlertTypes
      <3> QED BY <3>2, TableResets
    <2> QED BY <1>10, <2>3, <2>4 DEF OnAlert
  <1>11. CASE SwitchTab \/ SetFilter \/ ToggleSorting
    <2>1. AlertTypes' /\ pageIndex' = 0
      <3>1. pageIndex' = 0 /\ UNCHANGED <<firedRows, wire, newAlerts, initialAlerts>>
        <4>1. CASE SwitchTab
          BY <4>1 DEF SwitchTab, AutoReset, pageState
        <4>2. CASE SetFilter
          BY <4>2 DEF SetFilter, AutoReset, pageState
        <4>3. CASE ToggleSorting
          BY <4>3 DEF ToggleSorting, AutoReset, pageState
        <4> QED BY <1>11, <4>1, <4>2, <4>3
      <3> QED BY <1>0, <3>1 DEF AlertTypes
    <2> QED BY <2>1, TableResets
  <1>12. CASE TurnPage
    BY <1>12, TurnKeeps
  <1>13. CASE UNCHANGED alertVars
    <2>1. AlertTypes' /\ UNCHANGED <<tableRows, pageIndex>>
      BY <1>0, <1>13 DEF alertVars, AlertTypes, tableRows
    <2> QED BY <2>1, TableRests
  <1> QED BY <1>1, <1>2, <1>3, <1>4, <1>5, <1>6, <1>7, <1>8, <1>9, <1>10, <1>11, <1>12, <1>13
          DEF AlertNext, AlertLink, TableSteps

\* alert-queue.tsx: whatever a live alert, a tab, a filter, the order or the connection does to
\* the table, a reader of a table with rows sees some.
THEOREM ReaderSeesRows == Spec => []PageHasRows
  <1>1. Init => TableInv
    <2> SUFFICES ASSUME Init PROVE TableInv
      OBVIOUS
    <2>1. /\ wire = <<>> /\ newAlerts = <<>> /\ initialAlerts = <<>>
          /\ firedRows = 0 /\ pageIndex = 0
      BY DEF Init, AlertInit
    <2>2. wire \in Seq(Nat) /\ newAlerts \in Seq(Nat) /\ initialAlerts \in Seq(Alert)
      BY <2>1
    <2> QED BY <2>1, <2>2 DEF TableInv, AlertTypes, PageExists
  <1>2. TableInv /\ [Next]_livePagesVars => TableInv'
    BY TableStep, StepsOfTheTrace
  <1>3. TableInv => PageHasRows
    <2> SUFFICES ASSUME TableInv, Filtered # <<>> PROVE PageRows(Filtered) # <<>>
      BY DEF PageHasRows
    <2> DEFINE all == Filtered
               ordered == IF sorting THEN Sorted(all) ELSE all
               first == pageIndex * PageSize
               last == (pageIndex + 1) * PageSize
               end == IF last < Len(all) THEN last ELSE Len(all)
    <2>1. all \in Seq(Alert) /\ Len(all) \in Nat /\ Len(all) # 0
      BY FilteredType DEF TableInv
    <2>2. pageIndex \in Nat /\ PageSize \in Nat \ {0}
      BY AlertConstants DEF TableInv, AlertTypes
    <2>3. first \in Nat /\ last \in Nat /\ first < last
      <3>1. first \in Nat /\ last = first + PageSize
        BY <2>2
      <3> HIDE DEF first, last
      <3> QED BY <2>2, <3>1
    <2>4. first < Len(all)
      <3>1. CASE pageIndex = 0
        BY <2>1, <2>2, <3>1
      <3>2. CASE pageIndex # 0
        <4>1. pageIndex < (Len(all) + PageSize - 1) \div PageSize
          BY <3>2 DEF TableInv, PageExists, PageCount
        <4> QED BY <2>1, <2>2, <4>1, RoundedUp
      <3> QED BY <3>1, <3>2
    <2> HIDE DEF all, first, last
    <2>5. first + 1 \in Int /\ end \in Int /\ first + 1 <= end
      BY <2>1, <2>3, <2>4
    <2>6. PageRows(all) = SubSeq(ordered, first + 1, end)
      BY DEF PageRows, first, last
    <2> DEFINE Items == {ordered[i] : i \in (first + 1)..end}
               page == SubSeq(ordered, first + 1, end)
    <2>7. \A i \in (first + 1)..end : ordered[i] \in Items
      OBVIOUS
    <2> HIDE DEF ordered, end, Items
    <2>8. page \in Seq(Items) /\ Len(page) = end - (first + 1) + 1
      BY <2>5, <2>7, SubSeqProperties
    <2> HIDE DEF page
    <2>9. page # <<>>
      BY <2>5, <2>3, <2>8
    <2> QED BY <2>6, <2>9 DEF page, all
  <1> QED BY <1>1, <1>2, <1>3, PTL DEF Spec

-----------------------------------------------------------------------------
\* The simulation lab.

Replies == [collector : BOOLEAN, ids : BOOLEAN, orchestrator : BOOLEAN]

SimTypes ==
    /\ sim \in [Sims -> {"new", "ingest", "triage", "reply", "first", "done"}]
    /\ reply \in [Sims -> Replies] /\ landed \in [Sims -> SUBSET EventChecks]
    /\ polls \subseteq Sims /\ intervals \subseteq Sims
    /\ pollRef \in Sims \cup {0} /\ hotOf \in Sims \cup {0}
    /\ runState \in {"idle", "running", "done", "error"}
    /\ memory \in [of : Sims \cup {0}, ok : SUBSET Checks]
    /\ simError \in BOOLEAN /\ overtaken \in BOOLEAN /\ simMounted \in BOOLEAN

Asked(s) == sim[s] \in {"ingest", "triage", "reply"}
Going(s) == Asked(s) \/ sim[s] = "first"

\* What the page shows of a run is of a run that was answered, whatever overtook it.
Shows ==
    /\ \A s \in intervals \cup polls : sim[s] \in {"first", "done"}
    /\ \A s \in Sims : sim[s] = "first" => s \in polls
    /\ hotOf # 0 => sim[hotOf] \in {"first", "done"}
    /\ runState = "done" /\ hotOf # 0 => Succeeded(hotOf)
    /\ runState = "error" /\ hotOf = 0 => simError

\* Where no run was overtaken there is one at a time: its interval is the one the page knows
\* of, nothing is shown of it before it is answered, and polling is for the run that is shown.
Orderly ==
    /\ intervals \subseteq {pollRef}
    /\ \A s, t \in Sims : Going(s) /\ Going(t) => s = t
    /\ \A s \in Sims : Going(s) => intervals = {} /\ memory.of = 0 /\ ~simError
    /\ \A s \in Sims : Asked(s) => polls = {} /\ hotOf = 0
    /\ \A s \in Sims : sim[s] = "first" => polls = {s}
    /\ simMounted => \A s \in polls \cup intervals : hotOf = s
    /\ memory.of # 0 => memory.of = hotOf /\ memory.ok \cap EventChecks \subseteq landed[hotOf]
    /\ simError => hotOf = 0

SimInv == SimTypes /\ Shows /\ (overtaken \/ Orderly)

\* A scenario is selected or a run started: what is pending overtakes it.
LEMMA ResetKeeps ==
    ASSUME SimInv, Reset, UNCHANGED <<outside, polls, simMounted>>, runState' \in {"idle", "running"},
           UNCHANGED sim \/ \E s \in Sims : sim[s] = "new" /\ sim' = [sim EXCEPT ![s] = "ingest"]
    PROVE  SimInv'
  <1>1. /\ SimTypes /\ Shows
        /\ hotOf' = 0 /\ memory' = NoMemory /\ simError' = FALSE
        /\ intervals' = intervals \ {pollRef} /\ pollRef' = 0
        /\ overtaken' = (overtaken \/ Pending)
    BY DEF SimInv, Reset
  <1>2. SimTypes'
    BY <1>1 DEF SimTypes, NoMemory, outside
  <1>3. Shows'
    BY <1>1 DEF Shows, SimTypes
  <1>4. ASSUME ~overtaken' PROVE Orderly'
    <2>1. Orderly /\ ~Pending
      BY <1>1, <1>4 DEF SimInv
    <2>2. /\ intervals' = {} /\ polls' = {} /\ memory'.of = 0
          /\ \A s \in Sims : ~Going(s)
      BY <1>1, <2>1 DEF Orderly, Pending, Going, Asked, NoMemory
    <2>3. /\ \A s, t \in Sims : Going(s)' /\ Going(t)' => s = t
          /\ \A s \in Sims : sim'[s] # "first"
      BY <1>1, <2>2 DEF Going, Asked, SimTypes
    <2> QED BY <1>1, <2>2, <2>3 DEF Orderly
  <1> QED BY <1>2, <1>3, <1>4 DEF SimInv

\* The steps of a run on the server.
LEMMA ServerKeeps ==
    ASSUME SimInv, NEW s \in Sims, Ingest(s) \/ Investigate(s)
    PROVE  SimInv'
  <1>1. /\ SimTypes /\ Shows /\ Asked(s)
        /\ UNCHANGED <<landed, polls, intervals, pollRef, runState, hotOf, memory, simError,
                       simMounted, overtaken>>
        /\ sim' \in {[sim EXCEPT ![s] = "triage"], [sim EXCEPT ![s] = "reply"]}
    BY DEF SimInv, Ingest, Investigate, Asked
  <1>2. reply' \in [Sims -> Replies] /\ \A t \in Sims : t # s => reply'[t] = reply[t]
    <2>1. PICK old \in Replies : old = reply[s]
      BY <1>1 DEF SimTypes
    <2>2. \/ reply' = reply
          \/ reply' = [reply EXCEPT ![s] = [[old EXCEPT !.collector = TRUE] EXCEPT !.ids = TRUE]]
          \/ reply' = [reply EXCEPT ![s] = [old EXCEPT !.collector = TRUE]]
          \/ reply' = [reply EXCEPT ![s] = [old EXCEPT !.orchestrator = TRUE]]
      BY <1>1, <2>1 DEF Ingest, Investigate, SimTypes
    <2>3. /\ [[old EXCEPT !.collector = TRUE] EXCEPT !.ids = TRUE] \in Replies
          /\ [old EXCEPT !.collector = TRUE] \in Replies
          /\ [old EXCEPT !.orchestrator = TRUE] \in Replies
      BY DEF Replies
    <2>4. reply' = reply \/ \E new \in Replies : reply' = [reply EXCEPT ![s] = new]
      <3> DEFINE both == [[old EXCEPT !.collector = TRUE] EXCEPT !.ids = TRUE]
                 collected == [old EXCEPT !.collector = TRUE]
                 investigated == [old EXCEPT !.orchestrator = TRUE]
      <3>1. both \in Replies /\ collected \in Replies /\ investigated \in Replies
        BY <2>3
      <3>2. \/ reply' = reply \/ reply' = [reply EXCEPT ![s] = both]
            \/ reply' = [reply EXCEPT ![s] = collected] \/ reply' = [reply EXCEPT ![s] = investigated]
        BY <2>2
      <3> HIDE DEF both, collected, investigated
      <3> QED BY <3>1, <3>2
    <2> QED BY <1>1, <2>4 DEF SimTypes
  <1>3. SimTypes'
    BY <1>1, <1>2 DEF SimTypes
  <1>4. Shows'
    <2>1. hotOf # 0 => hotOf # s /\ hotOf \in Sims
      BY <1>1 DEF Shows, Asked, SimTypes
    <2>2. runState' = "done" /\ hotOf' # 0 => Succeeded(hotOf)'
      BY <1>1, <1>2, <2>1 DEF Shows, Succeeded
    <2> QED BY <1>1, <2>1, <2>2 DEF Shows, SimTypes, Asked
  <1>5. Orderly => Orderly'
    BY <1>1 DEF Orderly, Going, Asked, SimTypes
  <1> QED BY <1>1, <1>3, <1>4, <1>5 DEF SimInv

\* The response arrives, or the request fails.
LEMMA ReplyKeeps ==
    ASSUME SimInv, NEW s \in Sims, SimReply(s)
    PROVE  SimInv'
  <1>1. /\ SimTypes /\ Shows /\ Asked(s) /\ sim[s] = "reply"
        /\ UNCHANGED <<reply, landed, intervals, pollRef, memory, simError, simMounted, overtaken>>
    BY DEF SimInv, SimReply, Asked, outside, simBounds
  <1>2. /\ \/ sim' = [sim EXCEPT ![s] = "first"] /\ polls' = polls \cup {s}
           \/ sim' = [sim EXCEPT ![s] = "done"] /\ polls' = polls
        /\ simMounted => hotOf' = s /\ runState' = IF Succeeded(s) THEN "done" ELSE "error"
        /\ ~simMounted => UNCHANGED <<hotOf, runState>>
    BY DEF SimReply
  <1>3. s # 0
    BY SimConstants DEF Sims
  <1>4. SimTypes'
    BY <1>1, <1>2 DEF SimTypes
  <1>5. Shows'
    <2>1. runState' = "done" /\ hotOf' # 0 => Succeeded(hotOf)'
      BY <1>1, <1>2 DEF Shows, Succeeded
    <2> QED BY <1>1, <1>2, <1>3, <2>1 DEF Shows, SimTypes
  <1>6. Orderly => Orderly'
    <2>1. SUFFICES ASSUME Orderly PROVE Orderly'
      OBVIOUS
    <2>2. /\ polls = {} /\ hotOf = 0 /\ intervals = {} /\ memory.of = 0 /\ ~simError
          /\ \A t \in Sims : Going(t) => t = s
      BY <1>1, <2>1 DEF Orderly, Going
    <2>3. \A t \in Sims : Going(t)' => t = s /\ sim'[t] = "first" /\ polls' = {s}
      BY <1>1, <1>2, <2>2 DEF Going, Asked, SimTypes
    <2>4. polls' \subseteq {s}
      BY <1>2, <2>2
    <2> QED BY <1>1, <1>2, <2>2, <2>3, <2>4 DEF Orderly, Going, Asked
  <1> QED BY <1>1, <1>4, <1>5, <1>6 DEF SimInv

\* The request of a run fails.
LEMMA FailureKeeps ==
    ASSUME SimInv, NEW s \in Sims, SimFails(s)
    PROVE  SimInv'
  <1>1. /\ SimTypes /\ Shows /\ Asked(s) /\ sim' = [sim EXCEPT ![s] = "done"]
        /\ UNCHANGED <<reply, landed, polls, intervals, pollRef, hotOf, memory, simMounted, overtaken>>
        /\ \/ runState' = "error" /\ simError' = TRUE
           \/ UNCHANGED <<runState, simError>>
    BY DEF SimInv, SimFails, Asked, outside
  <1>2. SimTypes'
    BY <1>1 DEF SimTypes
  <1>3. Shows'
    <2>1. runState' = "done" /\ hotOf' # 0 => Succeeded(hotOf)'
      BY <1>1 DEF Shows, Succeeded
    <2>2. runState' = "error" /\ hotOf' = 0 => simError'
      BY <1>1 DEF Shows
    <2> QED BY <1>1, <2>1, <2>2 DEF Shows, SimTypes
  <1>4. Orderly => Orderly'
    <2>1. SUFFICES ASSUME Orderly PROVE Orderly'
      OBVIOUS
    <2>2. polls = {} /\ hotOf = 0 /\ \A t \in Sims : Going(t) => t = s
      BY <1>1, <2>1 DEF Orderly, Going
    <2>3. \A t \in Sims : ~Going(t)'
      BY <1>1, <2>2 DEF Going, Asked, SimTypes
    <2> QED BY <1>1, <2>1, <2>2, <2>3 DEF Orderly, Going
  <1> QED BY <1>1, <1>2, <1>3, <1>4 DEF SimInv

\* A request to verify is answered, or fails: the first one of a run starts its interval.
LEMMA PollKeeps ==
    ASSUME SimInv, NEW s \in Sims, PollFails(s) \/ \E ok \in SUBSET Checks : PollAnswered(s, ok)
    PROVE  SimInv'
  <1>1. /\ SimTypes /\ Shows /\ s \in polls /\ polls' = polls \ {s}
        /\ sim' = [sim EXCEPT ![s] = "done"]
        /\ UNCHANGED <<reply, landed, runState, hotOf, simError, simMounted, overtaken>>
    BY DEF SimInv, PollFails, PollAnswered, outside
  <1>2. \/ memory' = memory
        \/ \E ok \in SUBSET Checks : /\ ok \cap EventChecks \subseteq landed[s]
                                     /\ simMounted /\ memory' = [of |-> s, ok |-> ok]
    <2>1. ASSUME NEW ok \in SUBSET Checks, PollAnswered(s, ok)
          PROVE  ok \cap EventChecks \subseteq landed[s]
      <3>1. ok \subseteq landed[s] \cup {"mcp", "risingwave"}
        BY <2>1 DEF PollAnswered, Verify, Passed
      <3>2. "mcp" \notin EventChecks /\ "risingwave" \notin EventChecks
        BY SimConstants
      <3> QED BY <3>1, <3>2
    <2> QED BY <2>1 DEF PollFails, PollAnswered
  <1>3. \/ /\ sim[s] = "first" /\ pollRef' = s
           /\ intervals' \in {intervals \cup {s}, (intervals \ {pollRef}) \cup {s}}
        \/ /\ sim[s] # "first"
           /\ \/ UNCHANGED <<intervals, pollRef>>
              \/ intervals' = intervals \ {pollRef} /\ pollRef' = 0
    BY DEF PollFails, PollAnswered
  <1>4. SimTypes'
    <2>1. memory' \in [of : Sims \cup {0}, ok : SUBSET Checks]
      BY <1>1, <1>2 DEF SimTypes
    <2>2. intervals' \subseteq Sims /\ pollRef' \in Sims \cup {0}
      BY <1>1, <1>3 DEF SimTypes
    <2> QED BY <1>1, <2>1, <2>2 DEF SimTypes
  <1>5. Shows'
    <2>1. runState' = "done" /\ hotOf' # 0 => Succeeded(hotOf)'
      BY <1>1 DEF Shows, Succeeded
    <2>2. \A t \in intervals' \cup polls' : t = s \/ t \in intervals \cup polls
      BY <1>1, <1>3
    <2> QED BY <1>1, <2>1, <2>2 DEF Shows, SimTypes
  <1>6. Orderly => Orderly'
    <2>1. SUFFICES ASSUME Orderly PROVE Orderly'
      OBVIOUS
    <2>2. \A t \in Sims : Going(t) => t = s
      BY <1>1, <2>1 DEF Orderly, Going
    <2>3. \A t \in Sims : ~Going(t)' /\ ~Asked(t)' /\ sim'[t] # "first"
      BY <1>1, <2>2 DEF Going, Asked, SimTypes
    <2>4. intervals' \subseteq {pollRef'}
      BY <1>3, <2>1 DEF Orderly, Going
    <2>5. simMounted => hotOf = s
      BY <1>1, <2>1 DEF Orderly
    <2>6. simMounted' => \A t \in polls' \cup intervals' : hotOf' = t
      <3>1. \A t \in polls' \cup intervals' : t = s \/ t \in polls \cup intervals
        BY <1>1, <1>3
      <3> QED BY <1>1, <2>1, <2>5, <3>1 DEF Orderly
    <2>7. memory'.of # 0 => memory'.of = hotOf' /\ memory'.ok \cap EventChecks \subseteq landed'[hotOf']
      BY <1>1, <1>2, <2>1, <2>5 DEF Orderly
    <2>8. simError' => hotOf' = 0
      BY <1>1, <2>1 DEF Orderly
    <2> QED BY <2>3, <2>4, <2>6, <2>7, <2>8 DEF Orderly
  <1> QED BY <1>1, <1>4, <1>5, <1>6 DEF SimInv

\* Every step of the lab keeps its invariant.
LEMMA SimStep ==
    ASSUME SimInv, [SimNext]_simVars
    PROVE  SimInv'
  <1>1. SimTypes /\ Shows /\ (overtaken \/ Orderly)
    BY DEF SimInv
  <1>2. ASSUME NEW x, selectScenario(x) PROVE SimInv'
    BY <1>2, ResetKeeps DEF selectScenario
  <1>3. ASSUME NEW s \in Sims, runSimulation(s) PROVE SimInv'
    BY <1>3, ResetKeeps DEF runSimulation
  <1>4. CASE SimUnmount
    <2>1. /\ UNCHANGED <<sim, reply, landed, polls, pollRef, overtaken>> /\ simMounted' = FALSE
          /\ intervals' = intervals \ {pollRef} /\ runState' = "idle" /\ hotOf' = 0
          /\ memory' = NoMemory /\ simError' = FALSE
      BY <1>4 DEF SimUnmount, outside, simBounds
    <2>2. SimTypes'
      BY <1>1, <2>1 DEF SimTypes, NoMemory
    <2>3. Shows'
      BY <1>1, <2>1 DEF Shows
    <2>4. Orderly => Orderly'
      BY <2>1 DEF Orderly, Going, Asked, NoMemory
    <2> QED BY <1>1, <2>1, <2>2, <2>3, <2>4 DEF SimInv
  <1>5. ASSUME NEW s \in Sims, PollTick(s) PROVE SimInv'
    <2>1. /\ UNCHANGED <<sim, reply, landed, intervals, pollRef, runState, hotOf, memory, simError,
                         simMounted, overtaken>>
          /\ s \in intervals /\ polls' = polls \cup {s}
      BY <1>5 DEF PollTick, outside, simBounds
    <2>2. SimTypes'
      BY <1>1, <2>1 DEF SimTypes
    <2>3. Shows'
      BY <1>1, <2>1 DEF Shows, Succeeded
    <2>4. Orderly => Orderly'
      <3>1. SUFFICES ASSUME Orderly PROVE Orderly'
        OBVIOUS
      <3>2. \A t \in Sims : ~Going(t)
        BY <2>1, <3>1 DEF Orderly
      <3> QED BY <2>1, <3>1, <3>2 DEF Orderly, Going, Asked
    <2> QED BY <1>1, <2>1, <2>2, <2>3, <2>4 DEF SimInv
  <1>6. ASSUME NEW s \in Sims, NEW k \in EventChecks, Land(s, k) PROVE SimInv'
    <2>1. /\ UNCHANGED <<sim, reply, polls, intervals, pollRef, runState, hotOf, memory, simError,
                         simMounted, overtaken>>
          /\ landed' = [landed EXCEPT ![s] = @ \cup {k}]
      BY <1>6 DEF Land, simBounds
    <2>2. landed' \in [Sims -> SUBSET EventChecks] /\ \A t \in Sims : landed[t] \subseteq landed'[t]
      BY <1>1, <2>1 DEF SimTypes
    <2>3. SimTypes'
      BY <1>1, <2>1, <2>2 DEF SimTypes
    <2>4. Shows'
      BY <1>1, <2>1 DEF Shows, Succeeded
    <2>5. Orderly => Orderly'
      <3>1. SUFFICES ASSUME Orderly PROVE Orderly'
        OBVIOUS
      <3>2. memory.of \in Sims \cup {0}
        BY <1>1 DEF SimTypes
      <3>3. memory'.of # 0 => memory'.of = hotOf' /\ memory'.ok \cap EventChecks \subseteq landed'[hotOf']
        BY <2>1, <2>2, <3>1, <3>2 DEF Orderly
      <3> QED BY <2>1, <3>1, <3>3 DEF Orderly, Going, Asked
    <2> QED BY <1>1, <2>1, <2>3, <2>4, <2>5 DEF SimInv
  <1>7. ASSUME UNCHANGED <<sim, reply, landed, polls, intervals, pollRef, runState, hotOf, memory,
                           simError, simMounted, overtaken>>
        PROVE  SimInv'
    BY <1>1, <1>7 DEF SimInv, SimTypes, Shows, Succeeded, Orderly, Going, Asked
  <1>8. CASE PollTimeout \/ UNCHANGED simVars
    BY <1>7, <1>8 DEF PollTimeout, simVars, outside, simBounds
  <1> QED BY <1>2, <1>3, <1>4, <1>5, <1>6, <1>8, ServerKeeps, ReplyKeeps, FailureKeeps, PollKeeps
       DEF SimNext, SimSteps

\* The lab on its own; Labs, which stays on one page, adds nothing to it.
SimSpec == SimInit /\ [][SimNext]_simVars

\* One run after the other, with its interval, its answers and its verdict.
THEOREM SimInvariant == SimSpec => []SimInv
  <1>1. SimInit => SimInv
    <2>1. SUFFICES ASSUME SimInit PROVE SimInv
      OBVIOUS
    <2>2. NoReply \in Replies /\ NoMemory \in [of : Sims \cup {0}, ok : SUBSET Checks] /\ NoMemory.of = 0
      BY DEF NoReply, NoMemory, Replies
    <2>3. SimTypes
      BY <2>1, <2>2 DEF SimInit, SimTypes
    <2>4. Shows
      BY <2>1 DEF SimInit, Shows
    <2>5. Orderly
      BY <2>1, <2>2 DEF SimInit, Orderly, Going, Asked
    <2> QED BY <2>3, <2>4, <2>5 DEF SimInv
  <1>2. SimInv /\ [SimNext]_simVars => SimInv'
    BY SimStep
  <1> QED BY <1>1, <1>2, PTL DEF SimSpec

\* A run that is under way or shown is of the scenario that is selected, unless it was
\* overtaken: selecting hides the one that is shown.
OfScenario ==
    /\ selected \in DOMAIN SCENARIOS /\ ranAs \in [Sims -> DOMAIN SCENARIOS]
    /\ \/ overtaken
       \/ \A s \in Sims : Asked(s) \/ s = hotOf => ranAs[s] = selected

\* Every step of the lab keeps it.
LEMMA ScenarioStep ==
    ASSUME SimInv, OfScenario, [SimNext]_simVars
    PROVE  OfScenario'
  <1>1. SimTypes /\ 0 \notin Sims
    BY SimConstants DEF SimInv, Sims
  <1>2. ASSUME Reset, ~overtaken' PROVE hotOf' = 0 /\ \A s \in Sims : ~Asked(s)
    BY <1>2 DEF Reset, Pending, Asked
  <1>3. ASSUME NEW x \in ToSet(Offered), selectScenario(x) PROVE OfScenario'
    <2>1. x \in DOMAIN SCENARIOS
      BY SimConstants DEF ToSet
    <2>2. Reset /\ selected' = x /\ UNCHANGED <<ranAs, sim>>
      BY <1>3 DEF selectScenario
    <2> QED BY <1>1, <1>2, <2>1, <2>2 DEF OfScenario, Asked
  <1>4. ASSUME NEW s \in Sims, runSimulation(s) PROVE OfScenario'
    <2>1. /\ Reset /\ selected' = selected
          /\ ranAs' = [ranAs EXCEPT ![s] = selected] /\ sim' = [sim EXCEPT ![s] = "ingest"]
      BY <1>4 DEF runSimulation
    <2> QED BY <1>1, <1>2, <2>1 DEF OfScenario, Asked, SimTypes
  <1>5. ASSUME NEW s \in Sims, SimReply(s) PROVE OfScenario'
    <2>1. /\ UNCHANGED <<selected, ranAs, overtaken>> /\ hotOf' \in {hotOf, s} /\ Asked(s)
          /\ sim' \in {[sim EXCEPT ![s] = "first"], [sim EXCEPT ![s] = "done"]}
      BY <1>5 DEF SimReply, picked, simBounds, Asked
    <2> QED BY <1>1, <2>1 DEF OfScenario, Asked, SimTypes
  <1>6. ASSUME /\ UNCHANGED <<selected, ranAs, overtaken>> /\ hotOf' \in {hotOf, 0}
               /\ \A s \in Sims : Asked(s)' => Asked(s)
        PROVE  OfScenario'
    BY <1>1, <1>6 DEF OfScenario
  <1>7. ASSUME NEW s \in Sims, Ingest(s) \/ Investigate(s) PROVE OfScenario'
    <2>1. /\ UNCHANGED <<selected, ranAs, overtaken, hotOf>> /\ Asked(s)
          /\ sim' \in {[sim EXCEPT ![s] = "triage"], [sim EXCEPT ![s] = "reply"]}
      BY <1>7 DEF Ingest, Investigate, picked, Asked
    <2> QED BY <1>1, <1>6, <2>1 DEF Asked, SimTypes
  <1>8. ASSUME NEW s \in Sims,
               SimFails(s) \/ PollFails(s) \/ \E ok \in SUBSET Checks : PollAnswered(s, ok)
        PROVE  OfScenario'
    <2>1. /\ UNCHANGED <<selected, ranAs, overtaken, hotOf>>
          /\ sim' = [sim EXCEPT ![s] = "done"]
      BY <1>8 DEF SimFails, PollFails, PollAnswered, picked
    <2> QED BY <1>1, <1>6, <2>1 DEF Asked, SimTypes
  <1>9. ASSUME NEW s \in Sims, PollTick(s) \/ \E k \in EventChecks : Land(s, k)
        PROVE  OfScenario'
    BY <1>6, <1>9 DEF PollTick, Land, picked, simBounds, Asked
  <1>10. CASE SimUnmount \/ PollTimeout \/ UNCHANGED simVars
    BY <1>6, <1>10 DEF SimUnmount, PollTimeout, simVars, picked, simBounds, Asked
  <1> QED BY <1>3, <1>4, <1>5, <1>7, <1>8, <1>9, <1>10 DEF SimNext, SimSteps

\* The lab shows a run of another scenario than the one that is selected only if it was
\* overtaken.
THEOREM ScenarioInvariant == SimSpec => []OfScenario
  <1>1. SimInit => OfScenario
    <2>1. ASSUME SimInit PROVE selected \in DOMAIN SCENARIOS
      BY <2>1, SimConstants DEF SimInit
    <2> QED BY <2>1, SimConstants DEF SimInit, OfScenario, Asked, Sims
  <1>2. SimInv /\ OfScenario /\ [SimNext]_simVars => OfScenario'
    BY ScenarioStep
  <1> QED BY <1>1, <1>2, SimInvariant, PTL DEF SimSpec

\* An interval is lost only to a run started, or a scenario selected, over a pending request.
THEOREM OrphansNeedAnOverlap == SimSpec => []OrphansNeedOverlap
  <1>1. SimInv => OrphansNeedOverlap
    BY DEF SimInv, Orderly, OrphansNeedOverlap
  <1> QED BY <1>1, SimInvariant, PTL

\* The hot path shown is of the scenario that is selected, and a check for the event that is
\* shown as passed is that of the run that is shown, unless one was overtaken
\* (simulate/page.tsx; the checks of the baseline and the gateway in
\* verify/route.ts are of no run); a page that says done has no failed stage, and the page
\* is never empty.
THEOREM StagesBelongToTheRun == SimSpec => []StagesAreOwn
  <1>1. ASSUME SimInv, OfScenario PROVE StagesAreOwn
    <2>1. SimTypes /\ Shows /\ (overtaken \/ Orderly)
      BY <1>1 DEF SimInv
    <2>2. ASSUME NEW k \in EventChecks, memoryState(k) = "ok" PROVE k \in landed[hotOf] \/ overtaken
      <3>1. memory.of # 0 /\ k \in memory.ok
        BY <2>2 DEF memoryState
      <3> QED BY <2>1, <3>1 DEF Orderly
    <2>3. ASSUME {"failure", "verdict"} \subseteq Sections PROVE overtaken
      <3>1. "failure" \in Sections /\ "verdict" \in Sections
        BY <2>3
      <3>2. simError
        BY <3>1 DEF Sections
      <3>3. hotOf # 0
        BY <3>1 DEF Sections
      <3> QED BY <2>1, <3>2, <3>3 DEF Orderly
    <2>4. ASSUME runState = "done", hotOf # 0, NEW k \in HotStages PROVE hotState(k) = "ok"
      <3>1. reply[hotOf].collector /\ reply[hotOf].orchestrator
        BY <2>1, <2>4 DEF Shows, Succeeded
      <3> QED BY <2>4, <3>1 DEF hotState
    <2>5. Sections # {}
      <3>1. CASE runState = "idle"
        BY <3>1 DEF Sections
      <3>2. CASE runState \in {"running", "done"} \/ (runState = "error" /\ hotOf # 0)
        <4> DEFINE pipeline == runState \in {"running", "done"} \/ (runState = "error" /\ hotOf # 0)
        <4>1. "hot path" \in {"invitation", "failure", "hot path", "verdict", "memory"} /\ pipeline
          BY <3>2
        <4>2. "hot path" \in Sections
          BY <4>1 DEF Sections
        <4> QED BY <4>2
      <3>3. CASE runState = "error" /\ hotOf = 0
        <4>1. simError
          BY <2>1, <3>3 DEF Shows
        <4> QED BY <3>3, <4>1 DEF Sections
      <3> QED BY <2>1, <3>1, <3>2, <3>3 DEF SimTypes
    <2>6. hotOf # 0 => ranAs[hotOf] = selected \/ overtaken
      BY <1>1, <2>1 DEF OfScenario, SimTypes
    <2> QED BY <2>2, <2>3, <2>4, <2>5, <2>6 DEF StagesAreOwn
  <1> QED BY <1>1, SimInvariant, ScenarioInvariant, PTL

-----------------------------------------------------------------------------
\* The trace a case page shows.

\* The steps are those of the investigation, what was read is stored or made up, and while
\* no read failed or overlapped a pending answer has all that was answered before.
ViewInv ==
    /\ liveSteps \in Seq(StepNos) /\ batches \subseteq SUBSET StepNos
    /\ traceRows \subseteq StepNos
    /\ IsFiniteSet(reads) /\ \A r \in reads : r \subseteq traceRows \cup {Synthetic}
    /\ httpSteps \subseteq traceRows \cup {Synthetic}
    /\ ~misread => \A r \in reads : httpSteps \ {Synthetic} \subseteq r

\* A sequence's items.
LEMMA ItemsOf ==
    ASSUME NEW T, NEW s \in Seq(T)
    PROVE  ToSet(s) = {s[i] : i \in 1..Len(s)} /\ ToSet(s) \subseteq T /\ (s # <<>> => ToSet(s) # {})
  <1>1. Len(s) \in Nat /\ DOMAIN s = 1..Len(s) /\ \A i \in 1..Len(s) : s[i] \in T
    OBVIOUS
  <1>2. s # <<>> => 1 \in 1..Len(s)
    BY <1>1
  <1>3. ToSet(s) = {s[i] : i \in 1..Len(s)}
    BY <1>1 DEF ToSet
  <1> QED BY <1>1, <1>2, <1>3

\* The page is not mounted and nothing is stored.
LEMMA ViewStarts == ViewInit => ViewInv
  <1> SUFFICES ASSUME ViewInit PROVE ViewInv
    OBVIOUS
  <1>1. liveSteps = <<>> /\ traceRows = {} /\ batches = {} /\ reads = {} /\ httpSteps = {}
    BY DEF ViewInit
  <1>2. liveSteps \in Seq(StepNos) /\ IsFiniteSet(reads)
    BY <1>1, FS_EmptySet
  <1> QED BY <1>1, <1>2 DEF ViewInv

\* The effect posts steps that are in the store.
LEMMA PostedAreSteps ==
    ASSUME ViewInv, NEW steps \in Seq(StepNos), NEW known, PostFresh(steps, known)
    PROVE  batches' \subseteq SUBSET StepNos
  <1>1. Fresh(steps, known) \subseteq StepNos
    BY ItemsOf DEF Fresh
  <1> QED BY <1>1 DEF PostFresh, ViewInv

\* One case per action of the page.
LEMMA ViewStep ==
    ASSUME ViewInv, [ViewNext]_viewVars
    PROVE  ViewInv'
  <1> USE DEF tables, posts, answers, viewBounds
  <1>1. CASE upsertCaseSnapshot \/ StoreVerdict \/ TriageEnds \/ Refresh \/ UNCHANGED viewVars
    <2>1. UNCHANGED <<liveSteps, traceRows, batches, reads, httpSteps, misread>>
      BY <1>1 DEF upsertCaseSnapshot, StoreVerdict, TriageEnds, Refresh, viewVars
    <2> QED BY <2>1 DEF ViewInv
  <1>2. ASSUME NEW n \in StepNos, WriterStores(n) PROVE ViewInv'
    <2>1. /\ traceRows' = traceRows \cup {n}
          /\ UNCHANGED <<liveSteps, batches, reads, httpSteps, misread>>
      BY <1>2 DEF WriterStores
    <2> QED BY <2>1 DEF ViewInv
  <1>3. ASSUME NEW n \in StepNos, StepArrives(n) PROVE ViewInv'
    <2>1. /\ liveSteps' = <<n>> \o liveSteps \/ liveSteps' = liveSteps
          /\ UNCHANGED <<traceRows, reads, httpSteps, misread>>
      BY <1>3 DEF StepArrives, appendStep
    <2>2. liveSteps' \in Seq(StepNos)
      <3>1. liveSteps \in Seq(StepNos) /\ <<n>> \in Seq(StepNos)
        BY DEF ViewInv
      <3>2. <<n>> \o liveSteps \in Seq(StepNos)
        BY <3>1, ConcatProperties
      <3> QED BY <2>1, <3>1, <3>2
    <2>3. batches' \subseteq SUBSET StepNos
      <3>1. CASE viewing
        <4>1. PostFresh(liveSteps', keys)
          BY <1>3, <3>1 DEF StepArrives
        <4> QED BY <2>2, <4>1, PostedAreSteps
      <3>2. CASE ~viewing
        BY <1>3, <3>2 DEF StepArrives, ViewInv
      <3> QED BY <3>1, <3>2
    <2> QED BY <2>1, <2>2, <2>3 DEF ViewInv
  <1>4. CASE MountView
    <2>1. /\ reads' = {} /\ httpSteps' = {} /\ UNCHANGED <<liveSteps, traceRows>>
          /\ PostFresh(liveSteps, {})
      BY <1>4 DEF MountView
    <2>2. batches' \subseteq SUBSET StepNos
      BY <2>1, PostedAreSteps DEF ViewInv
    <2>3. IsFiniteSet(reads')
      BY <2>1, FS_EmptySet
    <2> QED BY <2>1, <2>2, <2>3 DEF ViewInv
  <1>5. CASE UnmountView
    <2>1. reads' = {} /\ httpSteps' = {} /\ UNCHANGED <<liveSteps, traceRows, batches>>
      BY <1>5 DEF UnmountView
    <2>2. IsFiniteSet(reads')
      BY <2>1, FS_EmptySet
    <2> QED BY <2>1, <2>2 DEF ViewInv
  <1>6. CASE GetTrace
    <2> DEFINE r == IF traceRows = {} /\ verdictRow THEN {Synthetic} ELSE traceRows
    <2>1. reads' = reads \cup {r} /\ UNCHANGED <<liveSteps, traceRows, batches, httpSteps, misread>>
      BY <1>6 DEF GetTrace
    <2>2. IsFiniteSet(reads')
      BY <2>1, FS_AddElement DEF ViewInv
    <2>3. r \subseteq traceRows \cup {Synthetic} /\ httpSteps \ {Synthetic} \subseteq r
      BY DEF ViewInv
    <2> HIDE DEF r
    <2> QED BY <2>1, <2>2, <2>3 DEF ViewInv
  <1>7. ASSUME NEW r \in reads, TraceAnswered(r) PROVE ViewInv'
    <2>1. /\ reads' = reads \ {r} /\ httpSteps' = r /\ UNCHANGED <<liveSteps, traceRows, batches>>
          /\ misread' = (misread \/ OthersPending \/ Synthetic \in httpSteps \ r)
      BY <1>7 DEF TraceAnswered
    <2>2. IsFiniteSet(reads')
      BY <2>1, FS_RemoveElement DEF ViewInv
    <2>3. ~misread' => reads' = {}
      <3> SUFFICES ASSUME ~misread' PROVE reads' = {}
        OBVIOUS
      <3>1. ~(Cardinality(reads) > 1)
        BY <2>1 DEF OthersPending
      <3>2. Cardinality(reads) \in Nat /\ Cardinality(reads) # 0
        BY <1>7, FS_CardinalityType, FS_EmptySet DEF ViewInv
      <3>3. Cardinality(reads) = 1
        BY <3>1, <3>2
      <3>4. \E x : reads = {x}
        BY <3>3, FS_Singleton DEF ViewInv
      <3> QED BY <1>7, <2>1, <3>4
    <2> QED BY <1>7, <2>1, <2>2, <2>3 DEF ViewInv
  <1>8. ASSUME NEW b \in batches, appendTraceSteps(b) PROVE ViewInv'
    <2>1. /\ batches' = batches \ {b} /\ traceRows' = traceRows \cup b
          /\ UNCHANGED <<liveSteps, reads, httpSteps, misread>>
      BY <1>8 DEF appendTraceSteps
    <2>2. b \subseteq StepNos
      BY DEF ViewInv
    <2> QED BY <2>1, <2>2 DEF ViewInv
  <1>9. ASSUME NEW b \in batches, PostRefused(b) \/ PostFails(b) PROVE ViewInv'
    <2>1. /\ batches' = batches \ {b}
          /\ UNCHANGED <<liveSteps, traceRows, reads, httpSteps, misread>>
      BY <1>9 DEF PostRefused, PostFails
    <2> QED BY <2>1 DEF ViewInv
  <1>10. CASE TraceFails
    <2>1. httpSteps' = {} /\ UNCHANGED <<liveSteps, traceRows, batches, reads>> /\ misread'
      BY <1>10 DEF TraceFails
    <2> QED BY <2>1 DEF ViewInv
  <1> QED BY <1>1, <1>2, <1>3, <1>4, <1>5, <1>6, <1>7, <1>8, <1>9, <1>10 DEF ViewNext, ViewRequests

ViewSpec == ViewInit /\ [][ViewNext]_viewVars

\* What is read back is stored or made up, and an answer has what the one before had.
THEOREM ViewInvariant == ViewSpec => []ViewInv
  BY ViewStarts, ViewStep, PTL DEF ViewSpec

\* The steps that came and those that were read, of the investigation or made up.
LEMMA StepsKnown ==
    ASSUME ViewInv
    PROVE  /\ StepNos = 1..Len(StepKind) /\ Len(StepKind) \in Nat
           /\ ToSet(liveSteps) \subseteq StepNos /\ httpSteps \subseteq 0..Len(StepKind)
  <1>1. StepNos = 1..Len(StepKind) /\ Len(StepKind) \in Nat
    BY ViewConstants DEF StepNos
  <1>2. ToSet(liveSteps) \subseteq StepNos
    BY ItemsOf DEF ViewInv
  <1>3. httpSteps \subseteq 0..Len(StepKind)
    <2>1. httpSteps \subseteq StepNos \cup {0}
      BY DEF ViewInv, Synthetic
    <2> QED BY <1>1, <2>1
  <1> QED BY <1>1, <1>2, <1>3

\* A bounded set of naturals that is not empty has its largest member for Max.
LEMMA MaxIsMember ==
    ASSUME NEW n \in Nat, NEW T, T \subseteq 0..n, T # {}
    PROVE  Max(T) \in T
  <1> DEFINE D == { n - x : x \in T }
  <1>1. D \subseteq Nat /\ D # {}
    <2>1. \A x \in T : x \in 0..n
      OBVIOUS
    <2>2. \A x \in T : n - x \in Nat
      BY <2>1
    <2> QED BY <2>2
  <1>2. PICK d \in D : \A e \in D : d <= e
    <2> HIDE DEF D
    <2> QED BY <1>1, LeastNat
  <1>3. PICK x \in T : d = n - x
    OBVIOUS
  <1>4. ASSUME NEW y \in T PROVE x >= y
    <2>1. n - x <= n - y
      BY <1>2, <1>3
    <2>2. x \in 0..n /\ y \in 0..n
      OBVIOUS
    <2> QED BY <2>1, <2>2
  <1>5. \E m \in T : \A y \in T : m >= y
    BY <1>4
  <1> QED BY <1>5 DEF Max

\* What is shown, item by item.
Shown == [n : Nat, live : BOOLEAN]

Firsts(items, names) == {i \in DOMAIN items : \A j \in 1..(i - 1) : names[j] # names[i]}

\* The first items of the keys: one for each key, and for each key one.
LEMMA FirstsOf ==
    ASSUME NEW T, NEW items \in Seq(T), NEW names
    PROVE  /\ FirstOf(items, names) = Pick(items, Firsts(items, names))
           /\ Firsts(items, names) \subseteq DOMAIN items
           /\ \A i, j \in Firsts(items, names) : names[i] = names[j] => i = j
           /\ \A i \in DOMAIN items : \E f \in Firsts(items, names) : names[f] = names[i]
  <1>1. Len(items) \in Nat /\ DOMAIN items = 1..Len(items)
    OBVIOUS
  <1>2. ASSUME NEW i \in Firsts(items, names), NEW j \in Firsts(items, names), names[i] = names[j]
        PROVE  i = j
    <2>1. i \in Nat /\ j \in Nat /\ i >= 1 /\ j >= 1
      BY <1>1 DEF Firsts
    <2>2. ~(i < j)
      BY <1>2, <2>1 DEF Firsts
    <2>3. ~(j < i)
      BY <1>2, <2>1 DEF Firsts
    <2> QED BY <2>1, <2>2, <2>3
  <1>3. ASSUME NEW i \in DOMAIN items
        PROVE  \E f \in Firsts(items, names) : names[f] = names[i]
    <2> DEFINE E == {j \in DOMAIN items : names[j] = names[i]}
    <2>1. E \subseteq Nat /\ E # {}
      BY <1>1
    <2>2. PICK f \in E : \A y \in E : f <= y
      <3> HIDE DEF E
      <3> QED BY <2>1, LeastNat
    <2>3. \A j \in 1..(f - 1) : j \in DOMAIN items /\ ~(f <= j)
      BY <1>1, <2>2
    <2>4. \A j \in 1..(f - 1) : names[j] # names[f]
      BY <2>2, <2>3
    <2> QED BY <2>2, <2>4 DEF Firsts
  <1> QED BY <1>2, <1>3 DEF FirstOf, Firsts

\* Items of two lists in one.
LEMMA Joined ==
    ASSUME NEW T, NEW s \in Seq(T), NEW t \in Seq(T)
    PROVE  /\ s \o t \in Seq(T) /\ Len(s) \in Nat /\ Len(t) \in Nat
           /\ DOMAIN s = 1..Len(s) /\ DOMAIN t = 1..Len(t)
           /\ DOMAIN (s \o t) = 1..(Len(s) + Len(t))
           /\ \A i \in DOMAIN s : i \in DOMAIN (s \o t) /\ (s \o t)[i] = s[i]
           /\ \A i \in DOMAIN t : Len(s) + i \in DOMAIN (s \o t) /\ (s \o t)[Len(s) + i] = t[i]
           /\ \A i \in DOMAIN (s \o t) : \/ i \in DOMAIN s /\ (s \o t)[i] = s[i]
                                         \/ /\ i - Len(s) \in DOMAIN t
                                            /\ (s \o t)[i] = t[i - Len(s)]
  OBVIOUS

\* The live items are the steps of the store.
LEMMA LiveItems ==
    ASSUME ViewInv
    PROVE  /\ live \in Seq(Shown)
           /\ \A i \in DOMAIN live : \E n \in ToSet(liveSteps) : live[i] = Item(n, TRUE)
           /\ \A n \in ToSet(liveSteps) : \E i \in DOMAIN live : live[i] = Item(n, TRUE)
  <1>1. /\ Len(liveSteps) \in Nat /\ DOMAIN liveSteps = 1..Len(liveSteps)
        /\ \A i \in DOMAIN liveSteps : liveSteps[i] \in Nat
    <2>1. StepNos \subseteq Nat
      BY StepsKnown
    <2>2. liveSteps \in Seq(StepNos)
      BY DEF ViewInv
    <2>3. /\ Len(liveSteps) \in Nat /\ DOMAIN liveSteps = 1..Len(liveSteps)
          /\ \A i \in DOMAIN liveSteps : liveSteps[i] \in StepNos
      BY <2>2
    <2> QED BY <2>1, <2>3
  <1>2. DOMAIN live = 1..Len(liveSteps) /\ \A i \in DOMAIN live : live[i] = Item(liveSteps[i], TRUE)
    BY <1>1 DEF live
  <1>3. \A i \in DOMAIN liveSteps : Item(liveSteps[i], TRUE) \in Shown
    BY <1>1 DEF Item, Shown
  <1>4. live \in Seq(Shown)
    <2> DEFINE It(i) == Item(liveSteps[i], TRUE)
    <2>1. live = [i \in 1..Len(liveSteps) |-> It(i)] /\ \A i \in 1..Len(liveSteps) : It(i) \in Shown
      BY <1>1, <1>3 DEF live
    <2> HIDE DEF It
    <2> QED BY <1>1, <2>1
  <1>5. /\ \A n \in ToSet(liveSteps) : \E i \in DOMAIN liveSteps : liveSteps[i] = n
        /\ \A i \in DOMAIN liveSteps : liveSteps[i] \in ToSet(liveSteps)
    BY DEF ToSet
  <1> QED BY <1>1, <1>2, <1>4, <1>5

\* The items that were read back are the rows of the last answer.
LEMMA HttpItems ==
    ASSUME ViewInv
    PROVE  /\ http \in Seq(Shown)
           /\ \A i \in DOMAIN http : \E n \in httpSteps : http[i] = Item(n, FALSE)
           /\ \A n \in httpSteps : \E i \in DOMAIN http : http[i] = Item(n, FALSE)
  <1> DEFINE L == Len(StepKind)
             S == {i \in DOMAIN InOrder : InOrder[i] \in httpSteps}
             read == Pick(InOrder, S)
  <1>1. L \in Nat /\ httpSteps \subseteq 0..L
    BY StepsKnown
  <1>2. InOrder \in Seq(Nat) /\ DOMAIN InOrder = 1..(L + 1) /\ \A i \in 1..(L + 1) : InOrder[i] = i - 1
    <2>1. \A i \in 1..(L + 1) : i - 1 \in Nat
      BY <1>1
    <2>2. L + 1 \in Nat
      BY <1>1
    <2> HIDE DEF L
    <2> QED BY <2>1, <2>2 DEF InOrder, L
  <1>3. S \subseteq DOMAIN InOrder
    OBVIOUS
  <1>4. http = [i \in DOMAIN read |-> Item(read[i], FALSE)]
    BY DEF http
  <1>5. ASSUME NEW n \in httpSteps PROVE \E i \in S : InOrder[i] = n
    <2>1. n + 1 \in 1..(L + 1) /\ (n + 1) - 1 = n
      BY <1>1
    <2>2. InOrder[n + 1] = n
      BY <1>2, <2>1
    <2> QED BY <1>2, <2>1, <2>2
  <1> HIDE DEF L
  <1>6. \A i \in S : InOrder[i] \in httpSteps
    OBVIOUS
  <1> HIDE DEF S
  <1>7. /\ read \in Seq(Nat)
        /\ \A k \in DOMAIN read : Place(S, k) \in S /\ read[k] = InOrder[Place(S, k)]
        /\ \A i \in S : \E k \in DOMAIN read : read[k] = InOrder[i]
    <2> DEFINE T == Nat
    <2>1. InOrder \in Seq(T)
      BY <1>2
    <2> HIDE DEF T
    <2>2. /\ Pick(InOrder, S) \in Seq(T)
          /\ \A k \in DOMAIN Pick(InOrder, S) :
                Place(S, k) \in S /\ Pick(InOrder, S)[k] = InOrder[Place(S, k)]
          /\ \A i \in S : \E k \in DOMAIN Pick(InOrder, S) :
                Place(S, k) = i /\ Pick(InOrder, S)[k] = InOrder[i]
      BY <1>3, <2>1, PickGives
    <2> QED BY <2>2 DEF T
  <1> HIDE DEF read
  <1>8. /\ Len(read) \in Nat /\ DOMAIN read = 1..Len(read)
        /\ \A i \in DOMAIN read : read[i] \in Nat /\ read[i] \in httpSteps
    BY <1>6, <1>7
  <1>9. \A i \in DOMAIN read : Item(read[i], FALSE) \in Shown
    BY <1>8 DEF Item, Shown
  <1>10. http \in Seq(Shown)
    <2> DEFINE It(i) == Item(read[i], FALSE)
    <2>1. http = [i \in 1..Len(read) |-> It(i)] /\ \A i \in 1..Len(read) : It(i) \in Shown
      BY <1>4, <1>8, <1>9
    <2> HIDE DEF It
    <2> QED BY <1>8, <2>1
  <1>11. ASSUME NEW n \in httpSteps PROVE \E i \in DOMAIN http : http[i] = Item(n, FALSE)
    <2>1. PICK k \in DOMAIN read : read[k] = n
      BY <1>5, <1>7
    <2> QED BY <1>4, <2>1
  <1>12. \A i \in DOMAIN http : \E n \in httpSteps : http[i] = Item(n, FALSE)
    BY <1>4, <1>8
  <1> QED BY <1>10, <1>11, <1>12

\* An item is a step of the store or one that was read back.
IsItem(x) ==
    \/ \E n \in ToSet(liveSteps) : x = Item(n, TRUE)
    \/ \E n \in httpSteps : x = Item(n, FALSE)

\* A live step has the key of no other item.
LEMMA LiveKeys ==
    ASSUME ViewInv, NEW n \in ToSet(liveSteps), NEW x, IsItem(x), MergeKey(x) = MergeKey(Item(n, TRUE))
    PROVE  x = Item(n, TRUE)
  <1>1. n # 0
    BY StepsKnown
  <1>2. MergeKey(Item(n, TRUE))[3] = n
    BY DEF MergeKey, Item
  <1>3. ASSUME NEW m, x = Item(m, FALSE) PROVE FALSE
    <2>1. MergeKey(x)[3] = 0
      BY <1>3 DEF MergeKey, Item
    <2> QED BY <1>1, <1>2, <2>1
  <1>4. ASSUME NEW m, x = Item(m, TRUE) PROVE m = n
    <2>1. MergeKey(x)[3] = m
      BY <1>4 DEF MergeKey, Item
    <2> QED BY <1>2, <2>1
  <1> QED BY <1>3, <1>4 DEF IsItem

\* The merged steps: items, no two of which are the same, with every live step among them.
LEMMA MergedItems ==
    ASSUME ViewInv
    PROVE  /\ mergeTraceSteps \in Seq(Shown)
           /\ \A i \in DOMAIN mergeTraceSteps : IsItem(mergeTraceSteps[i])
           /\ \A i, j \in DOMAIN mergeTraceSteps :
                 mergeTraceSteps[i] = mergeTraceSteps[j] => i = j
           /\ \A n \in ToSet(liveSteps) : \E i \in DOMAIN mergeTraceSteps :
                 mergeTraceSteps[i] = Item(n, TRUE)
           /\ httpSteps # {} => DOMAIN mergeTraceSteps # {}
  <1> DEFINE items == live \o http
             names == [i \in DOMAIN items |-> MergeKey(items[i])]
             F == Firsts(items, names)
             merged == Pick(items, F)
  <1>1. live \in Seq(Shown) /\ http \in Seq(Shown)
    BY LiveItems, HttpItems
  <1>2. /\ items \in Seq(Shown)
        /\ \A i \in DOMAIN live : i \in DOMAIN items /\ items[i] = live[i]
        /\ \A i \in DOMAIN http : Len(live) + i \in DOMAIN items /\ items[Len(live) + i] = http[i]
        /\ \A i \in DOMAIN items : \/ i \in DOMAIN live /\ items[i] = live[i]
                                   \/ /\ i - Len(live) \in DOMAIN http
                                      /\ items[i] = http[i - Len(live)]
    BY <1>1, Joined
  <1>3. \A i \in DOMAIN items : IsItem(items[i])
    <2> SUFFICES ASSUME NEW i \in DOMAIN items PROVE IsItem(items[i])
      OBVIOUS
    <2>1. CASE i \in DOMAIN live /\ items[i] = live[i]
      BY <2>1, LiveItems DEF IsItem
    <2>2. CASE i - Len(live) \in DOMAIN http /\ items[i] = http[i - Len(live)]
      BY <2>2, HttpItems DEF IsItem
    <2> QED BY <1>2, <2>1, <2>2
  <1>4. mergeTraceSteps = FirstOf(items, names)
    BY DEF mergeTraceSteps
  <1>5. \A n \in ToSet(liveSteps) : \E i \in DOMAIN items : items[i] = Item(n, TRUE)
    BY <1>2, LiveItems
  <1>6. httpSteps # {} => DOMAIN items # {}
    <2> SUFFICES ASSUME NEW n \in httpSteps PROVE DOMAIN items # {}
      OBVIOUS
    <2>1. PICK i \in DOMAIN http : http[i] = Item(n, FALSE)
      BY HttpItems
    <2>2. Len(live) + i \in DOMAIN items
      BY <1>2, <2>1
    <2> HIDE DEF items
    <2> QED BY <2>2
  <1>7. \A i \in DOMAIN items : names[i] = MergeKey(items[i])
    OBVIOUS
  <1> HIDE DEF items, names
  <1>8. /\ mergeTraceSteps = merged /\ F \subseteq DOMAIN items
        /\ \A i, j \in F : names[i] = names[j] => i = j
        /\ \A i \in DOMAIN items : \E f \in F : names[f] = names[i]
    BY <1>2, <1>4, FirstsOf
  <1> HIDE DEF F
  <1>9. /\ merged \in Seq(Shown)
        /\ \A k \in DOMAIN merged : Place(F, k) \in F /\ merged[k] = items[Place(F, k)]
        /\ \A k, l \in DOMAIN merged : Place(F, k) = Place(F, l) => k = l
        /\ \A i \in F : \E k \in DOMAIN merged : merged[k] = items[i]
    BY <1>2, <1>8, PickGives
  <1> HIDE DEF merged
  <1>10. \A i \in DOMAIN merged : IsItem(merged[i])
    <2> SUFFICES ASSUME NEW i \in DOMAIN merged PROVE IsItem(merged[i])
      OBVIOUS
    <2>1. Place(F, i) \in DOMAIN items /\ merged[i] = items[Place(F, i)]
      BY <1>8, <1>9
    <2> QED BY <1>3, <2>1
  <1>11. \A i, j \in DOMAIN merged : merged[i] = merged[j] => i = j
    <2> SUFFICES ASSUME NEW i \in DOMAIN merged, NEW j \in DOMAIN merged, merged[i] = merged[j]
                 PROVE  i = j
      OBVIOUS
    <2>1. /\ Place(F, i) \in F /\ Place(F, j) \in F
          /\ items[Place(F, i)] = items[Place(F, j)]
      BY <1>9
    <2>2. names[Place(F, i)] = names[Place(F, j)]
      BY <1>7, <1>8, <2>1
    <2> QED BY <1>8, <1>9, <2>1, <2>2
  <1>12. \A n \in ToSet(liveSteps) : \E i \in DOMAIN merged : merged[i] = Item(n, TRUE)
    <2> SUFFICES ASSUME NEW n \in ToSet(liveSteps)
                 PROVE  \E i \in DOMAIN merged : merged[i] = Item(n, TRUE)
      OBVIOUS
    <2>1. PICK i \in DOMAIN items : items[i] = Item(n, TRUE)
      BY <1>5
    <2>2. PICK f \in F : names[f] = names[i]
      BY <1>8
    <2>3. MergeKey(items[f]) = MergeKey(Item(n, TRUE)) /\ IsItem(items[f])
      BY <1>3, <1>7, <1>8, <2>1, <2>2
    <2>4. items[f] = Item(n, TRUE)
      BY <2>3, LiveKeys
    <2>5. PICK k \in DOMAIN merged : merged[k] = items[f]
      BY <1>9
    <2> QED BY <2>4, <2>5
  <1>13. httpSteps # {} => DOMAIN merged # {}
    BY <1>6, <1>8, <1>9
  <1> QED BY <1>8, <1>9, <1>10, <1>11, <1>12, <1>13

\* The last step is one of those the kinds are of.
LEMMA LastIsKnown ==
    ASSUME ViewInv, Kinds # {}
    PROVE  LastKind \in Kinds
  <1>1. Len(StepKind) \in Nat /\ ToSet(liveSteps) \subseteq 0..Len(StepKind)
    BY StepsKnown
  <1>2. CASE liveSteps # <<>>
    <2>1. ToSet(liveSteps) # {}
      BY <1>2, ItemsOf DEF ViewInv
    <2>2. Max(ToSet(liveSteps)) \in ToSet(liveSteps)
      BY <1>1, <2>1, MaxIsMember
    <2> QED BY <1>2, <2>2 DEF LastKind, Kinds
  <1>3. CASE liveSteps = <<>>
    <2> DEFINE m == mergeTraceSteps
    <2>1. httpSteps # {}
      BY <1>3 DEF Kinds, ToSet
    <2>2. m \in Seq(Shown) /\ DOMAIN m # {}
      BY <2>1, MergedItems
    <2>3. Len(m) \in DOMAIN m
      <3> HIDE DEF m
      <3>1. Len(m) \in Nat /\ DOMAIN m = 1..Len(m)
        BY <2>2
      <3> QED BY <2>2, <3>1
    <2>4. m[Len(m)].n \in ToSet(liveSteps) \cup httpSteps
      <3>1. IsItem(m[Len(m)])
        BY <2>3, MergedItems
      <3> HIDE DEF m
      <3>2. PICK n \in ToSet(liveSteps) \cup httpSteps :
                m[Len(m)] = Item(n, TRUE) \/ m[Len(m)] = Item(n, FALSE)
        BY <3>1 DEF IsItem
      <3>3. Item(n, TRUE).n = n /\ Item(n, FALSE).n = n
        BY DEF Item
      <3> QED BY <3>2, <3>3
    <2> HIDE DEF m
    <2>5. LastKind = Kind(m[Len(m)].n)
      BY <1>3 DEF LastKind, Last, m
    <2> QED BY <2>4, <2>5 DEF Kinds
  <1> QED BY <1>2, <1>3

\* When a stage shows as completed, in terms of the kinds of steps alone.
Sealed(K) == {"envelope", "triage_complete"} \cap K # {}
Judged(K) == Sealed(K) \/ "final_verdict" \in K
Reached(an, K, i) ==
    IF an
    THEN \/ i = 1
         \/ i = 2 /\ (Judged(K) \/ (OnLlmPath /\ K # {}) \/ "classifier_complete" \in K)
         \/ i = 3 /\ Judged(K)
         \/ i = 4 /\ Sealed(K)
    ELSE \/ i = 1 /\ \E k \in K : phaseOf(k) >= 2
         \/ i = 2 /\ Judged(K)
         \/ i = 3 /\ Sealed(K)

\* With more kinds no stage is lost.
LEMMA ReachedGrows ==
    ASSUME NEW an, NEW K, NEW L, K \subseteq L, NEW i, Reached(an, K, i)
    PROVE  Reached(an, L, i)
  BY DEF Reached, Judged, Sealed

Stages == IF analysing THEN 1..4 ELSE IF OnLlmPath THEN 1..3 ELSE {}

\* The pipeline of a case that is being analysed.
LEMMA PipelineReached ==
    ASSUME NEW i \in 1..4
    PROVE  StepperItem(PipelineState, i) = "completed" <=> Reached(TRUE, Kinds, i)
  <1> DEFINE envelope == Has({"envelope", "triage_complete"})
             step2 == HasLlm \/ envelope \/ Has({"classifier_complete"})
             step3 == envelope \/ Has({"final_verdict"})
             active == IF step3 THEN 4 ELSE IF step2 THEN 3 ELSE 2
             done == <<TRUE, step2, step3, envelope>>
  <1>1. PipelineState.done = done /\ PipelineState.active = active
    BY DEF PipelineState
  <1>2. /\ envelope <=> Sealed(Kinds)
        /\ step3 <=> Judged(Kinds)
        /\ step2 <=> (OnLlmPath /\ Kinds # {}) \/ Sealed(Kinds) \/ "classifier_complete" \in Kinds
    BY DEF Has, HasLlm, Sealed, Judged
  <1>3. StepperItem(PipelineState, i) = "completed" <=> (done[i] \/ i < active)
    BY <1>1 DEF StepperItem
  <1>4. CASE i = 1
    BY <1>3, <1>4 DEF Reached
  <1>5. CASE i = 2
    <2>1. done[2] <=> step2
      OBVIOUS
    <2>2. 2 < active <=> step3 \/ step2
      OBVIOUS
    <2>3. StepperItem(PipelineState, 2) = "completed" <=> step3 \/ step2
      <3> HIDE DEF done, active, step2, step3
      <3> QED BY <1>3, <1>5, <2>1, <2>2
    <2>4. Reached(TRUE, Kinds, 2) <=> step3 \/ step2
      <3> HIDE DEF step2, step3, envelope
      <3> QED BY <1>2 DEF Reached, Judged
    <2> QED BY <1>5, <2>3, <2>4
  <1>6. CASE i = 3
    <2>1. done[3] <=> step3
      OBVIOUS
    <2>2. 3 < active <=> step3
      OBVIOUS
    <2>3. StepperItem(PipelineState, 3) = "completed" <=> step3
      <3> HIDE DEF done, active, step2, step3
      <3> QED BY <1>3, <1>6, <2>1, <2>2
    <2>4. Reached(TRUE, Kinds, 3) <=> step3
      <3> HIDE DEF step2, step3, envelope
      <3> QED BY <1>2 DEF Reached
    <2> QED BY <1>6, <2>3, <2>4
  <1>7. CASE i = 4
    <2>1. done[4] <=> envelope
      OBVIOUS
    <2>2. ~(4 < active)
      OBVIOUS
    <2>3. StepperItem(PipelineState, 4) = "completed" <=> envelope
      <3> HIDE DEF done, active, envelope
      <3> QED BY <1>3, <1>7, <2>1, <2>2
    <2>4. Reached(TRUE, Kinds, 4) <=> envelope
      <3> HIDE DEF step2, step3, envelope
      <3> QED BY <1>2 DEF Reached
    <2> QED BY <1>7, <2>3, <2>4
  <1>8. i \in {1, 2, 3, 4}
    OBVIOUS
  <1> QED BY <1>4, <1>5, <1>6, <1>7, <1>8

\* The investigator's stages: none before the one that is on is left open, since the last
\* step is of a phase whose predecessors are done.
LEMMA InvestigatorReached ==
    ASSUME ViewInv, OnLlmPath, NEW i \in 1..3
    PROVE  StepperItem(deriveStepState, i) = "completed" <=> Reached(FALSE, Kinds, i)
  <1> DEFINE envelope == HasLlm /\ Has({"envelope", "triage_complete"})
             verdict == HasLlm /\ (envelope \/ Has({"final_verdict"}))
             tools == HasLlm /\ \E k \in Kinds : phaseOf(k) >= 2
             active == IF envelope THEN 3
                       ELSE IF ~HasLlm THEN 1 ELSE Max({1, phaseOf(LastKind)})
             done == <<tools, verdict, envelope>>
  <1>1. deriveStepState.done = done /\ deriveStepState.active = active
    BY DEF deriveStepState
  <1>2. /\ envelope <=> Sealed(Kinds)
        /\ verdict <=> Judged(Kinds)
        /\ tools <=> \E k \in Kinds : phaseOf(k) >= 2
    BY DEF Has, HasLlm, Sealed, Judged
  <1>3. StepperItem(deriveStepState, i) = "completed" <=> (done[i] \/ i < active)
    BY <1>1 DEF StepperItem
  <1>4. \A k : phaseOf(k) \in 0..3
    BY DEF phaseOf
  <1>5. Judged(Kinds) => \E k \in Kinds : phaseOf(k) >= 2
    <2>1. \A k \in {"final_verdict", "envelope", "triage_complete"} : phaseOf(k) = 3
      BY DEF phaseOf
    <2> QED BY <2>1 DEF Judged, Sealed
  <1>6. i < active => done[i]
    <2> SUFFICES ASSUME i < active PROVE done[i]
      OBVIOUS
    <2>1. CASE envelope
      <3>1. i \in {1, 2}
        BY <2>1
      <3>2. tools /\ verdict
        <4> HIDE DEF tools, verdict, envelope
        <4> QED BY <1>2, <1>5, <2>1 DEF Judged
      <3>3. (done[1] <=> tools) /\ (done[2] <=> verdict)
        OBVIOUS
      <3> HIDE DEF done, tools, verdict, envelope
      <3>4. (i = 1 => done[i]) /\ (i = 2 => done[i])
        BY <3>2, <3>3
      <3> QED BY <3>1, <3>4
    <2>2. CASE ~envelope /\ ~HasLlm
      BY <2>2
    <2>3. CASE ~envelope /\ HasLlm
      <3> DEFINE ph == phaseOf(LastKind)
      <3>1. LastKind \in Kinds
        BY <2>3, LastIsKnown DEF HasLlm
      <3>2. ph \in 0..3
        BY <1>4
      <3>3. active = Max({1, ph})
        BY <2>3
      <3> HIDE DEF ph
      <3>4. Max({1, ph}) \in {1, ph}
        <4>1. {1, ph} \subseteq 0..3 /\ {1, ph} # {} /\ 3 \in Nat
          BY <3>2
        <4> QED BY <4>1, MaxIsMember
      <3> HIDE DEF active, done
      <3>5. i < ph /\ ph >= 2
        BY <2>3, <3>2, <3>3, <3>4
      <3>6. tools
        BY <2>3, <3>1, <3>5 DEF ph
      <3>7. CASE i = 1
        BY <3>6, <3>7 DEF done
      <3>8. CASE i = 2
        <4>1. ph = 3
          BY <3>2, <3>5, <3>8
        <4>2. LastKind \in {"final_verdict", "envelope", "triage_complete"}
          BY <4>1 DEF ph, phaseOf
        <4>3. Judged(Kinds)
          BY <3>1, <4>2 DEF Judged, Sealed
        <4> QED BY <1>2, <3>8, <4>3 DEF done
      <3>9. i # 3
        BY <3>2, <3>5
      <3> QED BY <3>7, <3>8, <3>9
    <2> QED BY <2>1, <2>2, <2>3
  <1>7. StepperItem(deriveStepState, i) = "completed" <=> done[i]
    BY <1>3, <1>6
  <1>8. (done[1] <=> tools) /\ (done[2] <=> verdict) /\ (done[3] <=> envelope)
    OBVIOUS
  <1> HIDE DEF done, tools, verdict, envelope
  <1>9. /\ Reached(FALSE, Kinds, 1) <=> tools
        /\ Reached(FALSE, Kinds, 2) <=> verdict
        /\ Reached(FALSE, Kinds, 3) <=> envelope
    BY <1>2 DEF Reached
  <1>10. i \in {1, 2, 3}
    OBVIOUS
  <1>11. /\ i = 1 => (done[i] <=> Reached(FALSE, Kinds, i))
         /\ i = 2 => (done[i] <=> Reached(FALSE, Kinds, i))
         /\ i = 3 => (done[i] <=> Reached(FALSE, Kinds, i))
    BY <1>8, <1>9
  <1> QED BY <1>7, <1>10, <1>11

\* The stepper shows as completed what the kinds of steps have reached.
LEMMA StepperShows ==
    ViewInv => /\ DOMAIN Stepper = Stages
               /\ \A i \in DOMAIN Stepper : Stepper[i] = "completed" <=> Reached(analysing, Kinds, i)
  <1> SUFFICES ASSUME ViewInv
               PROVE  /\ DOMAIN Stepper = Stages
                      /\ \A i \in Stages : Stepper[i] = "completed" <=> Reached(analysing, Kinds, i)
    OBVIOUS
  <1>1. CASE analysing
    <2>1. DOMAIN PipelineState.done = 1..4
      BY DEF PipelineState
    <2>2. Stepper = [i \in 1..4 |-> StepperItem(PipelineState, i)] /\ Stages = 1..4
      BY <1>1, <2>1 DEF Stepper, Stages
    <2> QED BY <1>1, <2>2, PipelineReached DEF Reached
  <1>2. CASE ~analysing /\ OnLlmPath
    <2>1. DOMAIN deriveStepState.done = 1..3
      BY DEF deriveStepState
    <2>2. Stepper = [i \in 1..3 |-> StepperItem(deriveStepState, i)] /\ Stages = 1..3
      BY <1>2, <2>1 DEF Stepper, InvestigatorTraceStepper, Stages
    <2> QED BY <1>2, <2>2, InvestigatorReached DEF Reached
  <1>3. CASE ~analysing /\ ~OnLlmPath
    BY <1>3 DEF Stepper, InvestigatorTraceStepper, Stages
  <1> QED BY <1>1, <1>2, <1>3

\* While the page is shown and no read failed or overlapped, no kind of step is lost.
LEMMA KindsGrow ==
    ASSUME ViewInv, [ViewNext]_viewVars, viewing, viewing', ~misread'
    PROVE  Kinds \subseteq Kinds'
  <1> USE DEF tables, posts, answers, viewBounds
  <1> SUFFICES ToSet(liveSteps) \subseteq ToSet(liveSteps)' /\ httpSteps \subseteq httpSteps'
    BY DEF Kinds
  <1>1. CASE UNCHANGED <<liveSteps, httpSteps>>
    BY <1>1 DEF ToSet
  <1>2. ASSUME NEW n \in StepNos, StepArrives(n) PROVE
            ToSet(liveSteps) \subseteq ToSet(liveSteps)' /\ httpSteps \subseteq httpSteps'
    <2>1. httpSteps' = httpSteps /\ (liveSteps' = <<n>> \o liveSteps \/ liveSteps' = liveSteps)
      BY <1>2 DEF StepArrives, appendStep
    <2>2. CASE liveSteps' = <<n>> \o liveSteps
      <3>1. liveSteps \in Seq(StepNos) /\ Len(liveSteps) \in Nat
        BY DEF ViewInv
      <3>2. /\ DOMAIN liveSteps = 1..Len(liveSteps)
            /\ DOMAIN liveSteps' = 1..(Len(liveSteps) + 1)
            /\ \A i \in 1..Len(liveSteps) : liveSteps'[i + 1] = liveSteps[i]
        BY <1>2, <2>2, <3>1
      <3>3. \A i \in 1..Len(liveSteps) : i + 1 \in DOMAIN liveSteps'
        BY <3>1, <3>2
      <3> QED BY <2>1, <3>2, <3>3 DEF ToSet
    <2> QED BY <1>1, <2>1, <2>2
  <1>3. ASSUME NEW r \in reads, TraceAnswered(r) PROVE
            ToSet(liveSteps) \subseteq ToSet(liveSteps)' /\ httpSteps \subseteq httpSteps'
    <2>1. /\ httpSteps' = r /\ liveSteps' = liveSteps
          /\ misread' = (misread \/ OthersPending \/ Synthetic \in httpSteps \ r)
      BY <1>3 DEF TraceAnswered
    <2>2. ~misread /\ Synthetic \notin httpSteps \ r
      BY <2>1
    <2>3. httpSteps \ {Synthetic} \subseteq r
      BY <2>2 DEF ViewInv
    <2> QED BY <2>1, <2>2, <2>3 DEF ToSet
  <1>4. ~MountView /\ ~UnmountView /\ ~TraceFails
    BY DEF MountView, UnmountView, TraceFails
  <1>5. ASSUME NEW n \in StepNos, WriterStores(n) PROVE UNCHANGED <<liveSteps, httpSteps>>
    BY <1>5 DEF WriterStores
  <1>6. ASSUME NEW b \in batches, appendTraceSteps(b) \/ PostRefused(b) \/ PostFails(b)
        PROVE  UNCHANGED <<liveSteps, httpSteps>>
    BY <1>6 DEF appendTraceSteps, PostRefused, PostFails
  <1>7. CASE upsertCaseSnapshot \/ StoreVerdict \/ TriageEnds \/ Refresh \/ GetTrace \/ UNCHANGED viewVars
    BY <1>1, <1>7 DEF upsertCaseSnapshot, StoreVerdict, TriageEnds, Refresh, GetTrace, viewVars
  <1> QED BY <1>1, <1>2, <1>3, <1>4, <1>5, <1>6, <1>7 DEF ViewNext, ViewRequests

\* case-workbench.tsx and the panel: steps that arrive in any order, are refused or stored and
\* read back late never take back a stage or a kind of row that is shown, short of a read
\* that fails or overlaps another, or of rows in the place of the made-up step.
THEOREM StagesStay == ViewSpec => ProgressIsKept
  <1>1. ViewSpec => []ViewInv
    BY ViewInvariant
  <1>2. (/\ DOMAIN Stepper = Stages
         /\ \A i \in DOMAIN Stepper : Stepper[i] = "completed" <=> Reached(analysing, Kinds, i))' \/ ~ViewInv'
    BY StepperShows, PTL
  <1>3. ViewInv /\ ViewInv' /\ [ViewNext]_viewVars =>
          [viewing /\ viewing' /\ analysing = analysing' /\ ~misread' =>
            /\ \A i \in DOMAIN Stepper : Stepper[i] = "completed" => Stepper'[i] = "completed"
            /\ Kinds \subseteq Kinds']_viewVars
    <2> SUFFICES ASSUME ViewInv, ViewInv', [ViewNext]_viewVars,
                        viewing, viewing', analysing = analysing', ~misread'
                 PROVE  /\ \A i \in DOMAIN Stepper : Stepper[i] = "completed" => Stepper'[i] = "completed"
                        /\ Kinds \subseteq Kinds'
      OBVIOUS
    <2>1. Kinds \subseteq Kinds'
      BY KindsGrow
    <2>2. DOMAIN Stepper' = DOMAIN Stepper
      BY <1>2, StepperShows DEF Stages
    <2> SUFFICES ASSUME NEW i \in DOMAIN Stepper, Stepper[i] = "completed"
                 PROVE  Stepper'[i] = "completed"
      BY <2>1
    <2>3. Reached(analysing, Kinds, i)
      BY StepperShows
    <2>4. Reached(analysing, Kinds', i)
      BY <2>1, <2>3, ReachedGrows
    <2>5. Reached(analysing', Kinds', i)
      BY <2>4
    <2> QED BY <1>2, <2>2, <2>5
  <1> QED BY <1>1, <1>3, PTL DEF ViewSpec, ProgressIsKept

\* How a step looks in the timeline.
Look(n) == <<Kind(n), Summary(n)>>

\* LLMReasoningTimeline: every step of a kind it takes has a row that looks like it, and no
\* two rows look the same.
LEMMA TimelineShows ==
    ASSUME ViewInv
    PROVE  LET looks == { <<Kind(i.n), Summary(i.n)>> : i \in ToSet(Timeline) }
           IN  /\ Cardinality(looks) = Len(Timeline)
               /\ \A n \in ToSet(liveSteps) \cup httpSteps :
                     Kind(n) # "classifier_complete" => <<Kind(n), Summary(n)>> \in looks
  <1> DEFINE all == http \o mergeTraceSteps
             S == {i \in DOMAIN all : Kind(all[i].n) # "classifier_complete"}
             items == Pick(all, S)
             names == [i \in DOMAIN items |-> fingerprint(items[i])]
             F == Firsts(items, names)
             rows == Pick(items, F)
             ls == { Look(i.n) : i \in ToSet(rows) }
  <1>1. http \in Seq(Shown) /\ mergeTraceSteps \in Seq(Shown)
    BY HttpItems, MergedItems
  <1>2. /\ all \in Seq(Shown)
        /\ \A i \in DOMAIN http : i \in DOMAIN all /\ all[i] = http[i]
        /\ \A i \in DOMAIN mergeTraceSteps : /\ Len(http) + i \in DOMAIN all
                                             /\ all[Len(http) + i] = mergeTraceSteps[i]
    BY <1>1, Joined
  <1>3. S \subseteq DOMAIN all /\ Timeline = FirstOf(items, names)
    BY DEF Timeline
  <1>4. ASSUME NEW n \in ToSet(liveSteps) \cup httpSteps, Kind(n) # "classifier_complete"
        PROVE  \E i \in S : all[i].n = n
    <2>1. CASE n \in ToSet(liveSteps)
      <3>1. PICK k \in DOMAIN mergeTraceSteps : mergeTraceSteps[k] = Item(n, TRUE)
        BY <2>1, MergedItems
      <3>2. Len(http) + k \in DOMAIN all /\ all[Len(http) + k].n = n
        BY <1>2, <3>1 DEF Item
      <3> HIDE DEF all
      <3> QED BY <1>4, <3>2
    <2>2. CASE n \in httpSteps
      <3>1. PICK k \in DOMAIN http : http[k] = Item(n, FALSE)
        BY <2>2, HttpItems
      <3>2. k \in DOMAIN all /\ all[k].n = n
        BY <1>2, <3>1 DEF Item
      <3> HIDE DEF all
      <3> QED BY <1>4, <3>2
    <2> QED BY <1>4, <2>1, <2>2
  <1> HIDE DEF all, S
  <1>5. /\ items \in Seq(Shown)
        /\ \A i \in S : \E k \in DOMAIN items : items[k] = all[i]
    BY <1>2, <1>3, PickGives
  <1> HIDE DEF items
  <1>6. \A i \in DOMAIN items : names[i] = Look(items[i].n)
    BY DEF fingerprint, Look
  <1> HIDE DEF names
  <1>7. /\ Timeline = rows /\ F \subseteq DOMAIN items
        /\ \A i, j \in F : names[i] = names[j] => i = j
        /\ \A i \in DOMAIN items : \E f \in F : names[f] = names[i]
    BY <1>3, <1>5, FirstsOf
  <1> HIDE DEF F
  <1>8. /\ rows \in Seq(Shown)
        /\ \A k \in DOMAIN rows : Place(F, k) \in F /\ rows[k] = items[Place(F, k)]
        /\ \A k, l \in DOMAIN rows : Place(F, k) = Place(F, l) => k = l
        /\ \A i \in F : \E k \in DOMAIN rows : rows[k] = items[i]
    BY <1>5, <1>7, PickGives
  <1> HIDE DEF rows
  <1>9. Len(rows) \in Nat /\ DOMAIN rows = 1..Len(rows) /\ ls = { Look(rows[k].n) : k \in 1..Len(rows) }
    <2>1. Len(rows) \in Nat /\ DOMAIN rows = 1..Len(rows)
      BY <1>8
    <2>2. ToSet(rows) = { rows[k] : k \in 1..Len(rows) }
      BY <2>1 DEF ToSet
    <2> QED BY <2>1, <2>2
  <1>10. \A k, l \in DOMAIN rows : Look(rows[k].n) = Look(rows[l].n) => k = l
    <2> SUFFICES ASSUME NEW k \in DOMAIN rows, NEW l \in DOMAIN rows,
                        Look(rows[k].n) = Look(rows[l].n)
                 PROVE  k = l
      OBVIOUS
    <2>1. names[Place(F, k)] = names[Place(F, l)]
      BY <1>6, <1>7, <1>8
    <2> QED BY <1>7, <1>8, <2>1
  <1>11. Cardinality(ls) = Len(rows)
    <2> DEFINE f == [k \in 1..Len(rows) |-> Look(rows[k].n)]
    <2>1. f \in [1..Len(rows) -> ls] /\ \A x \in ls : \E k \in 1..Len(rows) : f[k] = x
      BY <1>9
    <2>2. \A k, l \in 1..Len(rows) : f[k] = f[l] => k = l
      BY <1>9, <1>10
    <2> HIDE DEF f, ls
    <2>3. f \in Bijection(1..Len(rows), ls)
      BY <2>1, <2>2 DEF Bijection, Injection, Surjection, IsInjective
    <2>4. ExistsBijection(1..Len(rows), ls)
      BY <2>3 DEF ExistsBijection
    <2>5. IsFiniteSet(1..Len(rows)) /\ Cardinality(1..Len(rows)) = Len(rows)
      BY <1>9, IntervalSize
    <2> QED BY <2>4, <2>5, FS_Bijection
  <1>12. ASSUME NEW n \in ToSet(liveSteps) \cup httpSteps, Kind(n) # "classifier_complete"
         PROVE  Look(n) \in ls
    <2>1. PICK i \in S : all[i].n = n
      BY <1>4, <1>12
    <2>2. PICK k \in DOMAIN items : items[k] = all[i]
      BY <1>5
    <2>3. PICK g \in F : names[g] = names[k]
      BY <1>7
    <2>4. Look(items[g].n) = Look(n)
      BY <1>6, <1>7, <2>1, <2>2, <2>3
    <2>5. PICK q \in DOMAIN rows : rows[q] = items[g]
      BY <1>8
    <2> QED BY <1>9, <2>4, <2>5
  <1> QED BY <1>7, <1>11, <1>12 DEF Look

\* LiveTraceLog: a step twice at most, live and as it was read back.
LEMMA LogShows ==
    ASSUME ViewInv, NEW n
    PROVE  Cardinality({ i \in DOMAIN LiveTraceLog : LiveTraceLog[i].n = n }) <= 2
  <1> DEFINE merged == mergeTraceSteps
             S == {i \in DOMAIN merged : ~merged[i].live}
             old == Pick(merged, S)
             steps == [m \in StepNos |-> Item(m, TRUE)]
             came == Pick(steps, ToSet(liveSteps))
             log == old \o came
             D == { i \in DOMAIN log : log[i].n = n }
  <1>1. /\ merged \in Seq(Shown)
        /\ \A i \in DOMAIN merged : \E m : merged[i] = Item(m, TRUE) \/ merged[i] = Item(m, FALSE)
        /\ \A i, j \in DOMAIN merged : merged[i] = merged[j] => i = j
    BY MergedItems DEF IsItem
  <1>2. LiveTraceLog = log /\ S \subseteq DOMAIN merged
    BY DEF LiveTraceLog
  <1>3. /\ StepNos = 1..Len(StepKind) /\ Len(StepKind) \in Nat /\ ToSet(liveSteps) \subseteq StepNos
    BY StepsKnown
  <1>4. steps \in Seq(Shown) /\ DOMAIN steps = StepNos
    <2> DEFINE It(m) == Item(m, TRUE)
    <2>1. \A m \in 1..Len(StepKind) : It(m) \in Shown
      BY <1>3 DEF Item, Shown
    <2>2. steps = [m \in 1..Len(StepKind) |-> It(m)]
      BY <1>3
    <2> HIDE DEF It, steps
    <2> QED BY <1>3, <2>1, <2>2
  <1>5. \A i, j \in S : merged[i].n = merged[j].n => i = j
    <2> SUFFICES ASSUME NEW i \in S, NEW j \in S, merged[i].n = merged[j].n PROVE i = j
      OBVIOUS
    <2>1. ASSUME NEW x \in S PROVE merged[x] = Item(merged[x].n, FALSE)
      <3>1. PICK m : merged[x] = Item(m, TRUE) \/ merged[x] = Item(m, FALSE)
        BY <1>1
      <3>2. ~merged[x].live
        OBVIOUS
      <3>3. Item(m, TRUE).live /\ Item(m, FALSE).n = m
        BY DEF Item
      <3> HIDE DEF merged
      <3> QED BY <3>1, <3>2, <3>3
    <2>2. merged[i] = merged[j]
      BY <2>1
    <2> QED BY <1>1, <1>2, <2>2
  <1> HIDE DEF merged, S
  <1>6. /\ old \in Seq(Shown)
        /\ \A k \in DOMAIN old : Place(S, k) \in S /\ old[k] = merged[Place(S, k)]
        /\ \A k, l \in DOMAIN old : Place(S, k) = Place(S, l) => k = l
    BY <1>1, <1>2, PickGives
  <1>7. \A k, l \in DOMAIN old : old[k].n = old[l].n => k = l
    BY <1>5, <1>6
  <1>8. /\ came \in Seq(Shown)
        /\ \A k \in DOMAIN came : /\ Place(ToSet(liveSteps), k) \in ToSet(liveSteps)
                                  /\ came[k] = steps[Place(ToSet(liveSteps), k)]
        /\ \A k, l \in DOMAIN came :
              Place(ToSet(liveSteps), k) = Place(ToSet(liveSteps), l) => k = l
    <2> HIDE DEF steps
    <2> QED BY <1>3, <1>4, PickGives
  <1>9. \A k \in DOMAIN came : came[k].n = Place(ToSet(liveSteps), k)
    <2> SUFFICES ASSUME NEW k \in DOMAIN came PROVE came[k].n = Place(ToSet(liveSteps), k)
      OBVIOUS
    <2> DEFINE m == Place(ToSet(liveSteps), k)
    <2>1. m \in StepNos /\ came[k] = steps[m]
      BY <1>3, <1>8
    <2> HIDE DEF m, came
    <2>2. steps[m] = Item(m, TRUE)
      BY <2>1
    <2>3. came[k].n = m
      BY <2>1, <2>2 DEF Item
    <2> QED BY <2>3 DEF m, came
  <1> HIDE DEF old, came
  <1>10. \A k, l \in DOMAIN came : came[k].n = came[l].n => k = l
    BY <1>8, <1>9
  <1>11. /\ Len(old) \in Nat /\ Len(came) \in Nat
         /\ DOMAIN old = 1..Len(old) /\ DOMAIN came = 1..Len(came)
         /\ DOMAIN log = 1..(Len(old) + Len(came))
         /\ \A i \in DOMAIN log : \/ i \in DOMAIN old /\ log[i] = old[i]
                                  \/ i - Len(old) \in DOMAIN came /\ log[i] = came[i - Len(old)]
    BY <1>6, <1>8, Joined
  <1> HIDE DEF log
  <1> DEFINE side == [i \in D |-> IF i <= Len(old) THEN 1 ELSE 2]
  <1>12. side \in [D -> 1..2]
    OBVIOUS
  <1>13. ASSUME NEW i \in D, NEW j \in D, side[i] = side[j] PROVE i = j
    <2>1. i \in DOMAIN log /\ j \in DOMAIN log /\ log[i].n = log[j].n /\ i \in Nat /\ j \in Nat
      BY <1>11
    <2>2. CASE i <= Len(old)
      <3>1. j <= Len(old)
        BY <1>13, <2>2
      <3>2. /\ i \in DOMAIN old /\ log[i] = old[i]
            /\ j \in DOMAIN old /\ log[j] = old[j]
        BY <1>11, <2>1, <2>2, <3>1
      <3> QED BY <1>7, <2>1, <3>2
    <2>3. CASE ~(i <= Len(old))
      <3>1. ~(j <= Len(old))
        BY <1>13, <2>3
      <3>2. /\ i - Len(old) \in DOMAIN came /\ log[i] = came[i - Len(old)]
            /\ j - Len(old) \in DOMAIN came /\ log[j] = came[j - Len(old)]
        BY <1>11, <2>1, <2>3, <3>1
      <3>3. i - Len(old) = j - Len(old)
        BY <1>10, <2>1, <3>2
      <3> QED BY <1>11, <2>1, <3>3
    <2> QED BY <2>2, <2>3
  <1>14. side \in Injection(D, 1..2)
    <2>1. \A i, j \in D : side[i] = side[j] => i = j
      BY <1>13
    <2> HIDE DEF side, D
    <2> QED BY <1>12, <2>1 DEF Injection, IsInjective
  <1>15. IsFiniteSet(1..2) /\ Cardinality(1..2) = 2
    BY IntervalSize
  <1> HIDE DEF side, D
  <1>16. Cardinality(D) <= 2
    BY <1>14, <1>15, FS_Injection
  <1> QED BY <1>2, <1>16 DEF D

\* AttestationTracePanel: with an answer, one row for every kind of step there is.
LEMMA PanelShows ==
    ASSUME ViewInv, answered = "rows", NEW kind \in Kinds
    PROVE  Len(TraceTable(kind)) = 1
  <1> DEFINE items == live \o http
             names == [i \in DOMAIN items |-> Kind(items[i].n)]
             F == Firsts(items, names)
             rows == Pick(items, F)
             S == {i \in DOMAIN rows : Kind(rows[i].n) = kind}
  <1>1. live \in Seq(Shown) /\ http \in Seq(Shown)
    BY LiveItems, HttpItems
  <1>2. /\ items \in Seq(Shown)
        /\ \A i \in DOMAIN live : i \in DOMAIN items /\ items[i] = live[i]
        /\ \A i \in DOMAIN http : Len(live) + i \in DOMAIN items /\ items[Len(live) + i] = http[i]
    BY <1>1, Joined
  <1>3. PanelRows = FirstOf(items, names)
    BY DEF PanelRows
  <1>4. \E i \in DOMAIN items : Kind(items[i].n) = kind
    <2>1. PICK m \in ToSet(liveSteps) \cup httpSteps : kind = Kind(m)
      BY DEF Kinds
    <2>2. CASE m \in ToSet(liveSteps)
      <3>1. PICK i \in DOMAIN live : live[i] = Item(m, TRUE)
        BY <2>2, LiveItems
      <3>2. i \in DOMAIN items /\ items[i].n = m
        BY <1>2, <3>1 DEF Item
      <3> QED BY <2>1, <3>2
    <2>3. CASE m \in httpSteps
      <3>1. PICK i \in DOMAIN http : http[i] = Item(m, FALSE)
        BY <2>3, HttpItems
      <3>2. Len(live) + i \in DOMAIN items /\ items[Len(live) + i].n = m
        BY <1>2, <3>1 DEF Item
      <3> HIDE DEF items
      <3> QED BY <2>1, <3>2
    <2> QED BY <2>2, <2>3
  <1>5. \A i \in DOMAIN items : names[i] = Kind(items[i].n)
    OBVIOUS
  <1> HIDE DEF items, names
  <1>6. /\ PanelRows = rows /\ F \subseteq DOMAIN items
        /\ \A i, j \in F : names[i] = names[j] => i = j
        /\ \A i \in DOMAIN items : \E f \in F : names[f] = names[i]
    BY <1>2, <1>3, FirstsOf
  <1> HIDE DEF F
  <1>7. /\ rows \in Seq(Shown)
        /\ \A k \in DOMAIN rows : Place(F, k) \in F /\ rows[k] = items[Place(F, k)]
        /\ \A k, l \in DOMAIN rows : Place(F, k) = Place(F, l) => k = l
        /\ \A i \in F : \E k \in DOMAIN rows : rows[k] = items[i]
    BY <1>2, <1>6, PickGives
  <1> HIDE DEF rows
  <1>8. TraceTable(kind) = Pick(rows, S) /\ S \subseteq DOMAIN rows
    BY <1>6 DEF TraceTable
  <1>9. \E q \in S : TRUE
    <2>1. PICK i \in DOMAIN items : Kind(items[i].n) = kind
      BY <1>4
    <2>2. PICK f \in F : names[f] = names[i]
      BY <1>6
    <2>3. PICK q \in DOMAIN rows : rows[q] = items[f]
      BY <1>7
    <2>4. Kind(rows[q].n) = kind
      BY <1>5, <1>6, <2>1, <2>2, <2>3
    <2> QED BY <2>3, <2>4
  <1>10. \A p, q \in S : p = q
    <2> SUFFICES ASSUME NEW k \in S, NEW l \in S PROVE k = l
      OBVIOUS
    <2>1. k \in DOMAIN rows /\ l \in DOMAIN rows /\ Kind(rows[k].n) = Kind(rows[l].n)
      OBVIOUS
    <2>2. names[Place(F, k)] = names[Place(F, l)]
      BY <1>5, <1>6, <1>7, <2>1
    <2> QED BY <1>6, <1>7, <2>1, <2>2
  <1>11. \E q : S = {q}
    BY <1>9, <1>10
  <1> HIDE DEF S
  <1>12. Len(TraceTable(kind)) = Cardinality(S)
    BY <1>7, <1>8, PickGives
  <1>13. Cardinality(S) = 1
    BY <1>11, FS_Singleton
  <1> QED BY <1>12, <1>13

\* mergeTraceSteps, the timeline, the log and the panel: however the steps come, are stored
\* and are read back, the timeline has no two rows of one kind and summary and for every step
\* a row with its own, the log no step three times, and the panel a row for every kind.
THEOREM NoStepTwice == ViewSpec => []StepsShownOnce
  <1>1. ViewInv => StepsShownOnce
    BY TimelineShows, LogShows, PanelShows DEF StepsShownOnce
  <1> QED BY <1>1, ViewInvariant, PTL

-----------------------------------------------------------------------------
\* The rows of the timeline.

\* A chip is known by the event it names, and asks for that one.
ChipInv ==
    /\ \A c \in DOMAIN chips : chips[c] \in [asked : BOOLEAN, shows : Nat]
    /\ \A c \in DOMAIN chips : chips[c].shows \in {0, c[2]}
    /\ \A r \in requests : r[1] \in DOMAIN chips /\ r[2] = r[1][2] /\ r[2] \in Nat
    /\ \A c \in Chips(TimelineRows(got, streamed), open) : Chip(c) \in DOMAIN chips
    /\ got \subseteq Cited /\ streamed \subseteq Cited /\ open \subseteq DOMAIN TimelineRows(got, streamed)

\* Every chip that is rendered names an event that its key has.
LEMMA ChipsNameTheirKey ==
    ASSUME NEW rows, NEW expanded, NEW c \in Chips(rows, expanded)
    PROVE  Chip(c)[2] = c[3]
  BY DEF Chips, Chip, ChipKey

\* Every row is a step's.
LEMMA RowsAreSteps ==
    ASSUME NEW read \in SUBSET Cited, NEW arrived \in SUBSET Cited,
           NEW k \in DOMAIN TimelineRows(read, arrived)
    PROVE  TimelineRows(read, arrived)[k] \in Cited
  <1> DEFINE at(n) == IF n \in read THEN <<"http", Index(read, n)>> ELSE <<"live", n>>
             all == { at(n) : n \in read \cup arrived }
  <1>1. TimelineRows(read, arrived) = [q \in all |-> CHOOSE n \in read \cup arrived : at(n) = q]
    BY DEF TimelineRows
  <1>2. k \in all
    BY <1>1
  <1>3. \E n \in read \cup arrived : at(n) = k
    BY <1>2
  <1> HIDE DEF at, all
  <1>4. (CHOOSE n \in read \cup arrived : at(n) = k) \in read \cup arrived
    BY <1>3
  <1> QED BY <1>1, <1>2, <1>4

\* Rendering keeps the state of a chip for its key, and its requests.
LEMMA RenderKeeps ==
    ASSUME ChipInv, NEW rows, NEW expanded, expanded \subseteq DOMAIN rows, Render(expanded, rows),
           rows = TimelineRows(got', streamed'), got' \subseteq Cited, streamed' \subseteq Cited
    PROVE  ChipInv'
  <1> DEFINE there == { Chip(c) : c \in Chips(rows, expanded) }
  <1>1. /\ open' = expanded
        /\ chips' = [c \in there |-> IF c \in DOMAIN chips THEN chips[c] ELSE NewChip]
        /\ requests' = { r \in requests : r[1] \in there }
    BY DEF Render
  <1>2. NewChip \in [asked : BOOLEAN, shows : Nat] /\ NewChip.shows = 0
    BY DEF NewChip
  <1>3. \A c \in Chips(rows, expanded) : Chip(c) \in there
    OBVIOUS
  <1> HIDE DEF there
  <1>4. DOMAIN chips' = there
    BY <1>1
  <1>5. \A c \in DOMAIN chips' : chips'[c] \in [asked : BOOLEAN, shows : Nat] /\ chips'[c].shows \in {0, c[2]}
    BY <1>1, <1>2 DEF ChipInv
  <1>6. \A r \in requests' : r[1] \in DOMAIN chips' /\ r[2] = r[1][2] /\ r[2] \in Nat
    BY <1>1, <1>4 DEF ChipInv
  <1>7. \A c \in Chips(rows, expanded) : Chip(c) \in DOMAIN chips'
    BY <1>3, <1>4
  <1> QED BY <1>1, <1>5, <1>6, <1>7 DEF ChipInv

\* The timeline on its own.
RowsSpec == RowsInit /\ [][RowsNext]_rowVars

\* A chip shows the event it names or none (reasoning-trace-viewer.tsx, CitationChip), for
\* any steps, citations, reads and answers, although rows change under it.
THEOREM ChipsAreTrue == RowsSpec => []ChipsShowTheirEvent
  <1>1. RowsInit => ChipInv
    BY DEF RowsInit, ChipInv, Chips
  <1>2. ASSUME ChipInv, [RowsNext]_rowVars PROVE ChipInv'
    <2>1. ASSUME NEW n \in Cited, StepCame(n) PROVE ChipInv'
      <3>1. got' = got /\ streamed' = streamed \cup {n} /\ Follow(got', streamed')
        BY <2>1 DEF StepCame
      <3> QED BY <1>2, <3>1, RenderKeeps DEF Follow, ChipInv
    <2>2. ASSUME NEW read \in SUBSET Cited, TraceRead(read) PROVE ChipInv'
      <3>1. got' = read /\ streamed' = streamed /\ Follow(got', streamed')
        BY <2>2 DEF TraceRead
      <3> QED BY <1>2, <3>1, RenderKeeps DEF Follow, ChipInv
    <2>3. ASSUME NEW p \in Paths, PathLearned(p) PROVE ChipInv'
      BY <1>2, <2>3 DEF PathLearned, ChipInv, Chips
    <2>4. ASSUME NEW k \in DOMAIN TimelineRows(got, streamed), Toggle(k) PROVE ChipInv'
      <3>1. got' = got /\ streamed' = streamed
            /\ Render(IF k \in open THEN open \ {k} ELSE open \cup {k}, TimelineRows(got', streamed'))
        BY <2>4 DEF Toggle
      <3> QED BY <1>2, <3>1, RenderKeeps DEF ChipInv
    <2>5. ASSUME NEW c \in Chips(TimelineRows(got, streamed), open), load(c) PROVE ChipInv'
      <3>1. /\ UNCHANGED <<got, streamed, open>> /\ Chip(c) \in DOMAIN chips
            /\ chips' = [chips EXCEPT ![Chip(c)].asked = TRUE]
            /\ requests' = requests \cup {<<Chip(c), c[3]>>}
        BY <1>2, <2>5 DEF load, ChipInv
      <3>2. c[3] = Chip(c)[2]
        BY ChipsNameTheirKey
      <3>3. c[3] \in Nat
        <4> DEFINE rows == TimelineRows(got, streamed)
        <4>1. PICK k \in open : \E j \in DOMAIN Cites[rows[k]] : c[3] = Cites[rows[k]][j]
          BY DEF Chips
        <4>2. rows[k] \in Cited
          BY <1>2, <4>1, RowsAreSteps DEF ChipInv
        <4>3. Cites[rows[k]] \in Seq(Nat \ {0})
          BY <4>2, RowConstants DEF Cited
        <4> HIDE DEF rows
        <4> QED BY <4>1, <4>3
      <3>4. /\ DOMAIN chips' = DOMAIN chips
            /\ \A d \in DOMAIN chips : /\ chips'[d] \in [asked : BOOLEAN, shows : Nat]
                                      /\ chips'[d].shows = chips[d].shows
        BY <1>2, <3>1 DEF ChipInv
      <3>5. \A r \in requests' : r[1] \in DOMAIN chips' /\ r[2] = r[1][2] /\ r[2] \in Nat
        <4> DEFINE d == Chip(c)
                   e == c[3]
        <4>1. d \in DOMAIN chips /\ e = d[2] /\ e \in Nat /\ requests' = requests \cup {<<d, e>>}
          BY <3>1, <3>2, <3>3
        <4> HIDE DEF d, e
        <4> QED BY <1>2, <3>4, <4>1 DEF ChipInv
      <3>6. \A q \in Chips(TimelineRows(got', streamed'), open') : Chip(q) \in DOMAIN chips'
        BY <1>2, <3>1, <3>4 DEF ChipInv
      <3>7. /\ got' \subseteq Cited /\ streamed' \subseteq Cited
            /\ open' \subseteq DOMAIN TimelineRows(got', streamed')
        BY <1>2, <3>1 DEF ChipInv
      <3>8. \A q \in DOMAIN chips' : /\ chips'[q] \in [asked : BOOLEAN, shows : Nat]
                                    /\ chips'[q].shows \in {0, q[2]}
        BY <1>2, <3>4 DEF ChipInv
      <3> QED BY <3>5, <3>6, <3>7, <3>8 DEF ChipInv
    <2>6. ASSUME NEW r \in requests, NEW found \in BOOLEAN, EventAnswered(r, found) PROVE ChipInv'
      <3>1. /\ UNCHANGED <<got, streamed, open>> /\ r[1] \in DOMAIN chips /\ r[2] = r[1][2] /\ r[2] \in Nat
            /\ requests' = requests \ {r}
            /\ \E e \in {0, r[2]} : chips' = [chips EXCEPT ![r[1]].shows = e]
        BY <1>2, <2>6 DEF EventAnswered, ChipInv
      <3> QED BY <1>2, <3>1 DEF ChipInv
    <2>7. CASE UNCHANGED rowVars
      BY <1>2, <2>7 DEF rowVars, ChipInv
    <2> QED BY <1>2, <2>1, <2>2, <2>3, <2>4, <2>5, <2>6, <2>7 DEF RowsNext
  <1>3. ChipInv => ChipsShowTheirEvent
    BY ChipsNameTheirKey DEF ChipInv, ChipsShowTheirEvent
  <1> QED BY <1>1, <1>2, <1>3, PTL DEF RowsSpec

-----------------------------------------------------------------------------
\* The times pages show.

\* Rounding down loses less than the interval.
LEMMA DivBounds ==
    ASSUME NEW a \in Nat, NEW e \in Nat \ {0}
    PROVE  a \div e \in Nat /\ (a \div e) * e \in Nat /\ (a \div e) * e <= a /\ a < (a \div e) * e + e
  <1> DEFINE d == a \div e
             r == a % e
  <1>1. d \in Nat /\ r \in 0..(e - 1) /\ a = e * d + r
    BY SMT
  <1>2. (a \div e) * e = e * d
    BY <1>1, SMT
  <1> QED BY <1>1, <1>2, SMT

\* What Math.max(0, x) is.
LEMMA MaxWithZero ==
    ASSUME NEW x \in Int
    PROVE  Max({0, x}) = IF x >= 0 THEN x ELSE 0
  <1> DEFINE y == IF x >= 0 THEN x ELSE 0
  <1>1. y \in {0, x} /\ \A z \in {0, x} : z <= y
    BY SMT
  <1>2. \A z \in {0, x} : (\A w \in {0, x} : w <= z) => z = y
    BY <1>1, SMT
  <1> QED BY <1>1, <1>2 DEF Max

\* The clock read last is behind by less than two intervals, and where the page may store it
\* the start of a mount is that of the first.
ClockInv ==
    /\ time \in Nat /\ storing \in BOOLEAN
    /\ since \in Nat \cup {Null} /\ (since # Null => since <= time)
    /\ stored = IF storing THEN since ELSE Null
    /\ due \in Nat \cup {Null}
    /\ now \in Nat \cup {Null}
    /\ due # Null => /\ time <= due /\ due <= time + Every
                     /\ since # Null /\ startedAt \in Nat
                     /\ since <= startedAt /\ startedAt <= time
                     /\ storing => startedAt = since
    /\ due # Null /\ now # Null => now <= time /\ due < now + 2 * Every

\* The hook, the timer and the clock keep it.
LEMMA ClockStep ==
    ASSUME ClockInv, [ClockNext]_clockVars
    PROVE  ClockInv'
  <1> USE ClockConstants DEF Null
  <1>0. time \in Nat /\ Every \in Nat \ {0}
    BY DEF ClockInv
  <1>1. /\ getSnapshot \in Nat /\ getSnapshot <= time /\ time < getSnapshot + Every
    BY <1>0, DivBounds DEF getSnapshot
  <1>2. ASSUME NEW h \in BOOLEAN, MountClock(h) PROVE ClockInv'
    BY <1>1, <1>2 DEF ClockInv, MountClock, Ticking, StartOf
  <1>3. CASE Rerendered
    BY <1>1, <1>3 DEF ClockInv, Rerendered, Ticking
  <1>4. CASE ClockTick
    BY <1>1, <1>4 DEF ClockInv, ClockTick, Ticking
  <1>5. CASE UnmountClock
    BY <1>5 DEF ClockInv, UnmountClock, Ticking
  <1>6. CASE Pass
    BY <1>6 DEF ClockInv, Pass
  <1>7. CASE UNCHANGED clockVars
    BY <1>7 DEF ClockInv, clockVars
  <1> QED BY <1>2, <1>3, <1>4, <1>5, <1>6, <1>7 DEF ClockNext

\* The clocks on their own.
ClockSpec == ClockInit /\ [][ClockNext]_clockVars

\* It holds for any interval.
THEOREM ClockInvariant == ClockSpec => []ClockInv
  <1>1. ClockInit => ClockInv
    BY ClockConstants DEF ClockInit, ClockInv, Null
  <1> QED BY <1>1, ClockStep, PTL DEF ClockSpec

\* useNow and the timer of a triage: for any interval and however often its page is left and
\* opened again, the timer shows no more than the time since the page was first opened and
\* lags less than two intervals behind it where the browser keeps the start.
THEOREM TimerIsTrue == ClockSpec => []ElapsedIsTrue
  <1>1. ASSUME ClockInv PROVE ElapsedIsTrue
    <2>1. CASE now = Null
      BY <1>1, <2>1, ClockConstants DEF ClockInv, ElapsedIsTrue, elapsed, Ticking, Null
    <2>2. CASE now # Null /\ Ticking
      <3>1. now - startedAt \in Int
        BY <1>1, <2>2 DEF ClockInv, Ticking, Null
      <3>2. elapsed = IF now - startedAt >= 0 THEN now - startedAt ELSE 0
        BY <2>2, <3>1, MaxWithZero DEF elapsed
      <3> QED BY <1>1, <2>2, <3>2, ClockConstants DEF ClockInv, ElapsedIsTrue, Ticking, Null
    <2> QED BY <2>1, <2>2 DEF ElapsedIsTrue
  <1> QED BY <1>1, ClockInvariant, PTL

\* Products grow with their factors.
LEMMA TimesGrows ==
    ASSUME NEW a \in Nat, NEW b \in Nat, NEW c \in Nat, a <= b
    PROVE  a * c \in Nat /\ b * c \in Nat /\ a * c <= b * c
  <1>1. b * c = a * c + (b - a) * c /\ (b - a) * c \in Nat /\ a * c \in Nat
    BY SMT
  <1> QED BY <1>1, SMT

\* A count of a unit, and a count of units of units.
LEMMA CountsNest ==
    ASSUME NEW s \in Nat, NEW p \in Nat \ {0}, NEW m \in Nat, m * p <= s, s < (m + 1) * p,
           NEW e \in Nat \ {0}
    PROVE  LET h == m \div e
           IN  h \in Nat /\ p * e \in Nat \ {0} /\ h * (p * e) <= s /\ s < (h + 1) * (p * e)
  <1> DEFINE h == m \div e
  <1>1. h \in Nat /\ h * e \in Nat /\ h * e <= m /\ m < h * e + e
    BY DivBounds
  <1> HIDE DEF h
  <1>2. (h + 1) * e = h * e + e /\ (h + 1) * e \in Nat
    BY <1>1, SMT
  <1>3. (h * e) * p <= m * p /\ (m + 1) * p <= ((h + 1) * e) * p
    BY <1>1, <1>2, TimesGrows
  <1>4. (h * e) * p = h * (p * e) /\ ((h + 1) * e) * p = (h + 1) * (p * e) /\ p * e \in Nat \ {0}
    BY <1>1, SMT
  <1>5. m * p \in Nat /\ (m + 1) * p \in Nat /\ h * (p * e) \in Nat /\ (h + 1) * (p * e) \in Nat
    BY <1>1, <1>4, SMT
  <1>6. h * (p * e) <= s /\ s < (h + 1) * (p * e)
    BY <1>3, <1>4, <1>5, SMT
  <1> QED BY <1>1, <1>4, <1>6 DEF h

\* A label's count is that of the seconds it was made of.
LEMMA LabelBounds ==
    ASSUME NEW at \in Nat, NEW s \in Nat, s = Max({0, at - FiredAt})
    PROVE  LET l == relativeTime(FiredAt, at)
           IN  l.n * l.unit \in Nat /\ (l.n + 1) * l.unit \in Nat
               /\ l.n * l.unit <= s /\ s < (l.n + 1) * l.unit
  <1> DEFINE m == s \div PerMinute
             h == m \div PerHour
             d == h \div PerDay
             l == relativeTime(FiredAt, at)
  <1>0. {PerMinute, PerHour, PerDay} \subseteq Nat \ {0}
    BY ClockConstants
  <1>1. m \in Nat /\ m * PerMinute <= s /\ s < (m + 1) * PerMinute
    <2>1. m \in Nat /\ m * PerMinute \in Nat /\ m * PerMinute <= s /\ s < m * PerMinute + PerMinute
      BY <1>0, DivBounds
    <2> HIDE DEF m
    <2>2. (m + 1) * PerMinute = m * PerMinute + PerMinute
      BY <1>0, <2>1, SMT
    <2> QED BY <2>1, <2>2
  <1>2. /\ h \in Nat /\ PerMinute * PerHour \in Nat \ {0}
        /\ h * (PerMinute * PerHour) <= s /\ s < (h + 1) * (PerMinute * PerHour)
    <2> HIDE DEF m
    <2> QED BY <1>0, <1>1, CountsNest
  <1>3. /\ d \in Nat /\ (PerMinute * PerHour) * PerDay \in Nat \ {0}
        /\ d * ((PerMinute * PerHour) * PerDay) <= s /\ s < (d + 1) * ((PerMinute * PerHour) * PerDay)
    <2> HIDE DEF h
    <2> DEFINE p == PerMinute * PerHour
    <2>1. p \in Nat \ {0} /\ h \in Nat /\ h * p <= s /\ s < (h + 1) * p
      BY <1>2
    <2> HIDE DEF p
    <2>2. d \in Nat /\ p * PerDay \in Nat \ {0} /\ d * (p * PerDay) <= s /\ s < (d + 1) * (p * PerDay)
      BY <1>0, <2>1, CountsNest
    <2> QED BY <2>2 DEF p
  <1>4. \/ l = [n |-> s, unit |-> 1]
        \/ l = [n |-> m, unit |-> PerMinute]
        \/ l = [n |-> h, unit |-> PerMinute * PerHour]
        \/ l = [n |-> d, unit |-> PerMinute * PerHour * PerDay]
    <2>1. l = CASE s < PerMinute -> [n |-> s, unit |-> 1]
                [] s >= PerMinute /\ m < PerHour -> [n |-> m, unit |-> PerMinute]
                [] m >= PerHour /\ h < PerDay -> [n |-> h, unit |-> PerMinute * PerHour]
                [] OTHER -> [n |-> d, unit |-> PerMinute * PerHour * PerDay]
      BY DEF relativeTime
    <2> HIDE DEF l, m, h, d
    <2> QED BY <2>1
  <1> HIDE DEF m, h, d, l
  <1>5. \A n, u \in Nat : n * u \in Nat /\ (n + 1) * u \in Nat
    BY SMT
  <1>6. l.n \in Nat /\ l.unit \in Nat /\ l.n * l.unit <= s /\ s < (l.n + 1) * l.unit
    <2>1. CASE l = [n |-> s, unit |-> 1]
      BY <2>1
    <2>2. CASE l = [n |-> m, unit |-> PerMinute]
      BY <1>0, <1>1, <2>2
    <2>3. CASE l = [n |-> h, unit |-> PerMinute * PerHour]
      BY <1>2, <2>3
    <2>4. CASE l = [n |-> d, unit |-> PerMinute * PerHour * PerDay]
      BY <1>3, <2>4
    <2> QED BY <1>4, <2>1, <2>2, <2>3, <2>4
  <1> QED BY <1>5, <1>6 DEF l

\* relativeTime over useNow: for any interval and any lengths of the units, no label makes an
\* alert older than it is, or younger by a count and two intervals.
THEOREM LabelsAreTrue == ClockSpec => []AgeIsTrue
  <1>1. ASSUME ClockInv PROVE AgeIsTrue
    <2> SUFFICES ASSUME Ticking, now # Null, time >= FiredAt
                 PROVE  LET l == relativeTime(FiredAt, now)
                            age == time - FiredAt
                        IN  l.n * l.unit <= age /\ age < (l.n + 1) * l.unit + 2 * Every
      BY DEF AgeIsTrue
    <2> DEFINE s == IF now - FiredAt >= 0 THEN now - FiredAt ELSE 0
               l == relativeTime(FiredAt, now)
    <2>1. now \in Nat /\ time \in Nat /\ FiredAt \in Nat /\ Every \in Nat /\ now <= time /\ time < now + 2 * Every
      BY <1>1, ClockConstants DEF ClockInv, Ticking, Null
    <2>2. s \in Nat /\ s = Max({0, now - FiredAt}) /\ s <= time - FiredAt /\ time - FiredAt < s + 2 * Every
      BY <2>1, MaxWithZero
    <2> HIDE DEF s
    <2>3. /\ l.n * l.unit \in Nat /\ (l.n + 1) * l.unit \in Nat
          /\ l.n * l.unit <= s /\ s < (l.n + 1) * l.unit
      BY <2>1, <2>2, LabelBounds
    <2> HIDE DEF l
    <2>4. l.n * l.unit <= time - FiredAt /\ time - FiredAt < (l.n + 1) * l.unit + 2 * Every
      <3> DEFINE x == l.n * l.unit
                 y == (l.n + 1) * l.unit
      <3>1. x \in Nat /\ y \in Nat /\ x <= s /\ s < y
        BY <2>3
      <3> HIDE DEF x, y
      <3>2. x <= time - FiredAt /\ time - FiredAt < y + 2 * Every
        BY <2>1, <2>2, <3>1
      <3> QED BY <3>2 DEF x, y
    <2> QED BY <2>4 DEF l
  <1> QED BY <1>1, ClockInvariant, PTL

\* What useNow makes a page show of the time is true in both ways: the two theorems above.
THEOREM TimesAreTrue == ClockSpec => []ShownTimesAreTrue
  BY TimerIsTrue, LabelsAreTrue, PTL DEF ShownTimesAreTrue
=============================================================================
