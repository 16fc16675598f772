---------------------------- MODULE DoorsProofs ----------------------------
(***************************************************************************)
(* The doors of the system, for the specification Doors runs: the gateway  *)
(* and the budget of its warm queries, for any number of calls, any        *)
(* requests, any budget and any length of the window; the limits of the    *)
(* public forms, for any addresses, limits, window and size of the map;    *)
(* and the session of the workbench's tab, for any set of sign-out buttons *)
(* and any number of failures.                                             *)
(***************************************************************************)
EXTENDS Doors, FiniteSetTheorems, TLAPS

\* At each door a step of Doors is a step of the component or leaves it alone.
LEMMA StepsOfADoor ==
    ASSUME [Next]_doorVars
    PROVE  [GatewayNext]_gatewayVars /\ [FormNext]_formVars /\ [ShellNext]_shellVars
  BY DEF Next, doorVars

-----------------------------------------------------------------------------
\* Authorization.

\* authorize: of the containment tools, an agent other than the Responder gets none.
LEMMA ContainmentIsTheResponders ==
    ASSUME NEW r \in Requests, PolicyDecision(r) = "allow", r.tool \in Containment
    PROVE  r.role = "responder"
  <1> DEFINE ctx == [calibrated_confidence |-> r.confidence, target_is_protected |-> FALSE,
                     recent_actions_last_hour |-> 0, blast_radius |-> 1,
                     tenant_allows_automation |-> FALSE]
  <1>1. authorize(r.role, r.tool, ctx) = "allow"
    BY DEF PolicyDecision
  <1> HIDE DEF ctx
  <1>2. r.tool \notin ReadOnlyTools /\ r.role \in Roles
    BY GatewayConstants DEF Containment, ReadOnlyTools
  <1>3. r.role # "triager"
    BY <1>1, <1>2 DEF authorize, authorize_triager, AllowIf, Containment
  <1>4. r.role # "investigator"
    BY <1>1, <1>2 DEF authorize, authorize_investigator, AllowIf, Containment
  <1>5. r.role # "detection_engineer"
    BY <1>1, <1>2 DEF authorize, authorize_detection_engineer, AllowIf, Containment
  <1>6. r.role # "hunter"
    BY <1>1, <1>2 DEF authorize, authorize_hunter, AllowIf, Containment
  <1>7. r.role # "coordinator"
    BY <1>1, <1>2 DEF authorize
  <1> QED BY <1>2, <1>3, <1>4, <1>5, <1>6, <1>7 DEF Roles

\* authorize_query: a hot or warm query that is allowed is neither stacked nor a bulk export.
LEMMA QueriesAreChecked ==
    ASSUME NEW r, PolicyDecision(r) = "allow", r.tool \in {"query_warm_tier", "query_hot_tier"}
    PROVE  ~r.stacked /\ r.limit <= RowCap /\ r.sql_limit <= RowCap
  <1>1. authorize_query(r) = "allow"
    BY DEF PolicyDecision
  <1> QED BY <1>1 DEF authorize_query, AllowIf

\* A call past the policy was allowed as the request it still is.
CallInv ==
    /\ DOMAIN pc = Calls /\ DOMAIN req = Calls /\ DOMAIN response = Calls
    /\ \A c \in Calls :
          /\ pc[c] = "idle" => response[c].status = 0
          /\ pc[c] # "idle" => req[c] \in Requests
          /\ pc[c] = "querying" => PolicyDecision(req[c]) = "allow"
          /\ response[c].status = 200 => PolicyDecision(req[c]) = "allow"

\* No call has been made yet.
LEMMA CallInit == GatewayInit => CallInv
  BY DEF GatewayInit, CallInv, NoResponse

\* The call is answered with that status.
Responds(c, status) ==
    \E a : /\ a.status = status
           /\ response' = [response EXCEPT ![c] = a]
           /\ pc' = [pc EXCEPT ![c] = "answered"]

\* An answer of the gateway; a status of 200 needs an allowed call.
LEMMA RespondKeeps ==
    ASSUME CallInv, NEW c \in Calls, NEW status, Responds(c, status), req' = req,
           pc[c] # "idle", status = 200 => PolicyDecision(req[c]) = "allow"
    PROVE  CallInv'
  <1>1. PICK a : /\ a.status = status
                 /\ response' = [response EXCEPT ![c] = a]
                 /\ pc' = [pc EXCEPT ![c] = "answered"]
    BY DEF Responds
  <1>3. /\ DOMAIN pc' = Calls /\ DOMAIN response' = Calls
        /\ pc'[c] = "answered" /\ response'[c] = a
        /\ \A d \in Calls : d # c => pc'[d] = pc[d] /\ response'[d] = response[d]
    BY <1>1 DEF CallInv
  <1>4. ASSUME NEW d \in Calls
        PROVE  /\ pc'[d] = "idle" => response'[d].status = 0
               /\ pc'[d] # "idle" => req[d] \in Requests
               /\ pc'[d] = "querying" => PolicyDecision(req[d]) = "allow"
               /\ response'[d].status = 200 => PolicyDecision(req[d]) = "allow"
    BY <1>1, <1>3 DEF CallInv
  <1>5. \A d \in Calls : PolicyDecision(req[d])' = PolicyDecision(req[d])
    BY DEF PolicyDecision
  <1> QED BY <1>3, <1>4, <1>5 DEF CallInv

\* Steps of a call that leave its answer alone.
LEMMA WaitKeeps ==
    ASSUME CallInv, NEW c \in Calls, UNCHANGED <<req, response>>, pc[c] # "idle",
           NEW label, label # "idle", pc' = [pc EXCEPT ![c] = label],
           label = "querying" => PolicyDecision(req[c]) = "allow"
    PROVE  CallInv'
  <1>1. DOMAIN pc' = Calls /\ pc'[c] = label /\ \A d \in Calls : d # c => pc'[d] = pc[d]
    BY DEF CallInv
  <1>2. \A d \in Calls : PolicyDecision(req[d])' = PolicyDecision(req[d])
    BY DEF PolicyDecision
  <1> QED BY <1>1, <1>2 DEF CallInv

\* Every step keeps it that a call past the policy was allowed as the request it still is.
LEMMA CallStep == CallInv /\ [GatewayNext]_gatewayVars => CallInv'
  <1> SUFFICES ASSUME CallInv, [GatewayNext]_gatewayVars PROVE CallInv'
    OBVIOUS
  <1>1. CASE Tick \/ UNCHANGED gatewayVars
    <2>1. UNCHANGED <<pc, req, response>>
      BY <1>1 DEF Tick, gatewayVars
    <2> QED BY <2>1 DEF CallInv, PolicyDecision
  <1>2. ASSUME NEW c \in Calls, Send(c) PROVE CallInv'
    <2>1. PICK r \in Requests : req' = [req EXCEPT ![c] = r]
      BY <1>2 DEF Send
    <2>2. pc[c] = "idle" /\ response' = response /\ pc' = [pc EXCEPT ![c] = "sent"]
      BY <1>2 DEF Send
    <2>3. /\ DOMAIN pc' = Calls /\ DOMAIN req' = Calls /\ pc'[c] = "sent" /\ req'[c] = r
          /\ \A d \in Calls : d # c => pc'[d] = pc[d] /\ req'[d] = req[d]
      BY <2>1, <2>2 DEF CallInv
    <2>4. ASSUME NEW d \in Calls, d # c
          PROVE  PolicyDecision(req[d])' = PolicyDecision(req[d])
      BY <2>3, <2>4 DEF PolicyDecision
    <2>5. response'[c].status = 0
      BY <2>2 DEF CallInv
    <2> QED BY <2>2, <2>3, <2>4, <2>5 DEF CallInv
  <1>3. ASSUME NEW c \in Calls, Refuse(c) PROVE CallInv'
    <2>1. pc[c] # "idle" /\ req' = req
      BY <1>3 DEF Refuse
    <2>2. Responds(c, 403) \/ Responds(c, 404)
      <3>1. ASSUME Respond(c, 403, PolicyDecision(req[c]), 0, FALSE) PROVE Responds(c, 403)
        BY <3>1 DEF Respond, Responds
      <3>2. ASSUME Respond(c, 404, "allow", 0, FALSE) PROVE Responds(c, 404)
        BY <3>2 DEF Respond, Responds
      <3> QED BY <1>3, <3>1, <3>2 DEF Refuse
    <2> QED BY <2>1, <2>2, RespondKeeps
  <1>4. ASSUME NEW c \in Calls, NEW n, NEW flagged \in BOOLEAN, Deliver(c, n, flagged),
               pc[c] # "idle", req' = req, PolicyDecision(req[c]) = "allow"
        PROVE  CallInv'
    <2>1. Responds(c, 403) \/ Responds(c, 200)
      <3>1. ASSUME Respond(c, 403, "deny", 0, FALSE) PROVE Responds(c, 403)
        BY <3>1 DEF Respond, Responds
      <3>2. ASSUME Respond(c, 200, "allow", n, FALSE) PROVE Responds(c, 200)
        BY <3>2 DEF Respond, Responds
      <3> QED BY <1>4, <3>1, <3>2 DEF Deliver
    <2> QED BY <1>4, <2>1, RespondKeeps
  <1>5. ASSUME NEW c \in Calls, DispatchStub(c) PROVE CallInv'
    BY <1>4, <1>5 DEF DispatchStub, Dispatched
  <1>6. ASSUME NEW c \in Calls, DispatchWarm(c) PROVE CallInv'
    BY <1>6, WaitKeeps DEF DispatchWarm, Dispatched
  <1>7. ASSUME NEW c \in Calls, OverLimit(c) \/ QueryFails(c) PROVE CallInv'
    <2>1. pc[c] # "idle" /\ req' = req /\ Responds(c, 500)
      BY <1>7 DEF OverLimit, QueryFails, Dispatched, Respond, Responds
    <2> QED BY <2>1, RespondKeeps
  <1>8. ASSUME NEW c \in Calls, QueryReturns(c) PROVE CallInv'
    <2>1. pc[c] = "querying" /\ req' = req /\ PolicyDecision(req[c]) = "allow"
      BY <1>8 DEF QueryReturns, CallInv
    <2>2. PICK n \in RowCounts, flagged \in BOOLEAN : Deliver(c, CapRows(req[c], n), flagged)
      BY <1>8 DEF QueryReturns
    <2> QED BY <1>4, <2>1, <2>2
  <1>9. ASSUME NEW c \in Calls, Receive(c) \/ ClientGivesUp(c) PROVE CallInv'
    <2>1. pc[c] # "idle" /\ UNCHANGED <<req, response>> /\ pc' = [pc EXCEPT ![c] = "recorded"]
      BY <1>9 DEF Receive, ClientGivesUp
    <2> QED BY <2>1, WaitKeeps
  <1> QED BY <1>1, <1>2, <1>3, <1>5, <1>6, <1>7, <1>8, <1>9 DEF GatewayNext

\* Only the Responder's calls reach a containment tool, and no hot or warm query that is
\* stacked or over the cap takes a slot of the budget or gets a result, for any calls of any
\* agents.
THEOREM GatewayAuthorizes == Spec => []OnlyAuthorizedRuns
  <1>1. ASSUME CallInv PROVE OnlyAuthorizedRuns
    <2> SUFFICES ASSUME NEW c \in Calls, pc[c] = "querying" \/ response[c].status = 200
                 PROVE  /\ req[c].tool \in Containment => req[c].role = "responder"
                        /\ req[c].tool \in {"query_warm_tier", "query_hot_tier"} =>
                              /\ ~req[c].stacked
                              /\ req[c].limit <= RowCap /\ req[c].sql_limit <= RowCap
      BY DEF OnlyAuthorizedRuns
    <2>1. PolicyDecision(req[c]) = "allow" /\ req[c] \in Requests
      BY <1>1 DEF CallInv
    <2> QED BY <2>1, ContainmentIsTheResponders, QueriesAreChecked
  <1>2. Init => CallInv
    BY CallInit DEF Init
  <1>3. CallInv /\ [Next]_doorVars => CallInv'
    BY CallStep, StepsOfADoor
  <1> QED BY <1>1, <1>2, <1>3, PTL DEF Spec

-----------------------------------------------------------------------------
\* The budget.

\* Grants at or after w, in the minute before w, and in the minute from t on.
Since(w) == { i \in DOMAIN granted : granted[i] >= w }
Before(w) == { i \in DOMAIN granted : granted[i] < w /\ w < granted[i] + Minute }
Span(t) == { i \in DOMAIN granted : granted[i] \in t..(t + Minute - 1) }

\* A window that starts at w with k slots taken accounts for the grants since w; those of the
\* minute before it are one budget at most, and none is later than the window.
Accounts(w, k) ==
    /\ w \in Nat /\ k \in Nat /\ w <= now /\ k <= MaxPerMinute
    /\ \A i \in DOMAIN granted : granted[i] < w + Minute
    /\ Cardinality(Since(w)) <= k
    /\ Cardinality(Before(w)) <= MaxPerMinute

BudgetTypes ==
    /\ now \in Nat /\ granted \in Seq(Nat)
    /\ limiter \in [window_start : Nat, count : Nat]
    /\ \A i \in DOMAIN granted : granted[i] <= now

BudgetInv ==
    /\ BudgetTypes
    /\ Accounts(limiter.window_start, limiter.count)
    /\ \A t \in Nat : Cardinality(Span(t)) <= 2 * MaxPerMinute

\* Sets of grants are finite.
LEMMA GrantsFinite ==
    ASSUME NEW g \in Seq(Nat), NEW S, S \subseteq DOMAIN g
    PROVE  IsFiniteSet(S) /\ Cardinality(S) \in Nat
  <1>1. DOMAIN g = 1..Len(g) /\ Len(g) \in Nat
    OBVIOUS
  <1>2. IsFiniteSet(1..Len(g))
    BY <1>1, FS_Interval
  <1>3. IsFiniteSet(S)
    BY <1>1, <1>2, FS_Subset
  <1> QED BY <1>3, FS_CardinalityType

\* The window acquire works in accounts for the grants, and now lies in it.
LEMMA WindowAccounts ==
    ASSUME BudgetInv
    PROVE  /\ Window \in [window_start : Nat, count : Nat]
           /\ Accounts(Window.window_start, Window.count)
           /\ now < Window.window_start + Minute
  <1> DEFINE w == limiter.window_start
             k == limiter.count
  <1>1. /\ now \in Nat /\ granted \in Seq(Nat) /\ w \in Nat /\ k \in Nat
        /\ Minute \in Nat \ {0} /\ MaxPerMinute \in Nat
        /\ \A i \in DOMAIN granted : granted[i] \in Nat
    BY GatewayConstants DEF BudgetInv, BudgetTypes
  <1>2. CASE now - w >= Minute
    <2>1. Window = [window_start |-> now, count |-> 0]
      BY <1>2 DEF Window
    <2>2. Window.window_start = now /\ Window.count = 0
      BY <2>1
    <2>3. \A i \in DOMAIN granted : granted[i] < w + Minute
      BY DEF BudgetInv, Accounts
    <2>4. Since(now) = {}
      BY <1>1, <1>2, <2>3 DEF Since
    <2>5. Before(now) \subseteq Since(w)
      BY <1>1, <1>2 DEF Before, Since
    <2>6. Cardinality(Since(now)) = 0
      BY <2>4, FS_EmptySet
    <2>7. Cardinality(Before(now)) <= MaxPerMinute
      <3>1. /\ IsFiniteSet(Since(w)) /\ Cardinality(Since(w)) \in Nat
            /\ Cardinality(Before(now)) \in Nat
        BY <1>1, GrantsFinite DEF Since, Before
      <3>2. Cardinality(Before(now)) <= Cardinality(Since(w))
        BY <2>5, <3>1, FS_Subset
      <3>3. Cardinality(Since(w)) <= k /\ k <= MaxPerMinute
        BY DEF BudgetInv, Accounts
      <3> QED BY <1>1, <3>1, <3>2, <3>3
    <2>8. \A i \in DOMAIN granted : granted[i] < now + Minute
      BY <1>1 DEF BudgetInv, BudgetTypes
    <2> QED BY <1>1, <2>1, <2>2, <2>6, <2>7, <2>8 DEF Accounts
  <1>3. CASE ~(now - w >= Minute)
    <2>1. Window = limiter /\ now < w + Minute
      BY <1>1, <1>3 DEF Window
    <2> QED BY <2>1 DEF BudgetInv, BudgetTypes
  <1> QED BY <1>2, <1>3

\* A grant now, in a window with a slot left, keeps every span within two budgets.
LEMMA GrantKeeps ==
    ASSUME BudgetInv, NEW w, NEW k, Accounts(w, k), now < w + Minute, k < MaxPerMinute,
           granted' = Append(granted, now), now' = now
    PROVE  /\ Accounts(w, k + 1)' /\ granted' \in Seq(Nat)
           /\ \A i \in DOMAIN granted' : granted'[i] <= now'
           /\ \A t \in Nat : Cardinality(Span(t))' <= 2 * MaxPerMinute
  <1> DEFINE n == Len(granted)
  <1>1. /\ now \in Nat /\ granted \in Seq(Nat) /\ w \in Nat /\ k \in Nat /\ n \in Nat
        /\ Minute \in Nat \ {0} /\ MaxPerMinute \in Nat
        /\ DOMAIN granted = 1..n /\ \A i \in 1..n : granted[i] \in Nat
    BY GatewayConstants DEF BudgetInv, BudgetTypes, Accounts
  <1>2. /\ granted' \in Seq(Nat) /\ DOMAIN granted' = 1..(n + 1) /\ granted'[n + 1] = now
        /\ \A i \in 1..n : granted'[i] = granted[i]
    BY <1>1
  <1>3. \A i \in DOMAIN granted' : i = n + 1 \/ i \in DOMAIN granted
    BY <1>1, <1>2
  <1>4. \A i \in DOMAIN granted' : granted'[i] <= now'
    BY <1>1, <1>2, <1>3 DEF BudgetInv, BudgetTypes
  <1>5. \A i \in DOMAIN granted' : granted'[i] < w + Minute
    BY <1>1, <1>2, <1>3 DEF Accounts
  <1>6. Before(w)' = Before(w)
    <2>1. w <= now
      BY DEF Accounts
    <2> QED BY <1>1, <1>2, <1>3, <2>1 DEF Before
  <1>7. Since(w)' = Since(w) \cup {n + 1}
    <2>1. w <= now
      BY DEF Accounts
    <2> QED BY <1>1, <1>2, <1>3, <2>1 DEF Since
  <1>8. /\ IsFiniteSet(Since(w)) /\ Cardinality(Since(w)) \in Nat
        /\ IsFiniteSet(Before(w)) /\ Cardinality(Before(w)) \in Nat
    BY <1>1, GrantsFinite DEF Since, Before
  <1>9. /\ IsFiniteSet(Since(w) \cup {n + 1})
        /\ Cardinality(Since(w) \cup {n + 1}) \in Nat
        /\ Cardinality(Since(w) \cup {n + 1}) <= k + 1
    <2>1. n + 1 \notin Since(w)
      BY <1>1 DEF Since
    <2>2. /\ IsFiniteSet(Since(w) \cup {n + 1})
          /\ Cardinality(Since(w) \cup {n + 1}) = Cardinality(Since(w)) + 1
      BY <1>8, <2>1, FS_AddElement
    <2>3. Cardinality(Since(w)) <= k
      BY DEF Accounts
    <2> QED BY <1>1, <1>8, <2>2, <2>3
  <1>10. Accounts(w, k + 1)'
    <2>1. Cardinality(Before(w)) <= MaxPerMinute /\ w <= now
      BY DEF Accounts
    <2>2. k + 1 \in Nat /\ k + 1 <= MaxPerMinute
      BY <1>1
    <2> QED BY <1>1, <1>5, <1>6, <1>7, <1>9, <2>1, <2>2 DEF Accounts
  <1>11. ASSUME NEW t \in Nat PROVE Cardinality(Span(t))' <= 2 * MaxPerMinute
    <2>1. CASE now \in t..(t + Minute - 1)
      <3> DEFINE U == Before(w) \cup (Since(w) \cup {n + 1})
      <3>1. Span(t)' \subseteq U
        <4>1. ASSUME NEW i \in 1..(n + 1), granted'[i] \in t..(t + Minute - 1)
              PROVE  i \in U
          <5>1. CASE i = n + 1
            BY <5>1
          <5>2. CASE i \in 1..n
            <6>1. granted[i] \in Nat /\ granted[i] >= t /\ now < t + Minute /\ w <= now
              BY <1>1, <1>2, <2>1, <4>1, <5>2 DEF Accounts
            <6>2. granted[i] < w => w < granted[i] + Minute
              BY <1>1, <6>1
            <6>3. granted[i] < w \/ granted[i] >= w
              BY <1>1, <6>1
            <6> QED BY <1>1, <5>2, <6>2, <6>3 DEF Before, Since
          <5> QED BY <1>1, <5>1, <5>2
        <4> QED BY <1>2, <4>1 DEF Span
      <3>2. IsFiniteSet(U) /\ Cardinality(U) \in Nat
        BY <1>8, <1>9, FS_Union, FS_CardinalityType
      <3>3. /\ Cardinality(U) = Cardinality(Before(w)) + Cardinality(Since(w) \cup {n + 1})
                                 - Cardinality(Before(w) \cap (Since(w) \cup {n + 1}))
            /\ Cardinality(Before(w) \cap (Since(w) \cup {n + 1})) \in Nat
        BY <1>8, <1>9, FS_Union, FS_Intersection, FS_CardinalityType
      <3>4. Cardinality(Before(w)) <= MaxPerMinute
        BY DEF Accounts
      <3>5. Cardinality(U) <= 2 * MaxPerMinute
        BY <1>1, <1>8, <1>9, <3>2, <3>3, <3>4
      <3>6. Cardinality(Span(t)') <= Cardinality(U) /\ Cardinality(Span(t)') \in Nat
        BY <3>1, <3>2, FS_Subset, FS_CardinalityType
      <3> QED BY <1>1, <3>2, <3>5, <3>6
    <2>2. CASE now \notin t..(t + Minute - 1)
      <3>1. Span(t)' = Span(t)
        BY <1>1, <1>2, <1>3, <2>2 DEF Span
      <3> QED BY <3>1 DEF BudgetInv
    <2> QED BY <2>1, <2>2
  <1> QED BY <1>2, <1>4, <1>10, <1>11

\* No slot has been taken yet.
LEMMA BudgetInit == GatewayInit => BudgetInv
  <1> SUFFICES ASSUME GatewayInit PROVE BudgetInv
    OBVIOUS
  <1>1. now = 0 /\ granted = <<>> /\ limiter = [window_start |-> 0, count |-> 0]
    BY DEF GatewayInit
  <1>2. BudgetTypes
    BY <1>1 DEF BudgetTypes
  <1>3. DOMAIN granted = {}
    BY <1>1
  <1>4. Cardinality({}) = 0
    BY FS_EmptySet
  <1>5. ASSUME NEW t PROVE Since(t) = {} /\ Before(t) = {} /\ Span(t) = {}
    BY <1>3 DEF Since, Before, Span
  <1>6. limiter.window_start = 0 /\ limiter.count = 0
    BY <1>1
  <1>7. Accounts(0, 0)
    <2>1. Cardinality(Since(0)) = 0 /\ Cardinality(Before(0)) = 0
      BY <1>4, <1>5
    <2>2. \A i \in DOMAIN granted : granted[i] < 0 + Minute
      BY <1>3
    <2> QED BY <1>1, <2>1, <2>2, GatewayConstants DEF Accounts
  <1>8. \A t \in Nat : Cardinality(Span(t)) <= 2 * MaxPerMinute
    BY <1>4, <1>5, GatewayConstants
  <1> QED BY <1>2, <1>6, <1>7, <1>8 DEF BudgetInv

\* A step that grants nothing: time may pass, and the limiter may enter the window.
LEMMA NoGrantKeeps ==
    ASSUME BudgetInv, granted' = granted, now' \in Nat, now <= now',
           limiter' = limiter \/ limiter' = Window
    PROVE  BudgetInv'
  <1>1. /\ limiter' \in [window_start : Nat, count : Nat]
        /\ Accounts(limiter'.window_start, limiter'.count)
    <2>1. CASE limiter' = limiter
      BY <2>1 DEF BudgetInv, BudgetTypes
    <2>2. CASE limiter' = Window
      <3>1. /\ Window \in [window_start : Nat, count : Nat]
            /\ Accounts(Window.window_start, Window.count)
        BY WindowAccounts
      <3> QED BY <2>2, <3>1
    <2> QED BY <2>1, <2>2
  <1>2. \A t : Since(t)' = Since(t) /\ Before(t)' = Before(t) /\ Span(t)' = Span(t)
    BY DEF Since, Before, Span
  <1>3. now \in Nat /\ granted \in Seq(Nat) /\ \A i \in DOMAIN granted : granted[i] \in Nat
    BY DEF BudgetInv, BudgetTypes
  <1>4. BudgetTypes'
    BY <1>1, <1>3 DEF BudgetInv, BudgetTypes
  <1>5. Accounts(limiter.window_start, limiter.count)'
    <2>1. PICK w, k : w = limiter'.window_start /\ k = limiter'.count
      OBVIOUS
    <2>2. Accounts(w, k)
      BY <1>1, <2>1
    <2>3. w <= now'
      BY <1>3, <2>2 DEF Accounts
    <2>4. Accounts(w, k)'
      BY <1>2, <2>2, <2>3 DEF Accounts
    <2> QED BY <2>1, <2>4
  <1>6. \A t \in Nat : Cardinality(Span(t))' <= 2 * MaxPerMinute
    BY <1>2 DEF BudgetInv
  <1> QED BY <1>4, <1>5, <1>6 DEF BudgetInv

\* Every step keeps the account of the window and the bound on every span.
LEMMA BudgetStep == BudgetInv /\ [GatewayNext]_gatewayVars => BudgetInv'
  <1> SUFFICES ASSUME BudgetInv, [GatewayNext]_gatewayVars PROVE BudgetInv'
    OBVIOUS
  <1>1. now \in Nat /\ limiter \in [window_start : Nat, count : Nat]
    BY DEF BudgetInv, BudgetTypes
  <1>2. CASE Tick
    BY <1>1, <1>2, NoGrantKeeps DEF Tick
  <1>3. ASSUME NEW c \in Calls, DispatchWarm(c) PROVE BudgetInv'
    <2> DEFINE w == Window.window_start
               k == Window.count
    <2>1. /\ Window \in [window_start : Nat, count : Nat] /\ Accounts(w, k)
          /\ now < w + Minute
      BY WindowAccounts
    <2>2. /\ k < MaxPerMinute /\ limiter' = [Window EXCEPT !.count = k + 1]
          /\ granted' = Append(granted, now) /\ now' = now
      BY <1>3 DEF DispatchWarm, HasBudget
    <2>3. /\ limiter' \in [window_start : Nat, count : Nat]
          /\ limiter'.window_start = w /\ limiter'.count = k + 1
      BY <2>1, <2>2
    <2>4. PICK x, y : x = w /\ y = k
      OBVIOUS
    <2> HIDE DEF w, k
    <2>5. /\ Accounts(x, y + 1)' /\ granted' \in Seq(Nat)
          /\ \A i \in DOMAIN granted' : granted'[i] <= now'
          /\ \A t \in Nat : Cardinality(Span(t))' <= 2 * MaxPerMinute
      BY <2>1, <2>2, <2>4, GrantKeeps
    <2> QED BY <1>1, <2>2, <2>3, <2>4, <2>5 DEF BudgetInv, BudgetTypes
  <1>4. ASSUME NEW c \in Calls, OverLimit(c) PROVE BudgetInv'
    BY <1>1, <1>4, NoGrantKeeps DEF OverLimit
  <1>5. ASSUME NEW c \in Calls,
               \/ Send(c) \/ Refuse(c) \/ DispatchStub(c) \/ QueryReturns(c) \/ QueryFails(c)
               \/ Receive(c) \/ ClientGivesUp(c)
        PROVE  BudgetInv'
    <2>1. UNCHANGED <<granted, now, limiter>>
      BY <1>5 DEF Send, Refuse, DispatchStub, QueryReturns, QueryFails, Receive, ClientGivesUp
    <2> QED BY <1>1, <2>1, NoGrantKeeps
  <1>6. CASE UNCHANGED gatewayVars
    BY <1>1, <1>6, NoGrantKeeps DEF gatewayVars
  <1> QED BY <1>2, <1>3, <1>4, <1>5, <1>6 DEF GatewayNext

\* WarmLimiter's windows do not slide, so two budgets may fall into one minute, but never more
\* than two, whatever the budget and wherever the minute starts.
THEOREM BudgetsAreTwoAtMost == Spec => []TwoBudgetsAtMost
  <1>1. BudgetInv => TwoBudgetsAtMost
    BY DEF BudgetInv, BudgetTypes, TwoBudgetsAtMost, GrantsFrom, Span
  <1>2. Init => BudgetInv
    BY BudgetInit DEF Init
  <1>3. BudgetInv /\ [Next]_doorVars => BudgetInv'
    BY BudgetStep, StepsOfADoor
  <1> QED BY <1>1, <1>2, <1>3, PTL DEF Spec

-----------------------------------------------------------------------------
\* The limits of the public forms.

Grant == [ip : Ips, at : Nat, life : Nat]
Hit == [no : Nat, at : Nat]
Limit(k) == IF k = All THEN Global ELSE PerIp

\* Of the requests g a route let through, those in the window at time t that count for key k
\* and came in the lives a to b - 1 of the map.
Through(g, t, k, a, b) ==
    { n \in DOMAIN g : /\ k \in {g[n].ip, All} /\ t - g[n].at < FormWindow
                       /\ a <= g[n].life /\ g[n].life < b }

\* What a map has: the hits of a key, in the window at time t.
Fresh(h, t, k) == { e \in h[k] : t - e.at < FormWindow }

\* A route at time t: its requests g, the times f its map was emptied and the map h.  The
\* map has every request of its own life that is in the window, so a life lets through no
\* more than the limit, and any run of lives no more than that many times the limit.
RouteTypes(g, f, h, t) ==
    /\ t \in Nat /\ g \in Seq(Grant) /\ f \in Seq(Nat)
    /\ h \in [Keys -> SUBSET Hit] /\ \A k \in Keys : IsFiniteSet(h[k])
InOrder(g, f, t) ==
    \A n \in DOMAIN g :
        /\ g[n].at <= t /\ g[n].life <= Len(f)
        /\ \A j \in DOMAIN f : g[n].life < j => g[n].at <= f[j]
MapKnows(g, f, h, t) ==
    \A k \in Keys : \A n \in Through(g, t, k, Len(f), Len(f) + 1) :
        [no |-> n, at |-> g[n].at] \in h[k]
LivesBounded(g, t) ==
    \A k \in Keys : \A a, b \in Nat :
        a <= b => Cardinality(Through(g, t, k, a, b)) <= Limit(k) * (b - a)

RouteInv(g, f, h, t) ==
    RouteTypes(g, f, h, t) /\ InOrder(g, f, t) /\ MapKnows(g, f, h, t) /\ LivesBounded(g, t)

FormInv ==
    /\ clock \in Nat
    /\ DOMAIN grants = Routes /\ DOMAIN forgets = Routes /\ DOMAIN hits = Routes
    /\ \A r \in Routes : RouteInv(grants[r], forgets[r], hits[r], clock)

\* The limits of the keys are numbers.
LEMMA LimitIsNat ==
    ASSUME NEW k
    PROVE  Limit(k) \in Nat /\ Limit(k) # 0
  BY FormConstants DEF Limit

\* A list of requests has finitely many in the window.
LEMMA ThroughFinite ==
    ASSUME NEW g \in Seq(Grant), NEW S, S \subseteq DOMAIN g
    PROVE  IsFiniteSet(S) /\ Cardinality(S) \in Nat
  <1>1. DOMAIN g = 1..Len(g) /\ Len(g) \in Int /\ 1 \in Int
    OBVIOUS
  <1>2. IsFiniteSet(1..Len(g))
    BY <1>1, FS_Interval
  <1>3. IsFiniteSet(S)
    BY <1>1, <1>2, FS_Subset
  <1> QED BY <1>3, FS_CardinalityType

\* Fewer requests than a set within a bound are within it.
LEMMA FewerThrough ==
    ASSUME NEW g \in Seq(Grant), NEW S, NEW T, NEW m \in Nat,
           S \subseteq DOMAIN g, T \subseteq S, Cardinality(S) <= m
    PROVE  Cardinality(T) <= m
  <1>1. IsFiniteSet(S) /\ Cardinality(S) \in Nat
    BY ThroughFinite
  <1>2. T \subseteq DOMAIN g
    OBVIOUS
  <1>3. Cardinality(T) \in Nat
    BY <1>2, ThroughFinite
  <1>4. Cardinality(T) <= Cardinality(S)
    BY <1>1, FS_Subset
  <1> QED BY <1>1, <1>3, <1>4

\* A limit times a number of lives, and one life more.
LEMMA LimitTimes ==
    ASSUME NEW p \in Nat, NEW x \in Nat, NEW y \in Nat, x < y
    PROVE  p * x \in Nat /\ p * y \in Nat /\ p * x + p <= p * y
  <1>1. p * x \in Nat /\ p * y \in Nat /\ p * (y - x - 1) \in Nat
    <2>1. y - x - 1 \in Nat
      OBVIOUS
    <2> QED BY <2>1
  <1>2. p * y = p * x + p + p * (y - x - 1)
    OBVIOUS
  <1> QED BY <1>1, <1>2

\* A tick of the clock: requests leave the window.
LEMMA TickKeeps ==
    ASSUME NEW g, NEW f, NEW h, NEW t, RouteInv(g, f, h, t)
    PROVE  RouteInv(g, f, h, t + 1)
  <1> USE DEF RouteInv
  <1>1. RouteTypes(g, f, h, t + 1)
    BY DEF RouteTypes
  <1>2. \A n \in DOMAIN g : g[n] \in Grant
    BY DEF RouteTypes
  <1>3. InOrder(g, f, t + 1)
    BY <1>2 DEF InOrder, RouteTypes, Grant
  <1>4. \A k, a, b : Through(g, t + 1, k, a, b) \subseteq Through(g, t, k, a, b)
    BY <1>2, FormConstants DEF Through, RouteTypes, Grant
  <1>5. MapKnows(g, f, h, t + 1)
    BY <1>4 DEF MapKnows
  <1>6. LivesBounded(g, t + 1)
    <2> SUFFICES ASSUME NEW k \in Keys, NEW a \in Nat, NEW b \in Nat, a <= b
                 PROVE  Cardinality(Through(g, t + 1, k, a, b)) <= Limit(k) * (b - a)
      BY DEF LivesBounded
    <2>1. Limit(k) * (b - a) \in Nat
      <3>1. Limit(k) \in Nat /\ b - a \in Nat
        BY LimitIsNat
      <3> QED BY <3>1
    <2>2. Cardinality(Through(g, t, k, a, b)) <= Limit(k) * (b - a)
      BY DEF LivesBounded
    <2>3. Through(g, t, k, a, b) \subseteq DOMAIN g
      BY DEF Through
    <2> QED BY <1>4, <2>1, <2>2, <2>3, FewerThrough DEF RouteTypes
  <1> QED BY <1>1, <1>3, <1>5, <1>6

\* The map is emptied: a new life begins, with no request of its own.
LEMMA ForgetKeeps ==
    ASSUME NEW g, NEW f, NEW h, NEW t, RouteInv(g, f, h, t)
    PROVE  RouteInv(g, Append(f, t), [k \in Keys |-> {}], t)
  <1> USE DEF RouteInv
  <1> DEFINE ff == Append(f, t)
  <1>1. /\ ff \in Seq(Nat) /\ Len(ff) = Len(f) + 1 /\ Len(f) \in Nat
        /\ DOMAIN f = 1..Len(f) /\ DOMAIN ff = 1..(Len(f) + 1)
        /\ \A j \in DOMAIN f : ff[j] = f[j]
        /\ ff[Len(f) + 1] = t
    BY DEF RouteTypes
  <1>2. \A n \in DOMAIN g : g[n] \in Grant
    BY DEF RouteTypes
  <1> HIDE DEF ff
  <1>3. RouteTypes(g, ff, [k \in Keys |-> {}], t)
    BY <1>1, FS_EmptySet DEF RouteTypes
  <1>4. InOrder(g, ff, t)
    <2> SUFFICES ASSUME NEW n \in DOMAIN g
                 PROVE  /\ g[n].at <= t /\ g[n].life <= Len(ff)
                        /\ \A j \in DOMAIN ff : g[n].life < j => g[n].at <= ff[j]
      BY DEF InOrder
    <2>1. g[n].at <= t /\ g[n].life <= Len(f)
      BY DEF InOrder
    <2>2. g[n].life \in Nat
      BY <1>2 DEF Grant
    <2>3. ASSUME NEW j \in DOMAIN ff, g[n].life < j
          PROVE  g[n].at <= ff[j]
      <3>1. CASE j \in DOMAIN f
        BY <1>1, <2>3, <3>1 DEF InOrder
      <3>2. CASE j = Len(f) + 1
        BY <1>1, <2>1, <3>2
      <3> QED BY <1>1, <3>1, <3>2
    <2> QED BY <1>1, <2>1, <2>2, <2>3
  <1>5. MapKnows(g, ff, [k \in Keys |-> {}], t)
    <2> SUFFICES ASSUME NEW k \in Keys, NEW n \in Through(g, t, k, Len(ff), Len(ff) + 1)
                 PROVE  FALSE
      BY DEF MapKnows
    <2>1. n \in DOMAIN g /\ Len(ff) <= g[n].life
      BY DEF Through
    <2>2. g[n].life <= Len(f) /\ g[n].life \in Nat
      BY <1>2, <2>1 DEF InOrder, Grant
    <2> QED BY <1>1, <2>1, <2>2
  <1>6. LivesBounded(g, t)
    OBVIOUS
  <1>7. RouteInv(g, ff, [k \in Keys |-> {}], t)
    BY <1>3, <1>4, <1>5, <1>6
  <1> QED BY <1>7 DEF ff

\* One more request let through: it is the only one that is new to a set of them.
LEMMA ThroughGrows ==
    ASSUME NEW g \in Seq(Grant), NEW e \in Grant, NEW t, NEW k, NEW a, NEW b
    PROVE  /\ Through(Append(g, e), t, k, a, b) \subseteq Through(g, t, k, a, b) \cup {Len(g) + 1}
           /\ Len(g) + 1 \in Through(Append(g, e), t, k, a, b) =>
                  k \in {e.ip, All} /\ a <= e.life /\ e.life < b
           /\ \A n \in DOMAIN g : Append(g, e)[n] = g[n]
  <1>1. /\ DOMAIN g = 1..Len(g) /\ Len(g) \in Nat
        /\ DOMAIN Append(g, e) = 1..(Len(g) + 1)
        /\ \A n \in DOMAIN g : Append(g, e)[n] = g[n]
        /\ Append(g, e)[Len(g) + 1] = e
    OBVIOUS
  <1> QED BY <1>1 DEF Through

\* The requests of the map's life are among its fresh hits.
LEMMA LifeWithinHits ==
    ASSUME NEW g, NEW f, NEW h, NEW t, RouteInv(g, f, h, t), NEW k \in Keys
    PROVE  Cardinality(Through(g, t, k, Len(f), Len(f) + 1)) <= Cardinality(Fresh(h, t, k))
  <1> DEFINE S == Through(g, t, k, Len(f), Len(f) + 1)
             T == Fresh(h, t, k)
             m == [n \in S |-> [no |-> n, at |-> g[n].at]]
  <1>1. \A n \in S : m[n] \in T
    BY DEF RouteInv, MapKnows, Through, Fresh
  <1>2. \A n, o \in S : m[n] = m[o] => n = o
    <2> SUFFICES ASSUME NEW n \in S, NEW o \in S, m[n] = m[o] PROVE n = o
      OBVIOUS
    <2>1. m[n].no = n /\ m[o].no = o
      OBVIOUS
    <2> QED BY <2>1
  <1>3. m \in [S -> T]
    BY <1>1
  <1>4. m \in Injection(S, T)
    <2> HIDE DEF m, S, T
    <2> QED BY <1>2, <1>3 DEF Injection, IsInjective
  <1>5. IsFiniteSet(T)
    <2>1. IsFiniteSet(h[k]) /\ T \subseteq h[k]
      BY DEF RouteInv, RouteTypes, Fresh
    <2> QED BY <2>1, FS_Subset
  <1> QED BY <1>4, <1>5, FS_Injection

\* A request is let through below the limits and counted: one more in this life of the map.
LEMMA PassKeeps ==
    ASSUME NEW g, NEW f, NEW h, NEW t, RouteInv(g, f, h, t), NEW ip \in Ips,
           Cardinality(Fresh(h, t, ip)) < PerIp, Cardinality(Fresh(h, t, All)) < Global,
           NEW e, e = [ip |-> ip, at |-> t, life |-> Len(f)],
           NEW hit, hit = [no |-> Len(g) + 1, at |-> t]
    PROVE  RouteInv(Append(g, e), f, [h EXCEPT ![ip] = Fresh(h, t, ip) \cup {hit},
                                               ![All] = Fresh(h, t, All) \cup {hit}], t)
  <1> DEFINE gg == Append(g, e)
             hh == [h EXCEPT ![ip] = Fresh(h, t, ip) \cup {hit},
                             ![All] = Fresh(h, t, All) \cup {hit}]
  <1>0. /\ t \in Nat /\ g \in Seq(Grant) /\ f \in Seq(Nat) /\ Len(f) \in Nat /\ Len(g) \in Nat
        /\ DOMAIN f = 1..Len(f) /\ DOMAIN g = 1..Len(g)
        /\ DOMAIN h = Keys /\ \A k \in Keys : h[k] \in SUBSET Hit /\ IsFiniteSet(h[k])
    BY DEF RouteInv, RouteTypes
  <1>1. ip \in Keys /\ All \in Keys /\ ip # All
    BY FormConstants DEF Keys
  <1>2. e \in Grant /\ hit \in Hit
    BY <1>0 DEF Grant, Hit
  <1>3. /\ gg \in Seq(Grant) /\ DOMAIN gg = 1..(Len(g) + 1)
        /\ \A n \in DOMAIN g : gg[n] = g[n]
        /\ gg[Len(g) + 1] = e
    BY <1>0, <1>2
  <1>4. \A n \in DOMAIN g : g[n] \in Grant
    BY <1>0
  <1>5. /\ DOMAIN hh = Keys
        /\ \A k \in {ip, All} : hh[k] = Fresh(h, t, k) \cup {hit}
        /\ \A k \in Keys \ {ip, All} : hh[k] = h[k]
    BY <1>0, <1>1
  <1>6. \A k \in Keys : hh[k] \in SUBSET Hit /\ IsFiniteSet(hh[k])
    <2> SUFFICES ASSUME NEW k \in Keys PROVE hh[k] \in SUBSET Hit /\ IsFiniteSet(hh[k])
      OBVIOUS
    <2>1. Fresh(h, t, k) \subseteq h[k]
      BY DEF Fresh
    <2>2. IsFiniteSet(Fresh(h, t, k))
      BY <1>0, <2>1, FS_Subset
    <2>3. IsFiniteSet(Fresh(h, t, k) \cup {hit})
      BY <2>2, FS_AddElement
    <2>4. CASE k \in {ip, All}
      <3>1. hh[k] = Fresh(h, t, k) \cup {hit}
        BY <1>5, <2>4
      <3> QED BY <1>0, <1>2, <2>1, <2>3, <3>1
    <2>5. CASE k \notin {ip, All}
      BY <1>0, <1>5, <2>5
    <2> QED BY <2>4, <2>5
  <1>7. hh \in [Keys -> SUBSET Hit]
    <2>1. hh = [k \in Keys |-> hh[k]]
      BY <1>0
    <2> HIDE DEF hh
    <2> QED BY <1>6, <2>1
  <1> HIDE DEF hh, gg
  <1>8. RouteTypes(gg, f, hh, t)
    BY <1>0, <1>3, <1>6, <1>7 DEF RouteTypes
  <1>9. InOrder(gg, f, t)
    <2> SUFFICES ASSUME NEW n \in DOMAIN gg
                 PROVE  /\ gg[n].at <= t /\ gg[n].life <= Len(f)
                        /\ \A j \in DOMAIN f : gg[n].life < j => gg[n].at <= f[j]
      BY DEF InOrder
    <2>1. CASE n \in DOMAIN g
      BY <1>3, <2>1 DEF RouteInv, InOrder
    <2>2. CASE n = Len(g) + 1
      <3>1. gg[n].at = t /\ gg[n].life = Len(f)
        BY <1>3, <2>2
      <3> QED BY <1>0, <3>1
    <2> QED BY <1>0, <1>3, <2>1, <2>2
  <1>10. \A k, a, b : /\ Through(gg, t, k, a, b) \subseteq Through(g, t, k, a, b) \cup {Len(g) + 1}
                      /\ Len(g) + 1 \in Through(gg, t, k, a, b) =>
                             k \in {ip, All} /\ a <= Len(f) /\ Len(f) < b
    <2>1. e.ip = ip /\ e.life = Len(f)
      OBVIOUS
    <2> QED BY <1>0, <1>2, <2>1, ThroughGrows DEF gg
  <1>11. MapKnows(gg, f, hh, t)
    <2> SUFFICES ASSUME NEW k \in Keys, NEW n \in Through(gg, t, k, Len(f), Len(f) + 1)
                 PROVE  [no |-> n, at |-> gg[n].at] \in hh[k]
      BY DEF MapKnows
    <2>1. CASE n = Len(g) + 1
      <3>1. k \in {ip, All}
        BY <1>10, <2>1
      <3>2. [no |-> n, at |-> gg[n].at] = hit
        BY <1>3, <2>1
      <3> QED BY <1>5, <3>1, <3>2
    <2>2. CASE n \in Through(g, t, k, Len(f), Len(f) + 1)
      <3>1. n \in DOMAIN g /\ t - g[n].at < FormWindow
        BY <2>2 DEF Through
      <3>2. [no |-> n, at |-> gg[n].at] \in h[k]
        BY <1>3, <2>2, <3>1 DEF RouteInv, MapKnows
      <3>3. [no |-> n, at |-> gg[n].at] \in Fresh(h, t, k)
        BY <1>3, <3>1, <3>2 DEF Fresh
      <3> QED BY <1>5, <3>2, <3>3
    <2> QED BY <1>10, <2>1, <2>2
  <1>12. LivesBounded(gg, t)
    <2> SUFFICES ASSUME NEW k \in Keys, NEW a \in Nat, NEW b \in Nat, a <= b
                 PROVE  Cardinality(Through(gg, t, k, a, b)) <= Limit(k) * (b - a)
      BY DEF LivesBounded
    <2>0. Limit(k) \in Nat /\ b - a \in Nat
      BY LimitIsNat
    <2>1. Limit(k) * (b - a) \in Nat
      BY <2>0
    <2>2. CASE Len(g) + 1 \notin Through(gg, t, k, a, b)
      <3>1. Through(gg, t, k, a, b) \subseteq Through(g, t, k, a, b)
        BY <1>10, <2>2
      <3>2. Through(g, t, k, a, b) \subseteq DOMAIN g
        BY DEF Through
      <3>3. Cardinality(Through(g, t, k, a, b)) <= Limit(k) * (b - a)
        BY DEF RouteInv, LivesBounded
      <3> QED BY <1>0, <2>1, <3>1, <3>2, <3>3, FewerThrough
    <2>3. CASE Len(g) + 1 \in Through(gg, t, k, a, b)
      <3> DEFINE Old == Through(g, t, k, a, Len(f))
                 Own == Through(g, t, k, Len(f), Len(f) + 1)
      <3>1. k \in {ip, All} /\ a <= Len(f) /\ Len(f) < b
        BY <1>10, <2>3
      <3>2. Through(gg, t, k, a, b) \subseteq (Old \cup Own) \cup {Len(g) + 1}
        <4>1. Through(g, t, k, a, b) \subseteq Old \cup Own
          <5> SUFFICES ASSUME NEW n \in Through(g, t, k, a, b) PROVE n \in Old \cup Own
            OBVIOUS
          <5>1. /\ n \in DOMAIN g /\ k \in {g[n].ip, All} /\ t - g[n].at < FormWindow
                /\ a <= g[n].life
            BY DEF Through
          <5>2. g[n].life \in Nat /\ g[n].life <= Len(f)
            BY <1>4, <5>1 DEF RouteInv, InOrder, Grant
          <5>3. g[n].life < Len(f) \/ (Len(f) <= g[n].life /\ g[n].life < Len(f) + 1)
            BY <1>0, <5>2
          <5> QED BY <5>1, <5>3 DEF Through
        <4> QED BY <1>10, <4>1
      <3>3. Old \subseteq DOMAIN g /\ Own \subseteq DOMAIN g
        BY DEF Through
      <3>4. /\ IsFiniteSet(Old) /\ Cardinality(Old) \in Nat
            /\ IsFiniteSet(Own) /\ Cardinality(Own) \in Nat
        BY <1>0, <3>3, ThroughFinite
      <3>5. Cardinality(Old) <= Limit(k) * (Len(f) - a)
        BY <1>0, <3>1 DEF RouteInv, LivesBounded
      <3>6. Cardinality(Own) < Limit(k)
        <4>1. Cardinality(Own) <= Cardinality(Fresh(h, t, k))
          BY LifeWithinHits
        <4>2. Cardinality(Fresh(h, t, k)) \in Nat
          <5>1. Fresh(h, t, k) \subseteq h[k]
            BY DEF Fresh
          <5>2. IsFiniteSet(Fresh(h, t, k))
            BY <1>0, <5>1, FS_Subset
          <5> QED BY <5>2, FS_CardinalityType
        <4>3. Cardinality(Fresh(h, t, k)) < Limit(k)
          BY <1>1, <3>1 DEF Limit
        <4> QED BY <2>0, <3>4, <4>1, <4>2, <4>3
      <3> HIDE DEF Old, Own
      <3>7. /\ IsFiniteSet(Old \cup Own) /\ Cardinality(Old \cup Own) \in Nat
            /\ Cardinality(Old \cup Own) <= Cardinality(Old) + Cardinality(Own)
        <4>1. /\ IsFiniteSet(Old \cup Own)
              /\ Cardinality(Old \cup Own) =
                     Cardinality(Old) + Cardinality(Own) - Cardinality(Old \cap Own)
          BY <3>4, FS_Union
        <4>2. Cardinality(Old \cap Own) \in Nat
          BY <3>4, FS_Intersection, FS_CardinalityType
        <4>3. Cardinality(Old \cup Own) \in Nat
          BY <4>1, FS_CardinalityType
        <4> QED BY <3>4, <4>1, <4>2, <4>3
      <3>8. /\ IsFiniteSet((Old \cup Own) \cup {Len(g) + 1})
            /\ Cardinality((Old \cup Own) \cup {Len(g) + 1}) <= Cardinality(Old \cup Own) + 1
        <4> DEFINE Both == Old \cup Own
        <4>1. IsFiniteSet(Both) /\ Cardinality(Both) \in Nat
          BY <3>7
        <4> HIDE DEF Both
        <4>2. /\ IsFiniteSet(Both \cup {Len(g) + 1})
              /\ Cardinality(Both \cup {Len(g) + 1}) =
                     IF Len(g) + 1 \in Both THEN Cardinality(Both) ELSE Cardinality(Both) + 1
          BY <4>1, FS_AddElement
        <4>3. Cardinality(Both \cup {Len(g) + 1}) <= Cardinality(Both) + 1
          BY <4>1, <4>2
        <4> QED BY <4>2, <4>3 DEF Both
      <3>9. Cardinality(Through(gg, t, k, a, b)) <= Cardinality((Old \cup Own) \cup {Len(g) + 1})
        BY <3>2, <3>8, FS_Subset
      <3>10. Cardinality(Through(gg, t, k, a, b)) \in Nat
        <4>1. Through(gg, t, k, a, b) \subseteq DOMAIN gg
          BY DEF Through
        <4> QED BY <1>3, <4>1, ThroughFinite
      <3>11. Cardinality((Old \cup Own) \cup {Len(g) + 1}) \in Nat
        BY <3>8, FS_CardinalityType
      <3>12. /\ Limit(k) * (Len(f) - a) \in Nat
             /\ Limit(k) * (Len(f) - a) + Limit(k) <= Limit(k) * (b - a)
        <4>1. Len(f) - a \in Nat /\ Len(f) - a < b - a
          BY <1>0, <3>1
        <4> QED BY <2>0, <4>1, LimitTimes
      <3> DEFINE before == Limit(k) * (Len(f) - a)
                 after == Limit(k) * (b - a)
                 n1 == Cardinality(Through(gg, t, k, a, b))
                 n2 == Cardinality((Old \cup Own) \cup {Len(g) + 1})
                 n3 == Cardinality(Old \cup Own)
      <3>13. /\ before \in Nat /\ after \in Nat /\ before + Limit(k) <= after /\ Limit(k) \in Nat
             /\ n1 \in Nat /\ n2 \in Nat /\ n3 \in Nat
             /\ n1 <= n2 /\ n2 <= n3 + 1 /\ n3 <= Cardinality(Old) + Cardinality(Own)
             /\ Cardinality(Old) <= before /\ Cardinality(Own) < Limit(k)
        BY <2>0, <2>1, <3>5, <3>6, <3>7, <3>8, <3>9, <3>10, <3>11, <3>12
      <3> HIDE DEF before, after, n1, n2, n3
      <3>14. n1 <= after
        BY <3>4, <3>13
      <3> QED BY <3>14 DEF n1, after
    <2> QED BY <2>2, <2>3
  <1>13. RouteInv(gg, f, hh, t)
    BY <1>8, <1>9, <1>11, <1>12 DEF RouteInv
  <1> QED BY <1>13 DEF gg, hh

\* rateLimited, all of it: the route's request is counted, and a full map emptied.
LEMMA AdmitKeeps ==
    ASSUME FormInv, NEW r \in Routes, NEW ip \in Ips, Admit(r, ip), clock' = clock
    PROVE  FormInv'
  <1> DEFINE hit == [no |-> Len(grants[r]) + 1, at |-> clock]
             e == [ip |-> ip, at |-> clock, life |-> Len(forgets[r])]
             counted == [hits[r] EXCEPT ![ip] = Recent(r, ip) \cup {hit},
                                        ![All] = Recent(r, All) \cup {hit}]
             full == Cardinality({k \in Keys : counted[k] # {}}) > MapLimit
  <1>1. /\ ~Exhausted(r, ip)
        /\ hits' = [hits EXCEPT ![r] = IF full THEN [k \in Keys |-> {}] ELSE counted]
        /\ grants' = [grants EXCEPT ![r] = Append(@, e)]
        /\ forgets' = IF full THEN [forgets EXCEPT ![r] = Append(@, clock)] ELSE forgets
    BY DEF Admit
  <1>2. /\ DOMAIN grants = Routes /\ DOMAIN forgets = Routes /\ DOMAIN hits = Routes
        /\ RouteInv(grants[r], forgets[r], hits[r], clock)
    BY DEF FormInv
  <1>3. Recent(r, ip) = Fresh(hits[r], clock, ip) /\ Recent(r, All) = Fresh(hits[r], clock, All)
    BY DEF Recent, Fresh, InWindow
  <1>4. ip \in Keys /\ All \in Keys
    BY DEF Keys
  <1>5. \A k \in Keys : Cardinality(Fresh(hits[r], clock, k)) \in Nat
    <2> SUFFICES ASSUME NEW k \in Keys PROVE Cardinality(Fresh(hits[r], clock, k)) \in Nat
      OBVIOUS
    <2>1. IsFiniteSet(hits[r][k]) /\ Fresh(hits[r], clock, k) \subseteq hits[r][k]
      BY <1>2 DEF RouteInv, RouteTypes, Fresh
    <2> QED BY <2>1, FS_Subset, FS_CardinalityType
  <1>6. /\ Cardinality(Fresh(hits[r], clock, ip)) < PerIp
        /\ Cardinality(Fresh(hits[r], clock, All)) < Global
    BY <1>1, <1>3, <1>4, <1>5, FormConstants DEF Exhausted
  <1>7. RouteInv(Append(grants[r], e), forgets[r], counted, clock)
    BY <1>2, <1>3, <1>6, PassKeeps
  <1> HIDE DEF e, hit, counted, full
  <1>8. RouteInv(Append(grants[r], e), Append(forgets[r], clock), [k \in Keys |-> {}], clock)
    BY <1>7, ForgetKeeps
  <1>9. /\ DOMAIN grants' = Routes /\ DOMAIN forgets' = Routes /\ DOMAIN hits' = Routes
        /\ grants'[r] = Append(grants[r], e)
        /\ \A q \in Routes \ {r} : /\ grants'[q] = grants[q] /\ forgets'[q] = forgets[q]
                                   /\ hits'[q] = hits[q]
    BY <1>1, <1>2
  <1>10. RouteInv(grants'[r], forgets'[r], hits'[r], clock)
    <2>1. CASE full
      <3>1. forgets'[r] = Append(forgets[r], clock) /\ hits'[r] = [k \in Keys |-> {}]
        BY <1>1, <1>2, <2>1
      <3> QED BY <1>8, <1>9, <3>1
    <2>2. CASE ~full
      <3>1. forgets'[r] = forgets[r] /\ hits'[r] = counted
        BY <1>1, <1>2, <2>2
      <3> QED BY <1>7, <1>9, <3>1
    <2> QED BY <2>1, <2>2
  <1>11. \A q \in Routes : RouteInv(grants'[q], forgets'[q], hits'[q], clock')
    <2> SUFFICES ASSUME NEW q \in Routes PROVE RouteInv(grants'[q], forgets'[q], hits'[q], clock')
      OBVIOUS
    <2>1. CASE q = r
      BY <1>10, <2>1
    <2>2. CASE q # r
      BY <1>9, <2>2 DEF FormInv
    <2> QED BY <2>1, <2>2
  <1> QED BY <1>9, <1>11 DEF FormInv

\* No request yet, and two empty maps.
LEMMA FormStarts == FormInit => FormInv
  <1> SUFFICES ASSUME FormInit PROVE FormInv
    OBVIOUS
  <1>1. RouteInv(<<>>, <<>>, [k \in Keys |-> {}], 0)
    <2>1. RouteTypes(<<>>, <<>>, [k \in Keys |-> {}], 0)
      BY FS_EmptySet DEF RouteTypes
    <2>2. \A k, a, b : Through(<<>>, 0, k, a, b) = {}
      BY DEF Through
    <2>3. InOrder(<<>>, <<>>, 0)
      BY DEF InOrder
    <2>4. MapKnows(<<>>, <<>>, [k \in Keys |-> {}], 0)
      BY <2>2 DEF MapKnows
    <2>5. LivesBounded(<<>>, 0)
      <3> SUFFICES ASSUME NEW k \in Keys, NEW a \in Nat, NEW b \in Nat, a <= b
                   PROVE  Cardinality(Through(<<>>, 0, k, a, b)) <= Limit(k) * (b - a)
        BY DEF LivesBounded
      <3>1. Limit(k) \in Nat /\ b - a \in Nat
        BY LimitIsNat
      <3>2. Limit(k) * (b - a) \in Nat
        BY <3>1
      <3>3. Cardinality(Through(<<>>, 0, k, a, b)) = 0
        BY <2>2, FS_EmptySet
      <3> DEFINE most == Limit(k) * (b - a)
      <3>4. most \in Nat
        BY <3>2
      <3> HIDE DEF most
      <3>5. Cardinality(Through(<<>>, 0, k, a, b)) <= most
        BY <3>3, <3>4
      <3> QED BY <3>5 DEF most
    <2> QED BY <2>1, <2>3, <2>4, <2>5 DEF RouteInv
  <1>2. \A r \in Routes : /\ grants[r] = <<>> /\ forgets[r] = <<>>
                          /\ hits[r] = [k \in Keys |-> {}]
    BY DEF FormInit
  <1> QED BY <1>1, <1>2 DEF FormInit, FormInv

\* A step of the forms keeps the counts.
LEMMA FormStepKeeps ==
    ASSUME FormInv, [FormNext]_formVars
    PROVE  FormInv'
  <1>1. CASE UNCHANGED <<clock, formLimits>>
    BY <1>1 DEF FormInv, formLimits
  <1>2. CASE TickClock
    <2>1. clock' = clock + 1 /\ clock \in Nat /\ UNCHANGED <<hits, grants, forgets>>
      BY <1>2 DEF TickClock, formLimits, FormInv
    <2>2. \A r \in Routes : RouteInv(grants[r], forgets[r], hits[r], clock + 1)
      BY TickKeeps DEF FormInv
    <2> QED BY <2>1, <2>2 DEF FormInv
  <1>3. CASE RestartServer
    <2>1. /\ hits' = [r \in Routes |-> [k \in Keys |-> {}]]
          /\ forgets' = [r \in Routes |-> Append(forgets[r], clock)]
          /\ UNCHANGED <<clock, grants>>
      BY <1>3 DEF RestartServer
    <2>2. \A r \in Routes :
             RouteInv(grants[r], Append(forgets[r], clock), [k \in Keys |-> {}], clock)
      BY ForgetKeeps DEF FormInv
    <2>3. \A r \in Routes : /\ hits'[r] = [k \in Keys |-> {}]
                            /\ forgets'[r] = Append(forgets[r], clock)
      BY <2>1
    <2>4. \A r \in Routes : RouteInv(grants'[r], forgets'[r], hits'[r], clock')
      BY <2>1, <2>2, <2>3
    <2> QED BY <2>1, <2>4 DEF FormInv
  <1>4. ASSUME NEW ip \in Ips, OtherRuns(ip) PROVE FormInv'
    <2>1. Admit("demo", ip) /\ clock' = clock /\ "demo" \in Routes
      BY <1>4 DEF OtherRuns, Routes
    <2> QED BY <2>1, AdmitKeeps
  <1>5. CASE Post
    <2>1. CASE UNCHANGED formLimits
      BY <1>1, <1>5, <2>1 DEF Post, formRest
    <2>2. CASE Admit(stage, MyIp)
      <3>1. stage \in Routes /\ clock' = clock /\ MyIp \in Ips
        BY <1>5, FormConstants DEF Post, formRest
      <3> QED BY <2>2, <3>1, AdmitKeeps
    <2> QED BY <1>5, <2>1, <2>2 DEF Post
  <1>6. CASE Visit \/ DemoStatus \/ RunDemo \/ SubmitWaitlist
    BY <1>1, <1>6 DEF Visit, DemoStatus, RunDemo, SubmitWaitlist, formRest
  <1>7. CASE Ingest \/ DemoTriage \/ DemoVerify \/ Validate \/ Mail \/ FormFails
    BY <1>1, <1>7 DEF Ingest, DemoTriage, DemoVerify, Validate, Mail, FormFails, formRest
  <1>8. CASE UNCHANGED formVars
    BY <1>1, <1>8 DEF formVars
  <1> QED BY <1>2, <1>3, <1>4, <1>5, <1>6, <1>7, <1>8 DEF FormNext, FormRequests

\* Requests in the window came in the lives since the oldest emptying in it, or in the one
\* before: as many lives as the map was emptied in the window, and one.
LEMMA WindowWithinLives ==
    ASSUME NEW g, NEW f, NEW h, NEW t, RouteInv(g, f, h, t), NEW k \in Keys,
           NEW E, E = { j \in DOMAIN f : t - f[j] < FormWindow },
           NEW S, S = { n \in DOMAIN g : k \in {g[n].ip, All} /\ t - g[n].at < FormWindow }
    PROVE  Cardinality(S) <= Limit(k) * (1 + Cardinality(E))
  <1>0. /\ t \in Nat /\ g \in Seq(Grant) /\ f \in Seq(Nat) /\ Len(f) \in Nat
        /\ DOMAIN f = 1..Len(f)
    BY DEF RouteInv, RouteTypes
  <1>1. IsFiniteSet(E) /\ Cardinality(E) \in Nat /\ Cardinality(E) <= Len(f)
    <2>1. 1 \in Int /\ Len(f) \in Int
      BY <1>0
    <2>2. IsFiniteSet(1..Len(f)) /\ Cardinality(1..Len(f)) = IF 1 > Len(f) THEN 0 ELSE Len(f) - 1 + 1
      BY <2>1, FS_Interval
    <2>3. Cardinality(1..Len(f)) = Len(f)
      BY <1>0, <2>2
    <2>4. E \subseteq 1..Len(f)
      BY <1>0
    <2>5. IsFiniteSet(E) /\ Cardinality(E) <= Cardinality(1..Len(f))
      BY <2>2, <2>4, FS_Subset
    <2> QED BY <2>3, <2>5, FS_CardinalityType
  <1> DEFINE a == Len(f) - Cardinality(E)
             b == Len(f) + 1
  <1>2. a \in Nat /\ b \in Nat /\ a <= b /\ b - a = 1 + Cardinality(E)
    BY <1>0, <1>1
  <1> HIDE DEF a
  <1>3. S \subseteq Through(g, t, k, a, b)
    <2> SUFFICES ASSUME NEW n \in S PROVE n \in Through(g, t, k, a, b)
      OBVIOUS
    <2>1. n \in DOMAIN g /\ g[n] \in Grant /\ k \in {g[n].ip, All} /\ t - g[n].at < FormWindow
      BY <1>0
    <2>2. /\ g[n].life \in Nat /\ g[n].at \in Nat /\ g[n].at <= t /\ g[n].life <= Len(f)
          /\ \A j \in DOMAIN f : g[n].life < j => g[n].at <= f[j]
      BY <2>1 DEF RouteInv, InOrder, Grant
    <2> DEFINE I == (g[n].life + 1)..Len(f)
    <2>3. I \subseteq E
      <3> SUFFICES ASSUME NEW j \in I PROVE j \in E
        OBVIOUS
      <3>1. j \in DOMAIN f /\ g[n].life < j /\ f[j] \in Nat
        BY <1>0, <2>2
      <3>2. g[n].at <= f[j]
        BY <2>2, <3>1
      <3> QED BY <1>0, <2>1, <2>2, <3>1, <3>2, FormConstants
    <2>4. Cardinality(I) = Len(f) - g[n].life
      <3>1. g[n].life + 1 \in Int /\ Len(f) \in Int
        BY <1>0, <2>2
      <3>2. Cardinality(I) = IF g[n].life + 1 > Len(f) THEN 0 ELSE Len(f) - (g[n].life + 1) + 1
        BY <3>1, FS_Interval
      <3> QED BY <1>0, <2>2, <3>2
    <2>5. Cardinality(I) <= Cardinality(E)
      BY <1>1, <2>3, FS_Subset
    <2>6. a <= g[n].life /\ g[n].life < b
      BY <1>0, <1>1, <2>2, <2>4, <2>5 DEF a
    <2> QED BY <2>1, <2>6 DEF Through
  <1>4. Cardinality(Through(g, t, k, a, b)) <= Limit(k) * (b - a)
    BY <1>2 DEF RouteInv, LivesBounded
  <1>5. Limit(k) * (1 + Cardinality(E)) \in Nat
    BY <1>1, LimitIsNat
  <1>6. Through(g, t, k, a, b) \subseteq DOMAIN g
    BY DEF Through
  <1> HIDE DEF b
  <1> QED BY <1>0, <1>2, <1>3, <1>4, <1>5, <1>6, FewerThrough

\* The public demo and the waitlist: rateLimited lets no window have more requests than its
\* limits, per address and of all, for each life its map had in the window.
THEOREM LimitsAreKept == Spec => []LimitsHold
  <1>1. Init => FormInv
    BY FormStarts DEF Init
  <1>2. FormInv /\ [Next]_doorVars => FormInv'
    BY FormStepKeeps, StepsOfADoor
  <1>3. FormInv => LimitsHold
    <2> SUFFICES ASSUME FormInv, NEW r \in Routes
                 PROVE  LET let == { n \in DOMAIN grants[r] : clock - grants[r][n].at < FormWindow }
                            emptied == { j \in DOMAIN forgets[r] : clock - forgets[r][j] < FormWindow }
                            lives == 1 + Cardinality(emptied)
                        IN /\ Cardinality(let) <= Global * lives
                           /\ \A ip \in Ips :
                                 Cardinality({ n \in let : grants[r][n].ip = ip }) <= PerIp * lives
      BY DEF LimitsHold
    <2> DEFINE let == { n \in DOMAIN grants[r] : clock - grants[r][n].at < FormWindow }
               emptied == { j \in DOMAIN forgets[r] : clock - forgets[r][j] < FormWindow }
               Of(k) == { n \in DOMAIN grants[r] :
                            k \in {grants[r][n].ip, All} /\ clock - grants[r][n].at < FormWindow }
    <2>1. \A k \in Keys : Cardinality(Of(k)) <= Limit(k) * (1 + Cardinality(emptied))
      <3> SUFFICES ASSUME NEW k \in Keys
                   PROVE  Cardinality(Of(k)) <= Limit(k) * (1 + Cardinality(emptied))
        OBVIOUS
      <3>1. RouteInv(grants[r], forgets[r], hits[r], clock)
        BY DEF FormInv
      <3> QED BY <3>1, WindowWithinLives
    <2>2. Of(All) = let /\ Limit(All) = Global /\ All \in Keys
      BY DEF Limit, Keys
    <2>3. \A ip \in Ips : /\ Of(ip) = { n \in let : grants[r][n].ip = ip }
                          /\ Limit(ip) = PerIp /\ ip \in Keys
      BY FormConstants DEF Limit, Keys
    <2>4. Cardinality(let) <= Global * (1 + Cardinality(emptied))
      <3> HIDE DEF let, emptied, Of
      <3> QED BY <2>1, <2>2
    <2>5. \A ip \in Ips :
             Cardinality({ n \in let : grants[r][n].ip = ip }) <= PerIp * (1 + Cardinality(emptied))
      <3> HIDE DEF let, emptied, Of
      <3> QED BY <2>1, <2>3
    <2> QED BY <2>4, <2>5
  <1> QED BY <1>1, <1>2, <1>3, PTL DEF Spec

-----------------------------------------------------------------------------
\* The session.

\* The part of the state the argument rests on: a closure is known for every button that
\* can be disabled, and the faults are counted.
SignOutTypes ==
    /\ buttonBusy \subseteq Buttons
    /\ outs \in [Buttons -> {"none", "server", "force"}]
    /\ shellFaults \in Nat

ShellInv == SignOutTypes /\ ShellMatchesSession

\* A fault is counted, so that what is promised of an undisturbed tab is void after it.
LEMMA FaultCounts ==
    ASSUME SignOutTypes, ShellFault
    PROVE  shellFaults' \in Nat /\ shellFaults' # 0
  BY DEF SignOutTypes, ShellFault

\* proxy: the workbench is reached with a cookie only.
LEMMA LandingNeedsCookie ==
    ASSUME NEW to, Landing(to) \in Workbench
    PROVE  cookie
  BY DEF Landing, Workbench

\* The states the shell starts in: the login page, no closure, no cookie.
LEMMA ShellStarts == ShellInit => ShellInv
  BY DEF ShellInit, ShellInv, SignOutTypes, ShellMatchesSession, SignedOutIsOut, Workbench

\* Loading a page forgets every closure and every busy flag, and passes proxy.
LEMMA LoadKeeps ==
    ASSUME ShellInv, NEW to \in Places, Load(to)
    PROVE  ShellInv'
  <1>1. SignOutTypes'
    BY DEF ShellInv, SignOutTypes, Load
  <1>2. SignedOutIsOut'
    BY DEF ShellInv, ShellMatchesSession, SignedOutIsOut, Load, auth
  <1>3. place' \in Workbench => cookie'
    BY LandingNeedsCookie DEF Load, auth
  <1>4. buttonBusy' = {}
    BY DEF Load
  <1> QED
    BY <1>1, <1>2, <1>3, <1>4 DEF ShellInv, ShellMatchesSession

\* A link or the palette moves within the shell: closures and flags stay, and proxy is
\* passed again.
LEMMA MoveKeeps ==
    ASSUME ShellInv, NEW to \in Workbench, Arrive(Landing(to)),
           UNCHANGED <<outs, auth, shellFaults>>
    PROVE  ShellInv'
  <1>1. buttonBusy' = buttonBusy \/ buttonBusy' = {}
    BY DEF Arrive
  <1>2. SignOutTypes'
    BY <1>1 DEF ShellInv, SignOutTypes
  <1>3. SignedOutIsOut'
    BY DEF ShellInv, ShellMatchesSession, SignedOutIsOut, auth
  <1>4. place' \in Workbench => cookie'
    BY LandingNeedsCookie DEF Arrive, auth
  <1> QED
    BY <1>1, <1>2, <1>3, <1>4 DEF ShellInv, ShellMatchesSession

\* Steps that leave the session, the place and the closures alone, and at most enable a
\* button again: the sidebar, the palette, the forms' own state.
LEMMA SideStepKeeps ==
    ASSUME ShellInv, buttonBusy' \subseteq buttonBusy,
           UNCHANGED <<place, outs, auth, shellFaults>>
    PROVE  ShellInv'
  BY DEF ShellInv, SignOutTypes, ShellMatchesSession, SignedOutIsOut, auth

\* A step that counts a fault has only to keep a tab that signed out without a cookie.
LEMMA FaultKeeps ==
    ASSUME ShellInv, ShellFault, SignedOutIsOut', buttonBusy' \subseteq Buttons,
           outs' \in [Buttons -> {"none", "server", "force"}]
    PROVE  ShellInv'
  <1>1. shellFaults' \in Nat /\ shellFaults' # 0
    BY FaultCounts DEF ShellInv
  <1> QED
    BY <1>1 DEF ShellInv, SignOutTypes, ShellMatchesSession

\* signIn.email: the tab holds a cookie and arrives with a new shell, or stays.
LEMMA SignInKeeps ==
    ASSUME ShellInv, SignIn
    PROVE  ShellInv'
  <1>1. CASE cookie' = TRUE /\ session' = TRUE /\ signedOut' = FALSE /\ Arrive("queue")
    <2>1. buttonBusy' = {}
      BY <1>1 DEF SignIn, Arrive, Workbench
    <2>2. outs' = outs /\ shellFaults' = shellFaults
      BY DEF SignIn
    <2> QED
      BY <1>1, <2>1, <2>2 DEF ShellInv, SignOutTypes, ShellMatchesSession, SignedOutIsOut
  <1>2. CASE UNCHANGED <<place, buttonBusy, auth>>
    BY <1>2, SideStepKeeps DEF SignIn
  <1> QED
    BY <1>1, <1>2 DEF SignIn

\* A button starts its closure: it is disabled and has a sign-out under way.
LEMMA SignOutKeeps ==
    ASSUME ShellInv, NEW b \in Buttons, SignOut(b)
    PROVE  ShellInv'
  <1>1. outs'[b] = "server" /\ \A c \in Buttons : c # b => outs'[c] = outs[c]
    BY DEF SignOut, ShellInv, SignOutTypes
  <1>2. SignOutTypes'
    BY DEF SignOut, ShellInv, SignOutTypes
  <1>3. SignedOutIsOut'
    BY DEF SignOut, ShellInv, ShellMatchesSession, SignedOutIsOut, auth
  <1>4. buttonBusy' = buttonBusy \cup {b} /\ shellFaults' = shellFaults
    BY DEF SignOut
  <1> QED
    BY <1>1, <1>2, <1>3, <1>4 DEF ShellInv, SignOutTypes, ShellMatchesSession

\* The library's request takes the cookie or fails; the closure goes on either way.
LEMMA SignedOutAtServerKeeps ==
    ASSUME ShellInv, NEW b \in Buttons, SignedOutAtServer(b)
    PROVE  ShellInv'
  <1>1. /\ outs' \in [Buttons -> {"none", "server", "force"}]
        /\ outs'[b] = "force" /\ \A c \in Buttons : c # b => outs'[c] = outs[c]
    BY DEF SignedOutAtServer, ShellInv, SignOutTypes
  <1>2. buttonBusy' = buttonBusy /\ signedOut' = signedOut
    BY DEF SignedOutAtServer
  <1>3. CASE cookie' = FALSE /\ shellFaults' = shellFaults
    BY <1>1, <1>2, <1>3 DEF ShellInv, SignOutTypes, ShellMatchesSession, SignedOutIsOut
  <1>4. CASE ShellFault /\ cookie' = cookie
    <2>1. SignedOutIsOut' /\ buttonBusy' \subseteq Buttons
      BY <1>2, <1>4 DEF ShellInv, ShellMatchesSession, SignedOutIsOut, SignOutTypes
    <2> QED
      BY <1>1, <1>4, <2>1, FaultKeeps
  <1> QED
    BY <1>3, <1>4 DEF SignedOutAtServer

\* force-logout clears the cookie and leads to the login page, or it fails: with an error
\* status, which leads there too, or with an exception.
LEMMA ForceLogoutKeeps ==
    ASSUME ShellInv, NEW b \in Buttons, ForceLogout(b)
    PROVE  ShellInv'
  <1>1. outs' \in [Buttons -> {"none", "server", "force"}]
    BY DEF ForceLogout, ShellInv, SignOutTypes
  <1>2. CASE cookie' = ClearedCookie /\ Arrive("login") /\ shellFaults' = shellFaults
    <2>1. buttonBusy' = {} /\ place' \notin Workbench
      BY <1>2 DEF Arrive, Workbench
    <2>2. ~cookie'
      BY <1>2 DEF ClearedCookie
    <2> QED
      BY <1>1, <1>2, <2>1, <2>2 DEF ShellInv, SignOutTypes, ShellMatchesSession, SignedOutIsOut
  <1>3. CASE ShellFault /\ UNCHANGED auth /\ buttonBusy' \subseteq buttonBusy
    <2>1. SignedOutIsOut' /\ buttonBusy' \subseteq Buttons
      BY <1>3 DEF ShellInv, ShellMatchesSession, SignedOutIsOut, SignOutTypes, auth
    <2> QED
      BY <1>1, <1>3, <2>1, FaultKeeps
  <1>4. CASE ShellFault /\ UNCHANGED auth /\ Arrive(Landing("login"))
    <2>1. buttonBusy' \subseteq buttonBusy
      BY <1>4 DEF Arrive
    <2> QED
      BY <1>3, <1>4, <2>1
  <1> QED
    BY <1>2, <1>3, <1>4 DEF ForceLogout

\* Every step keeps the invariant.
LEMMA ShellStepKeeps == ShellInv /\ [ShellNext]_shellVars => ShellInv'
  <1> SUFFICES ASSUME ShellInv, [ShellNext]_shellVars
               PROVE  ShellInv'
    OBVIOUS
  <1>1. ASSUME NEW to \in Places, Load(to) PROVE ShellInv'
    BY <1>1, LoadKeeps
  <1>2. ASSUME NEW to \in Workbench, Follow(to) \/ Navigate(to) PROVE ShellInv'
    BY <1>2, MoveKeeps DEF Follow, Navigate
  <1>3. CASE Resize \/ toggleSidebar
    <2>1. buttonBusy' \subseteq buttonBusy /\ UNCHANGED <<place, outs, auth, shellFaults>>
      BY <1>3 DEF Resize, toggleSidebar, MenuRemounted, page
    <2> QED
      BY <2>1, SideStepKeeps
  <1>4. CASE OpenPalette \/ ClosePalette \/ SubmitLogin \/ SubmitQuery \/ Answered
    <2>1. buttonBusy' \subseteq buttonBusy /\ UNCHANGED <<place, outs, auth, shellFaults>>
      BY <1>4 DEF OpenPalette, ClosePalette, SubmitLogin, SubmitQuery, Answered, page, signOuts
    <2> QED
      BY <2>1, SideStepKeeps
  <1>5. CASE SignIn
    BY <1>5, SignInKeeps
  <1>6. CASE RequestThrows \/ OtherSignsIn \/ SessionEnds
    <2>1. ShellFault /\ buttonBusy' = buttonBusy /\ outs' = outs
      BY <1>6 DEF RequestThrows, OtherSignsIn, SessionEnds, signOuts
    <2>2. SignedOutIsOut'
      BY <1>6 DEF RequestThrows, OtherSignsIn, SessionEnds, auth, ShellInv, ShellMatchesSession,
                  SignedOutIsOut
    <2> QED
      BY <2>1, <2>2, FaultKeeps DEF ShellInv, SignOutTypes
  <1>7. ASSUME NEW b \in Buttons, SignOut(b) \/ SignOutSteps(b) PROVE ShellInv'
    BY <1>7, SignOutKeeps, SignedOutAtServerKeeps, ForceLogoutKeeps DEF SignOutSteps
  <1>8. CASE UNCHANGED shellVars
    <2>1. buttonBusy' \subseteq buttonBusy /\ UNCHANGED <<place, outs, auth, shellFaults>>
      BY <1>8 DEF shellVars, page, signOuts
    <2> QED
      BY <2>1, SideStepKeeps
  <1> QED
    BY <1>1, <1>2, <1>3, <1>4, <1>5, <1>6, <1>7, <1>8 DEF ShellNext, PageSteps

\* A tab that signed out holds no cookie until somebody signs in again, and while nothing
\* has failed a disabled button means a sign-out under way and the workbench without one
\* means a cookie: for any number of sign-out buttons, of tabs that sign in, of sessions
\* that end and of requests that fail.
THEOREM SessionIsShown == Spec => []ShellMatchesSession
  <1>1. ShellInv => ShellMatchesSession
    BY DEF ShellInv
  <1>2. Init => ShellInv
    BY ShellStarts DEF Init
  <1>3. ShellInv /\ [Next]_doorVars => ShellInv'
    BY ShellStepKeeps, StepsOfADoor
  <1> QED BY <1>1, <1>2, <1>3, PTL DEF Spec
=============================================================================
