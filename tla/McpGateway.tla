----------------------------- MODULE McpGateway -----------------------------
(***************************************************************************)
(* crates/attest-mcp-gateway: POST /invoke (server.rs), the tools behind   *)
(* it (tools.rs), the rate limit of query_warm_tier (warm_limit.rs), and   *)
(* the side of the orchestrator's client that decides what a call was      *)
(* (mcp_client.rs).                                                        *)
(*                                                                         *)
(* Calls run concurrently; a handler gives up the processor only while it  *)
(* waits for the control plane's warm query.  Time is counted in ticks.    *)
(* A request keeps what the policies look at: the role, the tool, the      *)
(* confidence and, of the arguments, whether the SQL is stacked, the limit *)
(* argument (0 when absent) and the limit in the SQL.                      *)
(***************************************************************************)
EXTENDS PolicyEngine, Sequences, FiniteSets

CONSTANTS
    Calls,          \* calls of the agents
    Requests,       \* [role, tool, confidence, stacked, limit, sql_limit]
    RowCounts,      \* numbers of rows the control plane may return
    MaxPerMinute,   \* WARM_TIER_MAX_QPM
    Minute,         \* ticks of the limiter's 60 s
    ClientTimeout,  \* ticks of the client's 30 s
    MaxTime         \* bound of the clock

ASSUME GatewayConstants ==
    /\ MaxPerMinute \in Nat /\ Minute \in Nat \ {0}
    /\ ClientTimeout \in Nat /\ MaxTime \in Nat
    /\ \A r \in Requests : r.role \in Roles     \* serde rejects any other AgentRole

VARIABLES
    now,
    limiter,    \* [window_start, count]
    pc,         \* "idle", "sent", "querying", "answered", "recorded"
    req, sent,  \* the request of a call and when it was sent
    response,   \* the gateway's answer
    record,     \* the policy decision the client records for the call
    granted     \* when acquire succeeded, for every such call

gatewayVars == <<now, limiter, pc, req, sent, response, record, granted>>

\* The gateway registers the tools it can dispatch.
Registered ==
    {"query_hot_tier", "query_warm_tier", "lookup_threat_intel", "get_asset_context",
     "get_user_baseline", "analyze_code_snippet", "sandbox_detonate", "propose_detection_pr",
     "request_human_review", "idp_revoke_session", "edr_isolate_host", "firewall_block_ioc"}

NoRequest == [role |-> "none", tool |-> "none", confidence |-> 0, stacked |-> FALSE,
              limit |-> 0, sql_limit |-> 0]

NoResponse == [status |-> 0, decision |-> "none", rows |-> 0, flagged |-> FALSE]

GatewayInit ==
    /\ now = 0
    /\ limiter = [window_start |-> 0, count |-> 0]
    /\ pc = [c \in Calls |-> "idle"]
    /\ req = [c \in Calls |-> NoRequest]
    /\ sent = [c \in Calls |-> 0]
    /\ response = [c \in Calls |-> NoResponse]
    /\ record = [c \in Calls |-> "none"]
    /\ granted = <<>>

-----------------------------------------------------------------------------
RowCap == 10000

\* authorize_query: hot and warm queries that look like a bulk export.
authorize_query(r) ==
    AllowIf(r.tool \in {"query_warm_tier", "query_hot_tier"} =>
              ~r.stacked /\ r.limit <= RowCap /\ r.sql_limit <= RowCap)

\* Mutant of PolicyDecision: the query check replaces the role's decision.
PolicyDecision_query_only(r) == authorize_query(r)

\* The gateway's context: one target, not protected, no automation flag.
PolicyDecision(r) ==
    LET role == authorize(r.role, r.tool,
                  [calibrated_confidence |-> r.confidence, target_is_protected |-> FALSE,
                   recent_actions_last_hour |-> 0, blast_radius |-> 1,
                   tenant_allows_automation |-> FALSE])
    IN  IF role = "allow" THEN authorize_query(r) ELSE role

\* Mutant of Window: a new window resets the count and keeps its old start.
Window_keeps_start ==
    IF now - limiter.window_start >= Minute THEN [limiter EXCEPT !.count = 0] ELSE limiter

\* The limiter's window when acquire looks at it.
Window ==
    IF now - limiter.window_start >= Minute
    THEN [window_start |-> now, count |-> 0]
    ELSE limiter

HasBudget == Window.count < MaxPerMinute

Respond(c, status, decision, rows, flagged) ==
    /\ response' = [response EXCEPT ![c] = [status |-> status, decision |-> decision,
                                            rows |-> rows, flagged |-> flagged]]
    /\ pc' = [pc EXCEPT ![c] = "answered"]

\* Rows left of a warm query after the cap: `limit` or 500, at most 10 000.
CapRows(r, n) ==
    LET limit == IF r.limit = 0 THEN 500 ELSE IF r.limit > RowCap THEN RowCap ELSE r.limit
    IN  IF n > limit THEN limit ELSE n

\* inspect_tool_result: a result that reads like instructions is withheld.
Deliver(c, n, flagged) ==
    IF flagged THEN Respond(c, 403, "deny", 0, FALSE) ELSE Respond(c, 200, "allow", n, FALSE)

-----------------------------------------------------------------------------
\* McpClient::invoke posts the request.
Send(c) ==
    /\ pc[c] = "idle"
    /\ \E r \in Requests : req' = [req EXCEPT ![c] = r]
    /\ sent' = [sent EXCEPT ![c] = now]
    /\ pc' = [pc EXCEPT ![c] = "sent"]
    /\ UNCHANGED <<now, limiter, response, record, granted>>

\* The policy denies the call, or the tool is unknown: nothing is dispatched.
Refuse(c) ==
    /\ pc[c] = "sent"
    /\ \/ /\ PolicyDecision(req[c]) # "allow"
          /\ Respond(c, 403, PolicyDecision(req[c]), 0, FALSE)
       \/ /\ PolicyDecision(req[c]) = "allow"
          /\ req[c].tool \notin Registered
          /\ Respond(c, 404, "allow", 0, FALSE)
    /\ UNCHANGED <<now, limiter, req, sent, record, granted>>

Dispatched(c) ==
    /\ pc[c] = "sent"
    /\ PolicyDecision(req[c]) = "allow"
    /\ req[c].tool \in Registered

\* A tool other than query_warm_tier answers at once from its stub.
DispatchStub(c) ==
    /\ Dispatched(c)
    /\ req[c].tool # "query_warm_tier"
    /\ \E flagged \in BOOLEAN : Deliver(c, 1, flagged)
    /\ UNCHANGED <<now, limiter, req, sent, record, granted>>

\* query_warm_tier takes its place in the window and asks the control plane ...
DispatchWarm(c) ==
    /\ Dispatched(c)
    /\ req[c].tool = "query_warm_tier"
    /\ HasBudget
    /\ limiter' = [Window EXCEPT !.count = @ + 1]
    /\ granted' = Append(granted, now)
    /\ pc' = [pc EXCEPT ![c] = "querying"]
    /\ UNCHANGED <<now, req, sent, response, record>>

\* ... or is over the limit, which is an error behind an allowing policy.
OverLimit(c) ==
    /\ Dispatched(c)
    /\ req[c].tool = "query_warm_tier"
    /\ ~HasBudget
    /\ limiter' = Window
    /\ Respond(c, 500, "allow", 0, FALSE)
    /\ UNCHANGED <<now, req, sent, record, granted>>

QueryReturns(c) ==
    /\ pc[c] = "querying"
    /\ \E n \in RowCounts, flagged \in BOOLEAN : Deliver(c, CapRows(req[c], n), flagged)
    /\ UNCHANGED <<now, limiter, req, sent, record, granted>>

QueryFails(c) ==
    /\ pc[c] = "querying"
    /\ Respond(c, 500, "allow", 0, FALSE)
    /\ UNCHANGED <<now, limiter, req, sent, record, granted>>

\* The client takes the decision out of the answer, whatever its status ...
Receive(c) ==
    /\ pc[c] = "answered"
    /\ record' = [record EXCEPT ![c] = response[c].decision]
    /\ pc' = [pc EXCEPT ![c] = "recorded"]
    /\ UNCHANGED <<now, limiter, req, sent, response, granted>>

\* ... or gives up, which drops the handler; the loop records an error.
ClientGivesUp(c) ==
    /\ pc[c] \in {"sent", "querying"}
    /\ now - sent[c] >= ClientTimeout
    /\ record' = [record EXCEPT ![c] = "error"]
    /\ pc' = [pc EXCEPT ![c] = "recorded"]
    /\ UNCHANGED <<now, limiter, req, sent, response, granted>>

Tick ==
    /\ now < MaxTime
    /\ now' = now + 1
    /\ UNCHANGED <<limiter, pc, req, sent, response, record, granted>>

GatewayNext ==
    \/ Tick
    \/ \E c \in Calls :
          \/ Send(c) \/ Refuse(c) \/ DispatchStub(c) \/ DispatchWarm(c) \/ OverLimit(c)
          \/ QueryReturns(c) \/ QueryFails(c) \/ Receive(c) \/ ClientGivesUp(c)

-----------------------------------------------------------------------------
\* Properties.

\* Budget slots granted from time t on, for one minute.
GrantsFrom(t) == Cardinality({ i \in DOMAIN granted : granted[i] \in t..(t + Minute - 1) })

\* No span of a minute, however it lies across the limiter's windows, lets more
\* than two budgets of warm queries through.
TwoBudgetsAtMost == \A t \in 0..now : GrantsFrom(t) <= 2 * MaxPerMinute

Containment == {"idp_revoke_session", "edr_isolate_host", "firewall_block_ioc"}

\* Only the Responder's calls reach a containment tool, and no hot or warm query that is
\* stacked, or asks for more rows than the cap in its arguments or its SQL, takes a slot of
\* the budget or gets a result.
OnlyAuthorizedRuns ==
    \A c \in Calls : pc[c] = "querying" \/ response[c].status = 200 =>
        /\ req[c].tool \in Containment => req[c].role = "responder"
        /\ req[c].tool \in {"query_warm_tier", "query_hot_tier"} =>
              ~req[c].stacked /\ req[c].limit <= RowCap /\ req[c].sql_limit <= RowCap
=============================================================================
