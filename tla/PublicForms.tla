---------------------------- MODULE PublicForms ----------------------------
(***************************************************************************)
(* apps/workbench: the public demo and the waitlist with their rate limits *)
(* (api/demo, try-demo-section.tsx, api/waitlist, waitlist-form.tsx).      *)
(*                                                                         *)
(* One tab with an address of its own and other visitors of the demo.  The *)
(* two limiters are the same code with limits of their own; here they      *)
(* share the constants.  What a form holds and what a service answers is   *)
(* kept to what the routes tell apart.                                     *)
(***************************************************************************)
EXTENDS Naturals, Sequences, FiniteSets

CONSTANTS
    Ips, MyIp,      \* addresses; the tab's own
    PerIp, Global,  \* PER_IP_LIMIT and GLOBAL_LIMIT
    FormWindow,     \* WINDOW_MS, in ticks of the clock
    MapLimit,       \* keys the map of hits may hold
    MaxClock,       \* bound: time
    MaxPosts,       \* bound: requests let through before the last is made
    MaxFormFaults   \* bound: services that fail and ends of the server

Routes == {"demo", "waitlist"}

\* What the waitlist's form holds: what the schema accepts, what it refuses, and a form
\* whose hidden field is filled.
Entries == {"complete", "short", "bot"}
All == "*"
Keys == Ips \cup {All}

ASSUME FormConstants ==
    /\ All \notin Ips /\ MyIp \in Ips
    /\ PerIp \in Nat \ {0} /\ Global \in Nat \ {0} /\ FormWindow \in Nat \ {0} /\ MapLimit \in Nat
    /\ MaxClock \in Nat /\ MaxPosts \in Nat /\ MaxFormFaults \in Nat

VARIABLES
    clock,
    hits,       \* hits[route][key]: the hits the map has for the key, [no, at]; the code keeps
                \* the times alone, and no tells the requests of one time apart
    grants,     \* history: [ip, at, life] of the requests a route let through; life is how
                \* often its map had been emptied before
    forgets,    \* history: times at which a map was emptied
    area,       \* the page: "home" or "waitlist"
    demoLive,   \* of the demo section: "unknown", "live", "paused"
    entry,      \* of the waitlist's form
    stage,      \* "idle", or where the request of the page's form is
    outcome,    \* what the form shows: "none", "ok", "error"; "pass", "fail" of verify
    formFaults

formLimits == <<hits, grants, forgets>>
form == <<demoLive, entry, stage, outcome>>
formVars == <<clock, formLimits, area, form, formFaults>>

FormInit ==
    /\ clock = 0
    /\ hits = [r \in Routes |-> [k \in Keys |-> {}]]
    /\ grants = [r \in Routes |-> <<>>] /\ forgets = [r \in Routes |-> <<>>]
    /\ area = "home" /\ demoLive = "unknown" /\ entry = "short"
    /\ stage = "idle" /\ outcome = "none"
    /\ formFaults = 0

FormFault == formFaults < MaxFormFaults /\ formFaults' = formFaults + 1

TickClock ==
    /\ clock < MaxClock
    /\ clock' = clock + 1
    /\ UNCHANGED <<formLimits, area, form, formFaults>>

-----------------------------------------------------------------------------
\* rateLimited

\* Mutant of InWindow: a hit is forgotten a tick early.
InWindow_early(t) == clock - t + 1 < FormWindow

InWindow(t) == clock - t < FormWindow

Recent(r, k) == { h \in hits[r][k] : InWindow(h.at) }

\* No more requests are let through of the address, or of all.
Exhausted(r, ip) == Cardinality(Recent(r, ip)) >= PerIp \/ Cardinality(Recent(r, All)) >= Global

\* A request from ip on route r is counted and let through.  A map that has grown past
\* its limit is emptied, the count of all requests with it.
Admit(r, ip) ==
    LET hit == [no |-> Len(grants[r]) + 1, at |-> clock]
        counted == [hits[r] EXCEPT ![ip] = Recent(r, ip) \cup {hit},
                                   ![All] = Recent(r, All) \cup {hit}]
        full == Cardinality({k \in Keys : counted[k] # {}}) > MapLimit
    IN /\ ~Exhausted(r, ip)
       /\ hits' = [hits EXCEPT ![r] = IF full THEN [k \in Keys |-> {}] ELSE counted]
       /\ grants' = [grants EXCEPT ![r] =
                       Append(@, [ip |-> ip, at |-> clock, life |-> Len(forgets[r])])]
       /\ forgets' = IF full THEN [forgets EXCEPT ![r] = Append(@, clock)] ELSE forgets

MorePosts == Len(grants["demo"]) + Len(grants["waitlist"]) < MaxPosts

\* Another visitor runs the demo.
OtherRuns(ip) ==
    /\ MorePosts
    /\ Admit("demo", ip)
    /\ UNCHANGED <<clock, area, form, formFaults>>

\* The server restarts: the maps are in its memory.
RestartServer ==
    /\ FormFault
    /\ hits' = [r \in Routes |-> [k \in Keys |-> {}]]
    /\ forgets' = [r \in Routes |-> Append(forgets[r], clock)]
    /\ UNCHANGED <<clock, grants, area, form>>

-----------------------------------------------------------------------------
\* The demo and the waitlist.

FormStep(next, shows) == stage' = next /\ outcome' = shows

formRest == <<clock, area, demoLive, entry>>

\* The tab loads the other page.
Visit ==
    /\ area' \in {"home", "waitlist"} \ {area}
    /\ demoLive' = "unknown" /\ entry' = "short" /\ FormStep("idle", "none")
    /\ UNCHANGED <<clock, formLimits, formFaults>>

\* The demo is live when both of its services answer their health checks.
LiveIf(collector, orchestrator) == IF collector /\ orchestrator THEN "live" ELSE "paused"

\* The section asks for it; without an answer the demo is paused.
DemoStatus ==
    /\ area = "home" /\ demoLive = "unknown"
    /\ \E collector, orchestrator \in BOOLEAN : demoLive' = LiveIf(collector, orchestrator)
    /\ IF demoLive' = "live" THEN UNCHANGED formFaults ELSE FormFault
    /\ UNCHANGED <<clock, formLimits, area, entry, stage, outcome>>

\* The section has a button only while the demo is not paused, and it is disabled until
\* the status is known and while a run is on.
RunDemo ==
    /\ area = "home" /\ demoLive = "live" /\ stage = "idle" /\ MorePosts
    /\ FormStep("demo", "none")
    /\ UNCHANGED <<formLimits, formRest, formFaults>>

\* The form is filled in and sent; after an error it is still there, after a success it
\* gives way to a message.
SubmitWaitlist ==
    /\ area = "waitlist" /\ outcome # "ok" /\ stage = "idle" /\ MorePosts
    /\ entry' \in Entries
    /\ FormStep("waitlist", "none")
    /\ UNCHANGED <<formLimits, clock, area, demoLive, formFaults>>

\* POST of the demo or the waitlist: 429 or a place in the window.
Post ==
    /\ stage \in Routes
    /\ \/ /\ Exhausted(stage, MyIp)
          /\ FormStep("idle", "error") /\ UNCHANGED formLimits
       \/ Admit(stage, MyIp) /\ FormStep(IF stage = "demo" THEN "ingest" ELSE "validate", "none")
    /\ UNCHANGED <<formRest, formFaults>>

\* A collector that fails is noted and the demo goes on.
Ingest ==
    /\ stage = "ingest"
    /\ FormStep("triage", "none")
    /\ UNCHANGED formFaults \/ FormFault
    /\ UNCHANGED <<formLimits, formRest>>

\* Without the orchestrator the answer is 503.
DemoTriage ==
    /\ stage = "triage"
    /\ \/ FormStep("verify", "none") /\ UNCHANGED formFaults
       \/ FormStep("idle", "error") /\ FormFault
    /\ UNCHANGED <<formLimits, formRest>>

\* The card shows the report of the log's verification as it is, PASS also when the
\* collector or the envelope failed; without a report it says what did.
DemoResultCard(report) == IF report = "none" THEN "error" ELSE report

\* The envelope and the report of the whole log are fetched together.
DemoVerify ==
    /\ stage = "verify"
    /\ \E envelope \in BOOLEAN, report \in {"pass", "fail", "none"} :
        /\ FormStep("idle", DemoResultCard(report))
        /\ IF envelope /\ report # "none" THEN UNCHANGED formFaults ELSE FormFault
    /\ UNCHANGED <<formLimits, formRest>>

\* The request has its place in the window by now.  A form that does not validate is
\* refused, one with the hidden field filled is dropped as if it had been accepted.
Validate ==
    /\ stage = "validate"
    /\ FormStep(IF entry = "complete" THEN "mail" ELSE "idle",
                CASE entry = "complete" -> "none" [] entry = "short" -> "error" [] OTHER -> "ok")
    /\ UNCHANGED <<formLimits, formRest, formFaults>>

\* A mail is sent, twice when the first sender is not verified; a server without a key
\* accepts without a mail, in production it refuses.
Mail ==
    /\ stage \in {"mail", "remail"}
    /\ \/ FormStep("idle", "ok") /\ UNCHANGED formFaults
       \/ stage = "mail" /\ FormStep("idle", "error") /\ UNCHANGED formFaults
       \/ stage = "mail" /\ FormStep("remail", "none") /\ FormFault
       \/ FormStep("idle", "error") /\ FormFault
    /\ UNCHANGED <<formLimits, formRest>>

\* The tab's request fails on its way: catch and finally of the forms.
FormFails ==
    /\ stage # "idle" /\ FormFault
    /\ FormStep("idle", "error")
    /\ UNCHANGED <<formLimits, formRest>>

-----------------------------------------------------------------------------
FormRequests == Post \/ Ingest \/ DemoTriage \/ DemoVerify \/ Validate \/ Mail

FormNext ==
    \/ TickClock \/ RestartServer \/ \E ip \in Ips : OtherRuns(ip)
    \/ Visit \/ DemoStatus \/ RunDemo \/ SubmitWaitlist \/ FormRequests \/ FormFails

-----------------------------------------------------------------------------
\* Properties.

\* Within any window a route lets through no more requests than its limits, of one
\* address and of all, times one more than the times its map was emptied meanwhile: the
\* guard that keeps the map small and a restart both forget every count.
LimitsHold ==
    \A r \in Routes :
        LET let == { n \in DOMAIN grants[r] : clock - grants[r][n].at < FormWindow }
            emptied == { j \in DOMAIN forgets[r] : clock - forgets[r][j] < FormWindow }
            lives == 1 + Cardinality(emptied)
        IN /\ Cardinality(let) <= Global * lives
           /\ \A ip \in Ips : Cardinality({ n \in let : grants[r][n].ip = ip }) <= PerIp * lives
=============================================================================
