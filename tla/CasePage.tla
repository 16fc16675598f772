------------------------------ MODULE CasePage ------------------------------
(***************************************************************************)
(* apps/workbench: one analyst's tab and the page of one case.  The server *)
(* component (cases/[id]/page.tsx) chooses what is rendered, useTriage     *)
(* asks for the verdict, case-store.ts keeps the case in sessionStorage,   *)
(* and case-workbench.tsx takes the analyst's decision.  The requests go   *)
(* to the triage route and the row of CaseTriage.                          *)
(*                                                                         *)
(* A mount is the time the page is shown; a load is the time until the tab *)
(* is reloaded, which takes the module's memory and the pending answers    *)
(* with it but not the store.  An effect runs on mount and when a value it *)
(* depends on has changed, before the next event is handled.               *)
(***************************************************************************)
EXTENDS CaseTriage

CONSTANTS
    TabRequests,    \* the requests the tab may post
    MaxVisits,      \* bound: mounts of the page
    MaxDisturbed    \* bound: failures, restarts and reloads together

\* A mount posts once at most.
ASSUME PageConstants ==
    /\ TabRequests \subseteq Requests /\ MaxVisits \in 0..Cardinality(TabRequests)
    /\ MaxDisturbed \in Nat

VARIABLES
    entry,      \* the case in the store: [there, status, started, verdict, terminal, disposition]
    shown,      \* "none", "expired", "client": what the tab shows of the case
    check,      \* the mount's GET: [at: "none", "sent", "failed", "read", row: as read]
    checked,    \* serverChecked of the mount
    pageError,  \* error of the mount
    firedRef,   \* of the mount
    due,        \* the POST effect has to run
    fired,      \* _triageFired of the load has the case
    posts,      \* requests of the load that are not answered to it
    hears,      \* requests whose effect is still in place (mounted in its closure)
    override,   \* the override posted last: "none", "sent", "recorded", "refused", "failed"
    visits, reloads, lost

tab == <<entry, shown, check, checked, pageError, firedRef, due, fired, posts, hears,
         override, visits, reloads, lost>>

pageVars == <<vars, tab>>

mount == <<shown, check, checked, pageError, firedRef>>
load == <<fired, posts, hears>>
pageBounds == <<visits, reloads, lost>>

NoEntry == [there |-> FALSE, status |-> "idle", started |-> "never", verdict |-> None,
            terminal |-> FALSE, disposition |-> "none"]

NoCheck == [at |-> "none", row |-> [status |-> "missing", verdict |-> None]]

PageInit ==
    /\ Init
    /\ entry = NoEntry
    /\ shown = "none" /\ check = NoCheck /\ checked = FALSE /\ pageError = FALSE
    /\ firedRef = FALSE /\ due = FALSE
    /\ fired = FALSE /\ posts = {} /\ hears = {}
    /\ override = "none" /\ visits = 0 /\ reloads = 0 /\ lost = 0

Shown == shown = "client"

Disturbances == errors + faults + restarts + reloads + lost

-----------------------------------------------------------------------------
\* The store.  Every write but initCase leaves a case that is not there alone.

\* Mutant of initCase: the case is written anew.
initCase_anew == [NoEntry EXCEPT !.there = TRUE]

initCase == [entry EXCEPT !.there = TRUE]

Write(e) == IF entry.there THEN e ELSE entry

startTriage == Write([entry EXCEPT !.status = "running", !.started = "fresh"])

setVerdict(v) == Write([entry EXCEPT !.verdict = v, !.status = "complete"])

failTriage == Write([entry EXCEPT !.status = "failed"])

setApproved == Write([entry EXCEPT !.disposition = "approved"])

setOverride == Write([entry EXCEPT !.disposition = "override"])

\* What the POST effect depends on and the store may change.
Deps(e) == <<e.there, e.verdict, e.status, e.started, e.terminal>>

\* The store has a new value: the effect is due when it depends on what changed, and the
\* closure of its last run is over.
Store(e) ==
    /\ entry' = e
    /\ due' = (due \/ (Shown /\ Deps(e) # Deps(entry)))
    /\ hears' = IF Deps(e) # Deps(entry) THEN {} ELSE hears

-----------------------------------------------------------------------------
\* CasePage renders the live event, else the persisted one, else what the store has; a
\* live event that is not persisted yet is stored on the side, which may fail (of the
\* event only its row is kept).
Rendered(live, persisted) == IF live \/ persisted \/ entry.there THEN "client" ELSE "expired"

\* Is there a live event?  It may have left the hot tier, or the request may fail.  So may
\* that of the user's baseline, which only adds to the text.
fetchEvent == BOOLEAN

\* The page is mounted: the store is hydrated, initCase runs and the GET is sent.  The
\* query for the persisted event may fail.
OpenCase ==
    /\ shown = "none" /\ visits < MaxVisits
    /\ visits' = visits + 1
    /\ \/ /\ ensureCaseSchema
          /\ \E live \in fetchEvent, persisted \in {FALSE, row.status # "missing"} :
                /\ shown' = Rendered(live, persisted)
                /\ row' \in IF live THEN {row, Snapshot} ELSE {row}
       \/ /\ schema = "broken"
          /\ \E live \in fetchEvent : shown' = Rendered(live, FALSE)
          /\ UNCHANGED <<row, schema>>
    /\ IF shown' = "client"
       THEN entry' = initCase /\ check' = [NoCheck EXCEPT !.at = "sent"]
       ELSE UNCHANGED <<entry, check>>
    /\ checked' = FALSE /\ pageError' = FALSE /\ firedRef' = FALSE /\ due' = FALSE
    /\ UNCHANGED <<cache, in_flight, pc, seen, run, joined, answer, history, bounds, load,
                   override, reloads, lost>>

\* The analyst goes to another page; the GET's answer will be ignored.
Leave ==
    /\ shown # "none"
    /\ shown' = "none" /\ check' = NoCheck /\ due' = FALSE /\ hears' = {}
    /\ UNCHANGED <<vars, entry, checked, pageError, firedRef, fired, posts, override,
                   pageBounds>>

Reload ==
    /\ Disturbances < MaxDisturbed /\ reloads' = reloads + 1
    /\ shown' = "none" /\ check' = NoCheck /\ due' = FALSE
    /\ fired' = FALSE /\ posts' = {} /\ hears' = {}
    /\ UNCHANGED <<vars, entry, checked, pageError, firedRef, override, visits, lost>>

\* GET of the triage route reads the row; what it answers is handled later.
GetStatus ==
    /\ check.at = "sent"
    /\ ensureCaseSchema
    /\ check' = [at |-> "read", row |-> row]
    /\ UNCHANGED <<row, cache, in_flight, pc, seen, run, joined, answer, history, bounds, entry,
                   override, shown, checked, pageError, firedRef, due, load, pageBounds>>

GetFails ==
    /\ check.at = "sent"
    /\ \/ Disturbances < MaxDisturbed /\ lost' = lost + 1
       \/ schema = "broken" /\ UNCHANGED lost
    /\ check' = [check EXCEPT !.at = "failed"]
    /\ UNCHANGED <<vars, entry, shown, checked, pageError, firedRef, due, load, override,
                   visits, reloads>>

\* The GET's answer: a verdict is taken over, a stored failure shown, and otherwise the
\* POST effect may run.
StatusArrives ==
    /\ check.at \in {"read", "failed"} /\ check' = NoCheck
    /\ \/ /\ check.row.verdict # None
          /\ Store(setVerdict(check.row.verdict))
          /\ fired' = TRUE
          /\ UNCHANGED <<checked, pageError>>
       \/ /\ check.row.verdict = None /\ check.row.status = "failed"
          /\ Store(failTriage)
          /\ pageError' = TRUE
          /\ UNCHANGED <<checked, fired>>
       \/ /\ check.row.verdict = None /\ check.row.status # "failed"
          /\ checked' = TRUE /\ due' = TRUE
          /\ UNCHANGED <<entry, pageError, fired, hears>>
    /\ UNCHANGED <<vars, shown, firedRef, posts, override, pageBounds>>

-----------------------------------------------------------------------------
\* The POST effect.

Wanted == checked /\ entry.there /\ entry.verdict = None /\ ~entry.terminal

RunningIsFresh == entry.status = "running" /\ entry.started = "fresh"

\* Mutant of FiredBefore: only the mount remembers that it fired.
FiredBefore_mount == FALSE

\* A running marker that is stale may be fired again.
FiredBefore == fired /\ entry.status # "running"

Fires == Wanted /\ ~RunningIsFresh /\ ~firedRef /\ ~FiredBefore

EffectReturns ==
    /\ due /\ Shown /\ ~Fires
    /\ due' = FALSE
    /\ fired' = (fired /\ ~(Wanted /\ ~RunningIsFresh /\ entry.status = "running"))
    /\ UNCHANGED <<vars, entry, mount, posts, hears, override, pageBounds>>

\* startTriage changes what the effect depends on: it is due again, and the closure that
\* waits for the answer counts as unmounted.
Fire(r) ==
    /\ due /\ Shown /\ Fires
    /\ Arrive(r)
    /\ firedRef' = TRUE /\ fired' = TRUE
    /\ entry' = startTriage
    /\ due' = (Deps(startTriage) # Deps(entry))
    /\ posts' = posts \cup {r}
    /\ hears' = IF Deps(startTriage) # Deps(entry) THEN {} ELSE {r}
    /\ UNCHANGED <<shown, check, checked, pageError, override, pageBounds>>

\* A request of the load that will not be answered by the process that got it.
Unanswered(r) == pc[r] = "gone"

\* Mutant of TriageAnswered: the verdict is dropped, like the error, without its effect.
TriageAnswered_if_mounted(r) ==
    /\ r \in posts /\ (pc[r] = "answered" \/ Unanswered(r))
    /\ posts' = posts \ {r}
    /\ IF pc[r] = "answered" /\ answer[r] # None
       THEN Store(IF r \in hears THEN setVerdict(answer[r]) ELSE entry) /\ UNCHANGED pageError
       ELSE Store(failTriage) /\ pageError' = (pageError \/ r \in hears)
    /\ UNCHANGED <<vars, shown, check, checked, firedRef, fired, override, pageBounds>>

\* The POST is answered: a verdict is stored wherever the analyst is by then, a failure
\* too, and shown if the effect is in place.
TriageAnswered(r) ==
    /\ r \in posts /\ (pc[r] = "answered" \/ Unanswered(r))
    /\ posts' = posts \ {r}
    /\ IF pc[r] = "answered" /\ answer[r] # None
       THEN Store(setVerdict(answer[r])) /\ UNCHANGED pageError
       ELSE Store(failTriage) /\ pageError' = (pageError \/ r \in hears)
    /\ UNCHANGED <<vars, shown, check, checked, firedRef, fired, override, pageBounds>>

\* RUNNING_TTL_MS goes by; nobody is told.
MarkerExpires ==
    /\ entry.status = "running" /\ entry.started = "fresh"
    /\ entry' = [entry EXCEPT !.started = "stale"]
    /\ UNCHANGED <<vars, mount, due, load, override, pageBounds>>

\* The trace stream brings the final_verdict or envelope step of an investigation.
TerminalStep ==
    /\ Shown /\ entry.there /\ ~entry.terminal /\ \E r \in Requests : run[r] = "ok"
    /\ Store([entry EXCEPT !.terminal = TRUE])
    /\ UNCHANGED <<vars, mount, fired, posts, override, pageBounds>>

\* Another case needs the room of this one, the store being full.
evictIfNeeded ==
    /\ shown = "none" /\ entry.there
    /\ entry' = NoEntry
    /\ UNCHANGED <<vars, mount, due, load, override, pageBounds>>

-----------------------------------------------------------------------------
\* The analyst's decision.  The page keeps a copy of it for a case that is not in the
\* store; while the page is shown the case is there.

CanDecide == Shown /\ entry.disposition = "none"

handleApprove ==
    /\ CanDecide
    /\ Store(setApproved)
    /\ UNCHANGED <<vars, mount, fired, posts, override, pageBounds>>

\* The override is shown as recorded before it is posted.
handleOverrideSubmit ==
    /\ CanDecide
    /\ Store(setOverride)
    /\ override' = "sent"
    /\ UNCHANGED <<vars, mount, fired, posts, pageBounds>>

\* The dialog of an override takes a reason, and without one does nothing.
VerdictDialog(reason) == reason # "blank" /\ handleOverrideSubmit

\* The orchestrator may have logged an envelope of the case from when it is asked, and has
\* when it has answered with a verdict.
MayBeLogged == \E r \in Requests : run[r] # "none" /\ pc[r] # "mark"
IsLogged == \E r \in Requests : run[r] = "ok"

\* The override route passes it on to the orchestrator, which finds an envelope of the case
\* in the log, and has one of the override signed and logged; the page reads the trace again.
OverrideRecorded ==
    /\ override = "sent" /\ MayBeLogged
    /\ override' = "recorded"
    /\ UNCHANGED <<vars, entry, mount, due, load, pageBounds>>

\* A case without an envelope is not found, a 404: a toast says so, and the page keeps
\* showing the override.
OverrideRefused ==
    /\ override = "sent" /\ ~IsLogged
    /\ override' = "refused"
    /\ UNCHANGED <<vars, entry, mount, due, load, pageBounds>>

\* The session is over, the log cannot be read or the orchestrator cannot be reached: the
\* same, with another toast.
OverrideFails ==
    /\ override = "sent" /\ Disturbances < MaxDisturbed /\ lost' = lost + 1
    /\ override' = "failed"
    /\ UNCHANGED <<vars, entry, mount, due, load, visits, reloads>>

-----------------------------------------------------------------------------
\* What the page shows.

\* loading of useTriage
Loading == Shown /\ ~pageError /\ entry.verdict = None /\ ~entry.terminal

\* The record of the case: placeholders until there is a verdict, and with it the entries
\* of the orchestrator and of the attestation.
caseRecord ==
    [verdict  |-> IF entry.verdict = None THEN "investigating" ELSE "reached",
     timeline |-> {"Collector"} \cup
                  IF entry.verdict = None THEN {} ELSE {"Orchestrator", "Attestation"}]

\* The header: the analyst's decision, and the confidence unless the case is analysed.  A
\* page that has stopped analysing without a verdict shows a confidence of 0%.
statusLabel ==
    IF entry.disposition = "none" THEN "awaiting review" ELSE entry.disposition

Confidence ==
    IF Loading THEN "analysing" ELSE IF entry.verdict = None THEN "0%" ELSE "calibrated"

-----------------------------------------------------------------------------
\* The server goes on with the tab's requests; one a reload has orphaned is to the next
\* load what the request of another tab would be.
ServerStep ==
    /\ (\E r \in TabRequests : Handle(r) \/ StatementFails(r)) \/ SchemaFails \/ Restart
    /\ UNCHANGED tab /\ Disturbances' <= MaxDisturbed

Answers ==
    \/ GetStatus \/ StatusArrives \/ OverrideRecorded \/ OverrideRefused
    \/ \E r \in TabRequests : TriageAnswered(r)

Effects == EffectReturns \/ \E r \in TabRequests : Fire(r)

Events ==
    \/ OpenCase \/ Leave \/ Reload \/ GetFails \/ Answers
    \/ MarkerExpires \/ TerminalStep \/ evictIfNeeded
    \/ handleApprove \/ OverrideFails
    \/ \E reason \in {"blank", "given"} : VerdictDialog(reason)
    \/ ServerStep

PageNext == Effects \/ (~due /\ Events)

-----------------------------------------------------------------------------
\* Properties.

\* While a request of the tab is pending, the tab posts another one only when the marker
\* of the running triage is stale, however often the page is left and reopened and the
\* case is evicted from the store.
OnlyStaleRunsAreRepeated ==
    [][\A r \in Requests : r \in posts' \ posts => posts = {} \/ entry.started = "stale"]_pageVars

\* What the page has shown of a case it shows again: a verdict with its signed entry of
\* the timeline, and a decision, are not taken back by a mount, a late answer, a failure
\* or a second run, as long as the case was not evicted.
VisitsKeepTheCase ==
    [][entry.there /\ entry'.there =>
        /\ caseRecord.verdict = "reached" => caseRecord'.verdict = "reached"
        /\ caseRecord.timeline \subseteq caseRecord'.timeline
        /\ statusLabel # "awaiting review" => statusLabel' = statusLabel]_pageVars

Undisturbed == Disturbances = 0

\* A page that analyses comes to a verdict, also when the analyst went away and came back
\* while the request was pending, or the case was evicted in between, and an override of a
\* verdict that the page has comes to be recorded: it takes a failure, a restart or a reload
\* to leave the page waiting, or showing such an override that is not in the log.  One that
\* is sent while the case is being analysed, as the buttons allow, may be refused, and is
\* shown all the same.
PageSettles ==
    /\ (Confidence = "analysing" /\ Undisturbed) ~> (Confidence # "analysing" \/ ~Undisturbed)
    /\ (override = "sent" /\ entry.verdict # None /\ Undisturbed)
            ~> (override = "recorded" \/ ~Undisturbed)

\* The page says it analyses only while a request is in flight: after a failed one, the
\* last of the tab, it does not.
FailureEndsLoading ==
    Loading /\ entry.status = "failed" => posts # {} \/ due \/ check # NoCheck
=============================================================================
