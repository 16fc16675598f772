----------------------------- MODULE AlertFeed -----------------------------
(***************************************************************************)
(* The alerts an analyst sees: the control plane's poll of the det_* views *)
(* and its WebSocket (crates/attest-control-plane), the workbench's queue, *)
(* cases and detections pages, which render what GET /v1/detections/fired  *)
(* returns, and the queue's live list (use-alerts-ws.ts) and table         *)
(* (alert-queue.tsx).                                                      *)
(*                                                                         *)
(* A row of a view is its place in Firings, the order in which rows fire,  *)
(* so that a larger number is a newer fired_at.  An alert of a page is its *)
(* row and what it says of the triage; its id is the event's.  One browser *)
(* tab; what the hook of a page that is gone still does (its socket is     *)
(* opened again by onclose) reaches no page and is left out.               *)
(***************************************************************************)
EXTENDS Naturals, Sequences, FiniteSets, SequencesExt, FiniteSetsExt, Selection

CONSTANTS
    Firings,        \* sequence of [detection, event]: the rows that come to be
    Severity,       \* Severity[d]: severityOrder of the alerts of a detection, 0 is critical
    ViewLimit,      \* LIMIT of the query of a view
    AlertCapacity,  \* capacity of the broadcast channel
    PageSize,       \* pageSize of the table
    CaseStatuses,   \* statuses of the cases the database holds
    Searches,       \* what is typed into a filter: events to look for
    MaxAlertVisits, \* bound: pages opened
    MaxAlertFaults  \* bound: requests, queries and sockets that fail

Rows == 1..Len(Firings)
EventOf(r) == Firings[r].event
DetectionOf(r) == Firings[r].detection
FiredEvents == {EventOf(r) : r \in Rows}
Rules == {DetectionOf(r) : r \in Rows}

ASSUME AlertConstants ==
    /\ Severity \in [Rules -> 0..3]
    /\ ViewLimit \in Nat \ {0} /\ AlertCapacity \in Nat \ {0} /\ PageSize \in Nat \ {0}
    /\ CaseStatuses \subseteq {"none", "running", "complete", "failed"} /\ CaseStatuses # {}
    /\ Searches \subseteq FiredEvents
    /\ MaxAlertVisits \in Nat /\ MaxAlertFaults \in Nat

VARIABLES
    firedRows,      \* how many rows have fired
    cpReady,        \* is the control plane's database slot filled?
    cpSeen,         \* seen: rows its poll has broadcast
    wire,           \* rows on their way to the tab's socket
    alertSocket,    \* "none", "connecting", "open", "subscribed", "closing"
    alertTimer,     \* is the hook's retryTimer pending?
    alertPage,      \* "none", "queue", "cases", "detections"
    badge,          \* LiveStatus: "offline", "connected", "live"
    initialAlerts,  \* alerts of the server's render
    newAlerts,      \* rows the hook has received, last one first
    lastFired,      \* lastFired of the detections page; 0 is "never"
    tab, search, sorting, pageIndex,  \* the table
    missed,         \* history: rows broadcast before or during this visit that its socket did not get
    alertVisits, alertFaults

control == <<firedRows, cpReady, cpSeen>>
link == <<wire, alertSocket, alertTimer, missed>>
render == <<badge, initialAlerts, lastFired>>
table == <<tab, search, sorting, pageIndex>>
alertBounds == <<alertVisits, alertFaults>>
alertVars == <<control, link, alertPage, render, newAlerts, table, alertBounds>>

Tabs == {"in-flight", "awaiting-review"}

AlertInit ==
    /\ firedRows = 0 /\ cpReady = FALSE /\ cpSeen = {}
    /\ alertPage = "none" /\ badge = "offline" /\ initialAlerts = <<>> /\ newAlerts = <<>>
    /\ lastFired = [d \in Rules |-> 0]
    /\ wire = <<>> /\ alertSocket = "none" /\ alertTimer = FALSE /\ missed = {}
    /\ tab = "awaiting-review" /\ search = "" /\ sorting = FALSE /\ pageIndex = 0
    /\ alertVisits = 0 /\ alertFaults = 0

AlertFault == alertFaults < MaxAlertFaults /\ alertFaults' = alertFaults + 1

-----------------------------------------------------------------------------
\* The control plane.

\* The newest rows of a view, as many as the query asks for.
Within(r) ==
    LET newer == {q \in 1..firedRows : q > r /\ DetectionOf(q) = DetectionOf(r)}
    IN Cardinality(newer) < ViewLimit

\* fetch_all_fired: the rows of every view but the skipped ones, most recent first;
\* nothing before the database slot is filled.
fetch_all_fired(skipped) ==
    IF ~cpReady THEN <<>>
    ELSE LET rows == [i \in 1..firedRows |-> firedRows + 1 - i]
         IN Pick(rows, {i \in 1..firedRows : Within(rows[i]) /\ DetectionOf(rows[i]) \notin skipped})

\* The views a fetch skips: none, or one whose query fails.
Fetches(skipped) ==
    \/ skipped = {} /\ UNCHANGED alertFaults
    \/ cpReady /\ AlertFault /\ \E d \in Rules : skipped = {d}

FireRow ==
    /\ firedRows < Len(Firings)
    /\ firedRows' = firedRows + 1
    /\ UNCHANGED <<cpReady, cpSeen, link, alertPage, render, newAlerts, table, alertBounds>>

\* connect_with_retry and the DDL are done; the polling loop begins with an empty set.
CpReady ==
    /\ ~cpReady
    /\ cpReady' = TRUE /\ cpSeen' = {}
    /\ UNCHANGED <<firedRows, link, alertPage, render, newAlerts, table, alertBounds>>

\* detection:event
key(r) == <<DetectionOf(r), EventOf(r)>>

\* A tick of the polling loop: rows not seen before are broadcast in the fetched order.
\* A socket that is not subscribed gets nothing, and one that lags loses the oldest.
PollAlerts ==
    LET Unseen(rows) == Pick(rows, {i \in DOMAIN rows : \A q \in cpSeen : key(q) # key(rows[i])})
        Broadcast(new) ==
          LET sent == wire \o new
              kept == IF Len(sent) <= AlertCapacity THEN sent
                      ELSE SubSeq(sent, Len(sent) - AlertCapacity + 1, Len(sent))
          IN /\ cpSeen' = cpSeen \cup ToSet(new)
             /\ IF alertSocket = "subscribed"
                THEN wire' = kept /\ missed' = missed \cup (ToSet(sent) \ ToSet(kept))
                ELSE /\ wire' = wire
                     /\ missed' = IF alertPage = "queue" THEN missed \cup ToSet(new) ELSE missed
    IN /\ cpReady
       /\ UNCHANGED <<firedRows, cpReady, alertSocket, alertTimer, alertPage, render,
                      newAlerts, table, alertVisits>>
       /\ \E skipped \in SUBSET Rules :
            /\ Fetches(skipped)
            /\ \E rows \in {fetch_all_fired(skipped)} : \E new \in {Unseen(rows)} : Broadcast(new)

\* The control plane ends; its sockets are closed.
CpCrash ==
    /\ cpReady /\ AlertFault
    /\ cpReady' = FALSE
    /\ missed' = missed \cup ToSet(wire) /\ wire' = <<>>
    /\ alertSocket' = IF alertSocket = "none" THEN "none" ELSE "closing"
    /\ UNCHANGED <<firedRows, cpSeen, alertTimer, alertPage, render, newAlerts, table, alertVisits>>

-----------------------------------------------------------------------------
\* The pages' server renders.

\* mergePersistedCase: what an alert says of the case the database holds for its event.
\* "none" and "failed" cases are shown idle.
mergePersistedCase(r, persisted) ==
    [row |-> r, agent |-> IF persisted[EventOf(r)] \in {"running", "complete"}
                          THEN persisted[EventOf(r)] ELSE "idle"]

\* firedDetectionToAlert
firedDetectionToAlert(r) == [row |-> r, agent |-> "idle"]

\* enrichAlertsWithPersisted: one query for all; without an answer alerts stay as they are.
enrichAlerts(rows, persisted) ==
    [i \in DOMAIN rows |-> mergePersistedCase(rows[i], persisted)]

PersistedCases == [FiredEvents -> CaseStatuses]

\* The state of the queue the alert is in: the tab that lists it.
StateOf(alert) == IF alert.agent = "running" THEN "in-flight" ELSE "awaiting-review"

\* fetchLiveAlerts and fetchCases: the badge and the alerts of a render.
Rendered(rows, persisted) ==
    /\ badge' = IF rows = <<>> THEN "connected" ELSE "live"
    /\ initialAlerts' = enrichAlerts(rows, persisted)

Offline == badge' = "offline" /\ initialAlerts' = <<>>

\* A visit of the queue or the cases page; the queue connects once it is shown.
OpenAlerts(page) ==
    LET Show(rows) == \E persisted \in PersistedCases : Rendered(rows, persisted)
    IN /\ alertPage = "none" /\ alertSocket = "none" /\ alertVisits < MaxAlertVisits
       /\ alertVisits' = alertVisits + 1
       /\ alertPage' = page
       /\ \/ \E skipped \in SUBSET Rules : Fetches(skipped) /\ Show(fetch_all_fired(skipped))
          \/ AlertFault /\ Offline
       /\ alertSocket' = IF page = "queue" THEN "connecting" ELSE "none"
       /\ missed' = cpSeen
       /\ UNCHANGED <<control, wire, alertTimer, lastFired, newAlerts, table>>

\* The newest row of each rule, 0 when there is none.
fetchLastFired(rows) ==
    [d \in Rules |-> Max({0} \cup {r \in ToSet(rows) : DetectionOf(r) = d})]

\* The table of the rules with the time each fired last; without an answer, of whatever
\* cause, every rule has fired never.
OpenDetections ==
    LET Show(rows) == lastFired' = fetchLastFired(rows)
    IN /\ alertPage = "none" /\ alertSocket = "none" /\ alertVisits < MaxAlertVisits
       /\ alertVisits' = alertVisits + 1
       /\ alertPage' = "detections"
       /\ \/ \E skipped \in SUBSET Rules : Fetches(skipped) /\ Show(fetch_all_fired(skipped))
          \/ AlertFault /\ Show(<<>>)
       /\ UNCHANGED <<control, link, badge, initialAlerts, newAlerts, table>>

\* A row is clicked or another page is chosen.  The cleanup clears the timer and closes
\* the socket; the states of the hook and of the table go with the page.
LeaveAlerts ==
    /\ alertPage # "none"
    /\ alertPage' = "none" /\ badge' = "offline" /\ initialAlerts' = <<>> /\ newAlerts' = <<>>
    /\ lastFired' = [d \in Rules |-> 0]
    /\ wire' = <<>> /\ alertSocket' = "none" /\ alertTimer' = FALSE /\ missed' = {}
    /\ tab' = "awaiting-review" /\ search' = "" /\ sorting' = FALSE /\ pageIndex' = 0
    /\ UNCHANGED <<control, alertBounds>>

-----------------------------------------------------------------------------
\* useAlertsWs.  Each of its renders hands the table a new array, and the table goes back
\* to its first page whenever its data, filter or order change.

\* Mutant of AutoReset: autoResetPageIndex is turned off.
AutoReset_off == pageIndex

\* The table's default: new data, another filter or another order lead to the first page.
AutoReset == 0

FirstPage == pageIndex' = AutoReset /\ UNCHANGED <<tab, search, sorting>>

\* ws.onopen
AlertsOpen ==
    /\ alertSocket = "connecting" /\ cpReady
    /\ alertSocket' = "open"
    /\ FirstPage
    /\ UNCHANGED <<control, wire, alertTimer, missed, alertPage, render, newAlerts, alertBounds>>

\* handle_ws subscribes.
Subscribe ==
    /\ alertSocket = "open"
    /\ alertSocket' = "subscribed"
    /\ UNCHANGED <<control, wire, alertTimer, missed, alertPage, render, newAlerts, table, alertBounds>>

\* ws.onmessage; seenIds holds the keys of newAlerts.
OnAlert ==
    /\ wire # <<>>
    /\ wire' = Tail(wire)
    /\ LET r == Head(wire)
       IN IF \E q \in ToSet(newAlerts) : key(q) = key(r)
          THEN UNCHANGED <<newAlerts, table>>
          ELSE newAlerts' = <<r>> \o newAlerts /\ FirstPage
    /\ UNCHANGED <<control, alertSocket, alertTimer, missed, alertPage, render, alertBounds>>

\* The connection fails or is lost; what was on its way is gone.
AlertsDrop ==
    /\ alertSocket \in {"connecting", "open", "subscribed"} /\ AlertFault
    /\ alertSocket' = "closing"
    /\ missed' = missed \cup ToSet(wire) /\ wire' = <<>>
    /\ UNCHANGED <<control, alertTimer, alertPage, render, newAlerts, table, alertVisits>>

\* A control plane that is not there refuses.
AlertsRefused ==
    /\ alertSocket = "connecting" /\ ~cpReady
    /\ alertSocket' = "closing"
    /\ UNCHANGED <<control, wire, alertTimer, missed, alertPage, render, newAlerts, table, alertBounds>>

\* Mutant of RetryScheduled: a closed socket is not opened again.
RetryScheduled_never == FALSE

RetryScheduled == TRUE

\* ws.onclose
AlertsClosed ==
    /\ alertSocket = "closing"
    /\ alertSocket' = "none"
    /\ alertTimer' = RetryScheduled
    /\ FirstPage
    /\ UNCHANGED <<control, wire, missed, alertPage, render, newAlerts, alertBounds>>

\* The back-off is over.
AlertsRetry ==
    /\ alertTimer
    /\ alertTimer' = FALSE
    /\ alertSocket' = "connecting"
    /\ UNCHANGED <<control, wire, missed, alertPage, render, newAlerts, table, alertBounds>>

-----------------------------------------------------------------------------
\* The table.

\* AlertQueueLive: live alerts, then the rendered ones, each id once.
QueueAlerts ==
    LET merged == [i \in DOMAIN newAlerts |-> firedDetectionToAlert(newAlerts[i])] \o initialAlerts
        First(i) == \A j \in 1..(i - 1) : EventOf(merged[j].row) # EventOf(merged[i].row)
    IN Pick(merged, {i \in DOMAIN merged : First(i)})

\* The rows of the table: a tab of the queue, or every open case.
TableAlerts ==
    LET queue == QueueAlerts
    IN IF alertPage = "queue" THEN Pick(queue, {i \in DOMAIN queue : StateOf(queue[i]) = tab})
       ELSE initialAlerts

\* alertGlobalFilter and the columns' filters, here on the event.
Filtered ==
    LET alerts == TableAlerts
    IN Pick(alerts, {i \in DOMAIN alerts : search = "" \/ EventOf(alerts[i].row) = search})

\* sortingFn of the severity column, which keeps the order of equal alerts.
Sorted(alerts) ==
    LET Rank(n) == Pick(alerts, {i \in DOMAIN alerts : Severity[DetectionOf(alerts[i].row)] = n})
    IN Rank(0) \o Rank(1) \o Rank(2) \o Rank(3)

\* getRowModel: the page of the filtered and sorted rows.
PageRows(all) ==
    LET ordered == IF sorting THEN Sorted(all) ELSE all
        last == (pageIndex + 1) * PageSize
    IN SubSeq(ordered, pageIndex * PageSize + 1, IF last < Len(all) THEN last ELSE Len(all))

PageCount == (Len(Filtered) + PageSize - 1) \div PageSize

TableShown == alertPage = "queue" \/ (alertPage = "cases" /\ initialAlerts # <<>>)
pageState == <<control, link, alertPage, render, newAlerts, alertBounds>>

SwitchTab ==
    /\ alertPage = "queue"
    /\ tab' \in Tabs \ {tab}
    /\ pageIndex' = AutoReset
    /\ UNCHANGED <<search, sorting, pageState>>

SetFilter ==
    /\ TableShown
    /\ search' \in ({""} \cup Searches) \ {search}
    /\ pageIndex' = AutoReset
    /\ UNCHANGED <<tab, sorting, pageState>>

ToggleSorting ==
    /\ TableShown
    /\ sorting' = ~sorting
    /\ pageIndex' = AutoReset
    /\ UNCHANGED <<tab, search, pageState>>

\* The buttons of the footer, which are disabled at the ends.
TurnPage ==
    /\ TableShown
    /\ \/ pageIndex > 0 /\ pageIndex' \in {0, pageIndex - 1}
       \/ pageIndex + 1 < PageCount /\ pageIndex' \in {pageIndex + 1, PageCount - 1}
    /\ UNCHANGED <<tab, search, sorting, pageState>>

TableSteps == SwitchTab \/ SetFilter \/ ToggleSorting \/ TurnPage
AlertLink == AlertsOpen \/ Subscribe \/ AlertsRefused \/ AlertsClosed \/ AlertsRetry

AlertNext ==
    \/ FireRow \/ CpReady \/ PollAlerts \/ CpCrash
    \/ \E page \in {"queue", "cases"} : OpenAlerts(page)
    \/ OpenDetections \/ LeaveAlerts
    \/ AlertLink \/ OnAlert \/ AlertsDrop
    \/ TableSteps

-----------------------------------------------------------------------------
\* Properties.

\* A queue that stays open is connected again and comes to list every row that fires,
\* though views fail, the control plane restarts and other rules match the same event.
\* Only a row that ViewLimit newer ones of its rule overtake between two polls, or that
\* was broadcast while the socket was not there or too slow, may stay out of its live
\* list: nothing is replayed.
QueueIsLive ==
    alertPage = "queue"
        ~> \/ alertPage # "queue"
           \/ /\ alertSocket = "subscribed"
              /\ \A r \in 1..firedRows : r \in ToSet(newAlerts) \/ r \in missed \/ ~Within(r)

\* A table with rows that match shows some of them: a live alert, a tab, a filter or the
\* loss of the connection never leaves the reader on a page past the last.
PageHasRows ==
    LET all == Filtered
    IN all # <<>> => PageRows(all) # <<>>
=============================================================================
