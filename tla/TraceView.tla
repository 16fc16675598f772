----------------------------- MODULE TraceView -----------------------------
(***************************************************************************)
(* apps/workbench: the trace of one case on its page.  Steps arrive over   *)
(* the socket, late, in any order or never, and are kept in the case       *)
(* store; the page stores what it shows (case-investigation-client.tsx),   *)
(* as does the gateway's writer; the trace route reads the rows back; and  *)
(* case-workbench.tsx, the steppers, the timeline and the attestation      *)
(* panel merge both.                                                       *)
(*                                                                         *)
(* A step is its number in the order of time, with a kind and a summary,   *)
(* all of one action; no two of a kind have the same millisecond.  Steps   *)
(* may have the same kind and summary.  Step 0 is the triage_complete step *)
(* that the route makes up from a stored verdict.  Two readers ask the     *)
(* route without knowing of each other, the workbench and the panel: a     *)
(* behaviour follows one of them.                                          *)
(*                                                                         *)
(* The table has one row for an action, a kind and a time, but the writer  *)
(* and the page make different ids of them, and both inserts only pass     *)
(* over a row with their own id: the second of the two is refused, for the *)
(* page with every step of its batch.                                      *)
(***************************************************************************)
EXTENDS Naturals, Sequences, FiniteSets, SequencesExt, FiniteSetsExt, Selection

CONSTANTS
    StepKind,       \* step_kind of the steps of the investigation, by number
    StepSummary,    \* their summaries, as cut by the publisher
    OnLlmPath,      \* is their execution_path llm or hybrid?
    MaxViews,       \* bound: mounts of the page
    MaxReads,       \* bound: GETs of a mount
    MaxViewFaults   \* bound: requests that fail

ASSUME ViewConstants ==
    /\ StepKind \in Seq(STRING) /\ StepSummary \in Seq(STRING)
    /\ Len(StepSummary) = Len(StepKind)
    /\ OnLlmPath \in BOOLEAN /\ MaxViews \in Nat /\ MaxReads \in Nat /\ MaxViewFaults \in Nat

StepNos == DOMAIN StepKind

Synthetic == 0

Kind(n) == IF n = Synthetic THEN "triage_complete" ELSE StepKind[n]
Summary(n) == IF n = Synthetic THEN "verdict" ELSE StepSummary[n]

VARIABLES
    liveSteps,  \* traceSteps of the case in the store, the last one that came first
    caseRow,    \* has the case a row, which the rows of its steps refer to?
    traceRows,  \* the steps that have a row
    writerRows, \* those whose row has the id the writer gives it
    verdictRow, \* has the case's row a verdict?
    reader,     \* "workbench" or "panel"
    viewing,    \* is the page mounted?
    analysing,  \* triageLoading
    keys,       \* persistedTraceKeys of the mount
    batches,    \* sets of steps being posted
    refused,    \* steps of posts that the table refused
    unread,     \* GETs sent that have not read the rows
    reads,      \* rows read by GETs that are not answered yet
    httpSteps,  \* rows as last answered to the reader
    answered,   \* what the reader got last: "nothing", "rows", "error"
    misread,    \* an answer failed, overtook or may have been overtaken, or took the made-up step away
    viewMounts, asks, viewFaults

tables == <<caseRow, traceRows, writerRows, verdictRow>>
posts == <<keys, batches, refused>>
answers == <<unread, reads, httpSteps, answered, misread>>
viewBounds == <<viewMounts, asks, viewFaults>>

viewVars == <<liveSteps, tables, reader, viewing, analysing, posts, answers, viewBounds>>

ViewInit ==
    /\ liveSteps = <<>>
    /\ caseRow = FALSE /\ traceRows = {} /\ writerRows = {} /\ verdictRow = FALSE
    /\ reader \in {"workbench", "panel"}
    /\ viewing = FALSE /\ analysing = TRUE /\ keys = {} /\ batches = {} /\ refused = {}
    /\ unread = 0 /\ reads = {} /\ httpSteps = {} /\ answered = "nothing" /\ misread = FALSE
    /\ viewMounts = 0 /\ asks = 0 /\ viewFaults = 0

ViewFault == viewFaults < MaxViewFaults /\ viewFaults' = viewFaults + 1

-----------------------------------------------------------------------------
\* The orchestrator, the gateway's writer, the page's server and the triage route.

\* The render of the page, the triage route or the writer's first statement.
upsertCaseSnapshot ==
    /\ ~caseRow
    /\ caseRow' = TRUE
    /\ UNCHANGED <<liveSteps, traceRows, writerRows, verdictRow, reader, viewing, analysing,
                   posts, answers, viewBounds>>

\* The steps are published while the investigation runs; when they arrive is not related
\* to anything else the page learns, so they may arrive at any time.  The insert is refused
\* when the page's row is there.
WriterStores(n) ==
    /\ n \notin traceRows
    /\ caseRow' = TRUE /\ traceRows' = traceRows \cup {n} /\ writerRows' = writerRows \cup {n}
    /\ UNCHANGED <<liveSteps, verdictRow, reader, viewing, analysing, posts, answers,
                   viewBounds>>

\* An update of the row that the triage route wrote when the request came.
StoreVerdict ==
    /\ caseRow /\ ~verdictRow
    /\ verdictRow' = TRUE
    /\ UNCHANGED <<liveSteps, caseRow, traceRows, writerRows, reader, viewing, analysing,
                   posts, answers, viewBounds>>

-----------------------------------------------------------------------------
\* The steps in the store and in Postgres.

appendStep(n) == IF n \in ToSet(liveSteps) THEN liveSteps ELSE <<n>> \o liveSteps

\* Mutant of Fresh: only the step that came last is looked at.
Fresh_newest(live, known) == IF live = <<>> THEN {} ELSE {Head(live)} \ known

\* What the effect finds in the store that this mount has not posted.
Fresh(live, known) == ToSet(live) \ known

\* The keys are marked before the request is sent.
PostFresh(live, known) ==
    /\ keys' = known \cup Fresh(live, known)
    /\ batches' = IF Fresh(live, known) = {} THEN batches ELSE batches \cup {Fresh(live, known)}

\* A step comes over a socket of the tab; the page need not be there.
StepArrives(n) ==
    /\ viewMounts > 0 /\ n \notin ToSet(liveSteps)
    /\ liveSteps' = appendStep(n)
    /\ IF viewing THEN PostFresh(liveSteps', keys) ELSE UNCHANGED <<keys, batches>>
    /\ UNCHANGED <<refused, tables, reader, viewing, analysing, answers, viewBounds>>

\* Does the table take these rows from the page?  Those with the page's id are passed over.
Insertable(b) == caseRow /\ b \cap writerRows = {}

\* POST of the trace route: one statement.
appendTraceSteps(b) ==
    /\ b \in batches /\ Insertable(b)
    /\ batches' = batches \ {b} /\ traceRows' = traceRows \cup b
    /\ UNCHANGED <<liveSteps, caseRow, writerRows, verdictRow, reader, viewing, analysing, keys,
                   refused, answers, viewBounds>>

\* The statement stores nothing, and nobody is told.
PostRefused(b) ==
    /\ b \in batches /\ ~Insertable(b)
    /\ batches' = batches \ {b} /\ refused' = refused \cup b
    /\ UNCHANGED <<liveSteps, tables, reader, viewing, analysing, keys, answers, viewBounds>>

\* The request fails, or the database, which nobody is told either.
PostFails(b) ==
    /\ b \in batches /\ ViewFault
    /\ batches' = batches \ {b}
    /\ UNCHANGED <<liveSteps, tables, reader, viewing, analysing, keys, refused, answers,
                   viewMounts, asks>>

-----------------------------------------------------------------------------
\* Reading the trace back.

\* The workbench asks on mount, and again unless the case is being analysed.
AsksOnMount == IF reader = "workbench" /\ ~analysing THEN 2 ELSE 1

MountView ==
    /\ ~viewing /\ viewMounts < MaxViews
    /\ viewing' = TRUE /\ viewMounts' = viewMounts + 1
    /\ analysing' = (analysing /\ ~verdictRow)
    /\ unread' = AsksOnMount /\ asks' = AsksOnMount
    /\ reads' = {} /\ httpSteps' = {} /\ answered' = "nothing" /\ misread' = FALSE
    /\ PostFresh(liveSteps, {})
    /\ UNCHANGED <<liveSteps, refused, tables, reader, viewFaults>>

UnmountView ==
    /\ viewing
    /\ viewing' = FALSE /\ unread' = 0 /\ reads' = {} /\ httpSteps' = {} /\ answered' = "nothing"
    /\ UNCHANGED <<liveSteps, tables, reader, analysing, posts, misread, viewBounds>>

\* The verdict reaches the page, and the workbench reads the trace again.
TriageEnds ==
    /\ viewing /\ analysing /\ verdictRow
    /\ analysing' = FALSE
    /\ IF reader = "workbench"
       THEN unread' = unread + 1 /\ asks' = asks + 1
       ELSE UNCHANGED <<unread, asks>>
    /\ UNCHANGED <<liveSteps, tables, reader, viewing, posts, reads, httpSteps, answered,
                   misread, viewMounts, viewFaults>>

\* Mutant of Refresh: the rows go when they are asked for again.
Refresh_clears ==
    /\ viewing /\ asks < MaxReads
    /\ unread' = unread + 1 /\ asks' = asks + 1 /\ httpSteps' = {}
    /\ UNCHANGED <<liveSteps, tables, reader, viewing, analysing, posts, reads, answered,
                   misread, viewMounts, viewFaults>>

\* The panel's Refresh button; the workbench after an override that was accepted.
Refresh ==
    /\ viewing /\ asks < MaxReads
    /\ unread' = unread + 1 /\ asks' = asks + 1
    /\ UNCHANGED <<liveSteps, tables, reader, viewing, analysing, posts, reads, httpSteps,
                   answered, misread, viewMounts, viewFaults>>

\* GET of the trace route: the rows, or what the verdict says.
GetTrace ==
    /\ unread > 0
    /\ unread' = unread - 1
    /\ reads' = reads \cup {IF traceRows = {} /\ verdictRow THEN {Synthetic} ELSE traceRows}
    /\ UNCHANGED <<liveSteps, tables, reader, viewing, analysing, posts, httpSteps, answered,
                   misread, viewBounds>>

OthersPending == unread > 0 \/ Cardinality(reads) > 1

TraceAnswered(r) ==
    /\ r \in reads
    /\ reads' = reads \ {r} /\ httpSteps' = r /\ answered' = "rows"
    /\ misread' = (misread \/ OthersPending \/ Synthetic \in httpSteps \ r)
    /\ UNCHANGED <<liveSteps, tables, reader, viewing, analysing, posts, unread, viewBounds>>

\* The workbench forgets what it had, the panel shows an error in its place.
TraceFails ==
    /\ unread > 0 /\ ViewFault
    /\ unread' = unread - 1 /\ httpSteps' = {} /\ answered' = "error" /\ misread' = TRUE
    /\ UNCHANGED <<liveSteps, tables, reader, viewing, analysing, posts, reads, viewMounts, asks>>

-----------------------------------------------------------------------------
\* What is shown.  An item is a step as it came over the socket, or as it was read back.

\* The first item of each key; names has the key of every item.
FirstOf(items, names) ==
    Pick(items, {i \in DOMAIN items : \A j \in 1..(i - 1) : names[j] # names[i]})

Item(n, live) == [n |-> n, live |-> live]

live == [i \in DOMAIN liveSteps |-> Item(liveSteps[i], TRUE)]

\* Every row there can be, in the order of listTraceSteps, which is that of time.
InOrder == [i \in 1..(Len(StepKind) + 1) |-> i - 1]

http ==
    LET read == Pick(InOrder, {i \in DOMAIN InOrder : InOrder[i] \in httpSteps})
    IN  [i \in DOMAIN read |-> Item(read[i], FALSE)]

\* A step that was read back has lost its time, and so differs from the one that is live,
\* but not from another of its kind and summary that was read back.
MergeKey(i) == <<Kind(i.n), Summary(i.n), IF i.live THEN i.n ELSE 0>>

mergeTraceSteps ==
    LET items == live \o http
    IN  FirstOf(items, [i \in DOMAIN items |-> MergeKey(items[i])])

\* Mutant of fingerprint: the time is part of it.
fingerprint_ts(i) == MergeKey(i)

fingerprint(i) == <<Kind(i.n), Summary(i.n)>>

\* The rows of LLMReasoningTimeline, which gets the merged steps for the live ones.
Timeline ==
    LET all == http \o mergeTraceSteps
        items == Pick(all, {i \in DOMAIN all : Kind(all[i].n) # "classifier_complete"})
    IN  FirstOf(items, [i \in DOMAIN items |-> fingerprint(items[i])])

\* The rows of AttestationTracePanel: one for each kind of step of an action.  It shows no
\* row, not even a live one, before its first answer and after a read that failed.
PanelRows ==
    LET items == live \o http
    IN  IF answered # "rows" THEN <<>>
        ELSE FirstOf(items, [i \in DOMAIN items |-> Kind(items[i].n)])

\* The table when it is filtered by a kind.
TraceTable(kind) ==
    LET rows == PanelRows IN Pick(rows, {i \in DOMAIN rows : Kind(rows[i].n) = kind})

\* The kinds among the merged steps, of which merging loses none.
Kinds == { Kind(n) : n \in ToSet(liveSteps) \cup httpSteps }

phaseOf(kind) ==
    CASE kind = "intermediate_belief" -> 1
      [] kind = "tool_call" -> 2
      [] kind \in {"final_verdict", "envelope", "triage_complete"} -> 3
      [] OTHER -> 0

Has(kinds) == kinds \cap Kinds # {}

HasLlm == OnLlmPath /\ Kinds # {}

\* The last step by time; those that were read back have time 0, and stay in their order.
LastKind == Kind(IF liveSteps # <<>> THEN Max(ToSet(liveSteps)) ELSE Last(mergeTraceSteps).n)

\* The stages reasoning, tools, verdict: which are done, and the one that is on.
deriveStepState ==
    LET envelope == HasLlm /\ Has({"envelope", "triage_complete"})
        verdict == HasLlm /\ (envelope \/ Has({"final_verdict"}))
    IN  [done |-> <<HasLlm /\ \E k \in Kinds : phaseOf(k) >= 2, verdict, envelope>>,
         active |-> IF envelope THEN 3
                    ELSE IF ~HasLlm THEN 1 ELSE Max({1, phaseOf(LastKind)})]

\* The stages of TriagePipelineStepper: ingested, classifier, investigation, attestation;
\* the second is also done when five seconds have passed.
PipelineState ==
    LET envelope == Has({"envelope", "triage_complete"})
        step2 == HasLlm \/ envelope \/ Has({"classifier_complete"})
        step3 == envelope \/ Has({"final_verdict"})
    IN  [done |-> <<TRUE, step2, step3, envelope>>,
         active |-> IF step3 THEN 4 ELSE IF step2 THEN 3 ELSE 2]

\* LiveTraceLog under the pipeline: by time, those that were read back first.
LiveTraceLog ==
    LET merged == mergeTraceSteps
        came == Pick([n \in StepNos |-> Item(n, TRUE)], ToSet(liveSteps))
    IN  Pick(merged, {i \in DOMAIN merged : ~merged[i].live}) \o came

\* InvestigatorTraceStepper has no stages for a case the investigator has no part in.
InvestigatorTraceStepper ==
    IF OnLlmPath THEN deriveStepState ELSE [done |-> <<>>, active |-> 0]

\* A stage before the one that is on counts as completed.
StepperItem(step, i) ==
    IF step.done[i] \/ i < step.active THEN "completed"
    ELSE IF i = step.active THEN "active" ELSE "inactive"

\* The workbench shows the pipeline while the case is being analysed, and then the
\* investigator's stages.
Stepper ==
    LET step == IF analysing THEN PipelineState ELSE InvestigatorTraceStepper
    IN  [i \in DOMAIN step.done |-> StepperItem(step, i)]

-----------------------------------------------------------------------------
ViewRequests ==
    \/ GetTrace \/ \E r \in reads : TraceAnswered(r)
    \/ \E b \in batches : appendTraceSteps(b) \/ PostRefused(b)

ViewNext ==
    \/ upsertCaseSnapshot \/ StoreVerdict
    \/ \E n \in StepNos : WriterStores(n) \/ StepArrives(n)
    \/ MountView \/ UnmountView \/ TriageEnds \/ Refresh
    \/ ViewRequests \/ TraceFails \/ \E b \in batches : PostFails(b)

-----------------------------------------------------------------------------
\* Properties.

\* The timeline has no two rows of the same kind and summary, although a step is live and
\* read back, and a step of a kind the timeline takes is not missing: it has a row with its
\* kind and summary, which it may share with a step that looks the same; the log under the
\* pipeline has a step twice at most, live and as it was read back; the panel, once it has
\* rows, has one for every kind of step the steppers count.
StepsShownOnce ==
    LET timeline == Timeline
        looks == { <<Kind(i.n), Summary(i.n)>> : i \in ToSet(timeline) }
        log == LiveTraceLog
    IN  /\ Cardinality(looks) = Len(timeline)
        /\ \A n \in ToSet(liveSteps) \cup httpSteps :
              Kind(n) # "classifier_complete" => <<Kind(n), Summary(n)>> \in looks
        /\ \A n \in StepNos : Cardinality({ i \in DOMAIN log : log[i].n = n }) <= 2
        /\ answered = "rows" => \A k \in Kinds : Len(TraceTable(k)) = 1

\* A stage shown as completed, or a kind of row of the panel, stays so while the page is
\* shown: it takes a failed read, reads that overlap, or rows in the place of the made-up
\* step to take it back.
ProgressIsKept ==
    [][viewing /\ viewing' /\ analysing = analysing' /\ ~misread' =>
        /\ \A i \in DOMAIN Stepper : Stepper[i] = "completed" => Stepper'[i] = "completed"
        /\ Kinds \subseteq Kinds']_viewVars

\* A step the page shows comes to have a row, the page's or the writer's, also one that
\* arrived while the page was away.  A request that fails leaves it out, until the next
\* mount, and so does a post that the table refuses: when the case has no row yet, or when
\* the writer has stored one of the steps that are posted together.
StepsArePersisted ==
    \A n \in StepNos :
        (viewing /\ n \in ToSet(liveSteps) /\ viewFaults = 0)
            ~> (n \in traceRows \cup refused \/ viewFaults > 0)
=============================================================================
