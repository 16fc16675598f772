------------------------------- MODULE Triage -------------------------------
(***************************************************************************)
(* The orchestrator's decision pipeline: run_triage and                    *)
(* append_human_override (crates/attest-orchestrator/src/triage.rs),       *)
(* try_auto_close (auto_close.rs) and the handlers that call them          *)
(* (server.rs).                                                            *)
(*                                                                         *)
(* Requests run concurrently; the steps between two awaits are one action. *)
(* The attestation log is the append-only chain that AttestationLog        *)
(* implements for one orchestrator, seen from its callers: an append       *)
(* succeeds, fails, or fails after the row was stored.  The answers of the *)
(* classifier, the calibration sidecar and the language model are external *)
(* choices; the sidecar's client has no timeout, and the model assumes the *)
(* sidecar answers or refuses.  Scores are in hundredths.                  *)
(***************************************************************************)
EXTENDS ShadowCheck, EnvelopeChain

CONSTANTS
    Triages, Overrides,     \* requests, disjoint sets of positive naturals
    CaseOf,                 \* the case a request is about
    Alerts,                 \* the alerts a triage may get: [tenant, principal, class,
                            \* raw, novelty]
    Labels,                 \* verdicts analysts override with
    Scores,                 \* calibrated scores the sidecar may return
    EscalationThreshold, NoveltyThreshold, CrossReviewThreshold, AutoCloseThreshold,
    LlmConfigured,          \* ATTEST_LLM_PROVIDER is set
    Enforcement,            \* EnforcementMode is On
    MaxLogFaults            \* bound: failed appends

VARIABLES
    log,        \* the attestation log
    trace,      \* trace steps published so far, pairs <<action id, step>>
    pc,         \* where each request is
    alert,      \* the alert of each triage request
    draft,      \* the envelope a request is preparing
    answer,     \* the HTTP answer of each request
    failed      \* history: the appends that returned an error, <<action id, kind>>

vars == <<log, trace, pc, alert, draft, answer, failed>>

Requests == Triages \cup Overrides

\* Verdicts a language model's answer is parsed to.
ModelVerdicts == {"TruePositive", "FalsePositive", "Benign", "NeedsInvestigation"}

Verdicts == ModelVerdicts \cup {"EscalatedStub"}

ASSUME TriageConstants ==
    /\ Requests \subseteq Nat \ {0}
    /\ CaseOf \in [Requests -> Nat]
    /\ \A r \in Triages : \A a \in Alerts[r] : {a.raw, a.novelty} \subseteq Nat
    /\ Scores \subseteq Nat
    /\ Triages \cap Overrides = {}
    /\ {EscalationThreshold, NoveltyThreshold, CrossReviewThreshold,
        AutoCloseThreshold} \subseteq Nat
    /\ Labels \subseteq Verdicts
    /\ {LlmConfigured, Enforcement} \subseteq BOOLEAN
    /\ MaxLogFaults \in Nat

-----------------------------------------------------------------------------
(***************************************************************************)
(* Envelopes.  Every request draws its action ids from Uuid::new_v4.       *)
(***************************************************************************)
ActionId(r) == 2 * r

\* Mutant of InvestigatorId: the investigation reuses the triage's action id.
InvestigatorId_reused(r) == ActionId(r)

InvestigatorId(r) == 2 * r + 1

\* An envelope before the log fills in prev_hash and the signature.
NoDraft ==
    [call |-> GENESIS, id |-> 0, prev |-> GENESIS, key |-> 1, case |-> 0, tenant |-> "none",
     kind |-> "none", verdict |-> "none", raw |-> 0, conf |-> 0, review |-> "none",
     principal |-> "none", class |-> "none", original |-> 0]

NoAnswer == [status |-> 0, verdict |-> "none", state |-> "none", investigation |-> "none"]

Signed(row) ==
    [row EXCEPT !.call = Len(log) + 1,
                !.prev = IF log = <<>> THEN GENESIS ELSE chain_hash(log[Len(log)])]

\* sign_and_append, seen by its caller.
sign_and_append(row, ok) ==
    \/ ok /\ log' = Append(log, Signed(row)) /\ UNCHANGED failed
    \/ /\ ~ok /\ Cardinality(failed) < MaxLogFaults
       /\ log' \in {log, Append(log, Signed(row))}
       /\ failed' = failed \cup {<<row.id, row.kind>>}

-----------------------------------------------------------------------------
Goto(r, label) == pc' = [pc EXCEPT ![r] = label]

Answer(r, status, fields) ==
    /\ pc' = [pc EXCEPT ![r] = "done"]
    /\ answer' = [answer EXCEPT ![r] = [fields EXCEPT !.status = status]]

Init ==
    /\ log = <<>>
    /\ trace = {}
    /\ pc = [r \in Requests |-> "start"]
    /\ alert \in { a \in [Triages -> UNION Range(Alerts)] : \A r \in Triages : a[r] \in Alerts[r] }
    /\ draft = [r \in Requests |-> NoDraft]
    /\ answer = [r \in Requests |-> NoAnswer]
    /\ failed = {}

\* The ONNX model runs on the extracted features, or inference fails and so does
\* the request.
Classify(r) ==
    /\ pc[r] = "start"
    /\ draft' = [draft EXCEPT ![r] =
         [@ EXCEPT !.id = ActionId(r), !.case = CaseOf[r], !.tenant = alert[r].tenant,
                   !.raw = alert[r].raw, !.principal = alert[r].principal,
                   !.class = alert[r].class]]
    /\ Goto(r, "calibrate")
    /\ UNCHANGED <<log, trace, alert, answer, failed>>

ClassifierFails(r) ==
    /\ pc[r] = "start"
    /\ Answer(r, 500, NoAnswer)
    /\ UNCHANGED <<log, trace, alert, draft, failed>>

\* should_escalate.
ShouldEscalate(conf, novelty) ==
    conf < EscalationThreshold \/ novelty > NoveltyThreshold

ClassifierVerdict(conf) == IF conf >= 50 THEN "TruePositive" ELSE "Benign"

\* The sidecar answers with a score, or is down and the raw score is used; then
\* the trace step is published and the request is routed.
Calibrate(r) ==
    /\ pc[r] = "calibrate"
    /\ \E conf \in Scores \cup {alert[r].raw} :
         IF ShouldEscalate(conf, alert[r].novelty)
         THEN /\ draft' = [draft EXCEPT ![r].conf = conf]
              /\ Goto(r, "llm")
         ELSE /\ draft' = [draft EXCEPT ![r].conf = conf,
                                        ![r].verdict = ClassifierVerdict(conf),
                                        ![r].kind = "Classifier"]
              /\ Goto(r, "append")
    /\ trace' = trace \cup {<<ActionId(r), "classifier_complete">>}
    /\ UNCHANGED <<log, alert, answer, failed>>

NeedsReview(r, verdict) ==
    verdict = "TruePositive" /\ Enforcement /\ draft[r].conf >= CrossReviewThreshold

\* run_llm_loop returns a verdict (module LlmLoop).
Escalate(r) ==
    /\ pc[r] = "llm"
    /\ LlmConfigured
    /\ \E verdict \in ModelVerdicts :
         /\ draft' = [draft EXCEPT ![r].verdict = verdict, ![r].kind = "Hybrid"]
         /\ Goto(r, IF NeedsReview(r, verdict) THEN "review" ELSE "append")
    /\ UNCHANGED <<log, trace, alert, answer, failed>>

\* No client is configured, or the loop fails: the verdict is a stub.
EscalationFails(r) ==
    /\ pc[r] = "llm"
    /\ draft' = [draft EXCEPT ![r].verdict = "EscalatedStub", ![r].kind = "EscalatedStub"]
    /\ Goto(r, "append")
    /\ UNCHANGED <<log, trace, alert, answer, failed>>

\* Mutant of Review: a disagreement is recorded but does not change the verdict.
Review_keeps_verdict(r) ==
    /\ pc[r] = "review"
    /\ \E agrees \in BOOLEAN :
         draft' = [draft EXCEPT ![r].review = IF agrees THEN "agrees" ELSE "disagrees"]
    /\ Goto(r, "append")
    /\ UNCHANGED <<log, trace, alert, answer, failed>>

\* run_review; an error or an unparsable answer counts as a disagreement.
Review(r) ==
    /\ pc[r] = "review"
    /\ \E agrees \in BOOLEAN :
         draft' = IF agrees
                  THEN [draft EXCEPT ![r].review = "agrees"]
                  ELSE [draft EXCEPT ![r].review = "disagrees",
                                     ![r].verdict = "NeedsInvestigation"]
    /\ Goto(r, "append")
    /\ UNCHANGED <<log, trace, alert, answer, failed>>

-----------------------------------------------------------------------------
is_auto_closeable(verdict) == verdict \in {"Benign", "FalsePositive"}

\* The three gates of try_auto_close.
AutoCloses(d) ==
    /\ is_auto_closeable(d.verdict)
    /\ d.conf >= AutoCloseThreshold
    /\ check(d.principal, d.class, d.conf).allowed

\* What run_triage returns when it neither auto-closed nor investigated.
Pending(r) ==
    [NoAnswer EXCEPT !.verdict = draft[r].verdict, !.state = "PendingHumanReview"]

\* Mutant of AfterVerdict: the auto-close is answered without its own append.
AfterVerdict_closes_at_once(r) ==
    Answer(r, 200, [Pending(r) EXCEPT !.state =
                      IF AutoCloses(draft[r]) THEN "AutoClosed" ELSE @])

\* Where run_triage goes on after the verdict's append.
AfterVerdict(r) ==
    IF AutoCloses(draft[r])
    THEN Goto(r, "auto_close") /\ UNCHANGED answer
    ELSE IF draft[r].verdict = "NeedsInvestigation" /\ LlmConfigured
    THEN Goto(r, "investigate") /\ UNCHANGED answer
    ELSE Answer(r, 200, Pending(r))

\* The verdict's envelope is signed and appended; a failure is only logged.
AppendVerdict(r) ==
    /\ pc[r] = "append"
    /\ \E ok \in BOOLEAN : sign_and_append(draft[r], ok)
    /\ trace' = trace \cup {<<ActionId(r), "envelope">>}
    /\ AfterVerdict(r)
    /\ UNCHANGED <<alert, draft>>

\* The auto-close envelope carries the action id of the verdict it closes.
AutoCloseRow(r) == [draft[r] EXCEPT !.kind = "AutoClose", !.review = "none"]

AppendAutoClose(r) ==
    /\ pc[r] = "auto_close"
    /\ \E ok \in BOOLEAN : sign_and_append(AutoCloseRow(r), ok)
    /\ trace' = trace \cup {<<ActionId(r), "auto_close">>}
    /\ Answer(r, 200, [Pending(r) EXCEPT !.state = "AutoClosed"])
    /\ UNCHANGED <<alert, draft>>

\* run_investigator_llm_loop returns a verdict ...
Investigate(r) ==
    /\ pc[r] = "investigate"
    /\ \E verdict \in ModelVerdicts :
         answer' = [answer EXCEPT ![r].investigation = verdict]
    /\ Goto(r, "append_investigation")
    /\ UNCHANGED <<log, trace, alert, draft, failed>>

\* ... or fails, which the answer reports with the triage's own verdict.
InvestigationFails(r) ==
    /\ pc[r] = "investigate"
    /\ Answer(r, 200, [Pending(r) EXCEPT !.investigation = "error"])
    /\ UNCHANGED <<log, trace, alert, draft, failed>>

InvestigationRow(r) ==
    [NoDraft EXCEPT !.id = InvestigatorId(r), !.case = CaseOf[r], !.tenant = alert[r].tenant,
                    !.kind = "Llm", !.verdict = answer[r].investigation]

AppendInvestigation(r) ==
    /\ pc[r] = "append_investigation"
    /\ \E ok \in BOOLEAN : sign_and_append(InvestigationRow(r), ok)
    /\ trace' = trace \cup {<<InvestigatorId(r), "envelope">>}
    /\ Answer(r, 200, [Pending(r) EXCEPT !.investigation = answer[r].investigation])
    /\ UNCHANGED <<alert, draft>>

-----------------------------------------------------------------------------
\* Rows of a case, by position in the log.
RowsOf(case) == { i \in 1..Len(log) : log[i].case = case }

\* The last row of a case: envelopes.rev().find(case_id).
LatestRow(case) ==
    log[CHOOSE i \in RowsOf(case) : \A j \in RowsOf(case) : j <= i]

\* append_human_override reads the log without the append mutex ...
ReadForOverride(o) ==
    /\ pc[o] = "start"
    /\ IF RowsOf(CaseOf[o]) = {}
       THEN Answer(o, 404, NoAnswer) /\ UNCHANGED draft
       ELSE /\ \E verdict \in Labels :
                 draft' = [draft EXCEPT ![o] =
                   [@ EXCEPT !.id = ActionId(o), !.case = CaseOf[o], !.kind = "Override",
                             !.tenant = LatestRow(CaseOf[o]).tenant, !.verdict = verdict,
                             !.original = LatestRow(CaseOf[o]).id]]
            /\ Goto(o, "append")
            /\ UNCHANGED answer
    /\ UNCHANGED <<log, trace, alert, failed>>

ReadForOverrideFails(o) ==
    /\ pc[o] = "start"
    /\ Answer(o, 500, NoAnswer)
    /\ UNCHANGED <<log, trace, alert, draft, failed>>

\* ... and appends the override; only a stored row is acknowledged.
AppendOverride(o) ==
    /\ pc[o] = "append"
    /\ \E ok \in BOOLEAN :
         /\ sign_and_append(draft[o], ok)
         /\ trace' = IF ok THEN trace \cup {<<ActionId(o), "override">>} ELSE trace
         /\ Answer(o, IF ok THEN 200 ELSE 500, [NoAnswer EXCEPT !.verdict = draft[o].verdict])
    /\ UNCHANGED <<alert, draft>>

\* The client goes away or the process dies: the handler stops at an await.
Drop(r) ==
    /\ pc[r] \notin {"start", "done", "dropped"}
    /\ Goto(r, "dropped")
    /\ UNCHANGED <<log, trace, alert, draft, answer, failed>>

-----------------------------------------------------------------------------
TriageStep(r) ==
    \/ Classify(r) \/ ClassifierFails(r) \/ Calibrate(r)
    \/ Escalate(r) \/ EscalationFails(r) \/ Review(r)
    \/ AppendVerdict(r) \/ AppendAutoClose(r)
    \/ Investigate(r) \/ InvestigationFails(r) \/ AppendInvestigation(r)

OverrideStep(o) ==
    ReadForOverride(o) \/ ReadForOverrideFails(o) \/ AppendOverride(o)

Next ==
    \/ \E r \in Triages : TriageStep(r) \/ Drop(r)
    \/ \E o \in Overrides : OverrideStep(o) \/ Drop(o)

Spec == Init /\ [][Next]_vars

-----------------------------------------------------------------------------
\* Properties.

\* A case is closed automatically only on a benign or false-positive verdict, at
\* or above the threshold, for an allowed action class and a principal that no
\* spelling of the do-not-touch list names (auto_close.rs, shadow check).
AutoCloseGated ==
    \A i \in 1..Len(log) : log[i].kind = "AutoClose" =>
        /\ log[i].verdict \in {"Benign", "FalsePositive"}
        /\ log[i].conf >= AutoCloseThreshold
        /\ log[i].class \in AllowedActionClasses
        /\ \A s \in DoNotTouchList : Lower[s] # Lower[log[i].principal]
        /\ TenantAllowsAutomation

\* With enforcement on, no high-confidence TruePositive of an escalated triage is stored
\* unless a reviewer agreed with it, and none is answered that one disagreed with
\* (try_llm_escalation).  An investigation of a case is not reviewed, and its rows (kind
\* Llm) are not meant.
HighImpactReviewed ==
    Enforcement =>
        /\ \A i \in 1..Len(log) :
              /\ log[i].kind = "Hybrid"
              /\ log[i].verdict = "TruePositive"
              /\ log[i].conf >= CrossReviewThreshold
              => log[i].review = "agrees"
        /\ \A r \in Triages :
              answer[r].verdict = "TruePositive" => draft[r].review # "disagrees"

\* No decision takes effect past its gates, in whatever order requests, appends and
\* failures come: neither an automatic closing nor a verdict that wants a review.
DecisionsAreGated == AutoCloseGated /\ HighImpactReviewed

\* The log holds the row with this id, kind and verdict.
Attested(id, kinds, verdict) ==
    \E i \in 1..Len(log) :
        log[i].id = id /\ log[i].kind \in kinds /\ log[i].verdict = verdict

\* Every decision a client was given is in the log (the verdict, the auto-close and
\* the investigation of a triage) unless the very append of it returned an error,
\* which run_triage only logs; an acknowledged override is there without exception.
AnsweredIsAttested ==
    /\ \A r \in Triages : answer[r].status = 200 =>
          /\ \/ Attested(ActionId(r), {draft[r].kind}, answer[r].verdict)
             \/ <<ActionId(r), draft[r].kind>> \in failed
          /\ answer[r].state = "AutoClosed" =>
                \/ Attested(ActionId(r), {"AutoClose"}, answer[r].verdict)
                \/ <<ActionId(r), "AutoClose">> \in failed
          /\ answer[r].investigation \in ModelVerdicts =>
                \/ Attested(InvestigatorId(r), {"Llm"}, answer[r].investigation)
                \/ <<InvestigatorId(r), "Llm">> \in failed
    /\ \A o \in Overrides : answer[o].status = 200 =>
          Attested(ActionId(o), {"Override"}, answer[o].verdict)

\* verify_log accepts every row except an auto-close row, which repeats the action
\* id of its verdict, and the row right after one.
OnlyAutoCloseBreaksVerify ==
    \A i \in 1..Len(log) :
        \/ RowOk(log, 1, i)
        \/ log[i].kind = "AutoClose"
        \/ i > 1 /\ log[i - 1].kind = "AutoClose"

\* A log the orchestrator wrote verifies: the action id is "Unique ID for this
\* specific agent action/decision" (envelope.rs:208), on which verify_log relies.
LogVerifies == verify_log(log, 1)
=============================================================================
