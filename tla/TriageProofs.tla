---------------------------- MODULE TriageProofs ----------------------------
(***************************************************************************)
(* The decision pipeline, for any number of triages and overrides, any     *)
(* alerts, thresholds and scores, and whatever appends fail.               *)
(***************************************************************************)
EXTENDS Triage, EnvelopeChainProofs

-----------------------------------------------------------------------------
\* Types.

\* What alerts hold.
Tenants == { a.tenant : a \in UNION { Alerts[r] : r \in Triages } } \cup {"none"}
Principals == { a.principal : a \in UNION { Alerts[r] : r \in Triages } } \cup {"none"}
Classes == { a.class : a \in UNION { Alerts[r] : r \in Triages } } \cup {"none"}

TriageKinds == {"none", "Classifier", "Hybrid", "EscalatedStub"}

Row ==
    [call : Nat, id : Nat, prev : Nat, key : Nat, case : Nat, tenant : Tenants,
     kind : TriageKinds \cup {"AutoClose", "Llm", "Override"},
     verdict : Verdicts \cup {"none", "error"}, raw : Nat, conf : Nat,
     review : {"none", "agrees", "disagrees"}, principal : Principals, class : Classes,
     original : Nat]

AnswerRecord ==
    [status : Nat, verdict : Verdicts \cup {"none", "error"},
     state : {"none", "PendingHumanReview", "AutoClosed"},
     investigation : ModelVerdicts \cup {"none", "error"}]

\* Where a triage is before its verdict is appended, and after.
Deciding == {"start", "calibrate", "llm", "review", "append"}
Decided == {"auto_close", "investigate", "append_investigation", "done", "dropped"}

TriageTypes ==
    /\ log \in Seq(Row)
    /\ \A r \in Triages : alert[r] \in Alerts[r]
    /\ draft \in [Requests -> Row]
    /\ answer \in [Requests -> AnswerRecord]
    /\ pc \in [Requests -> Deciding \cup Decided]

\* An empty draft and an empty answer are well typed.
LEMMA NoDraftType == NoDraft \in Row /\ NoAnswer \in AnswerRecord
  <1>1. NoDraft \in Row
    BY DEF NoDraft, Row, GENESIS, Tenants, Principals, Classes, TriageKinds
  <1>2. NoAnswer \in AnswerRecord
    BY DEF NoAnswer, AnswerRecord
  <1> QED BY <1>1, <1>2

\* Requests, their ids and their cases are numbers.
LEMMA RequestType ==
    ASSUME NEW r \in Requests
    PROVE  r \in Nat \ {0} /\ ActionId(r) \in Nat /\ InvestigatorId(r) \in Nat /\ CaseOf[r] \in Nat
  BY TriageConstants DEF ActionId, InvestigatorId

\* What sign_and_append stores of a row: the hash and the pointer are its own.
LEMMA SignedRow ==
    ASSUME TriageTypes, NEW row \in Row
    PROVE  /\ Signed(row) \in Row
           /\ Signed(row).call = Len(log) + 1
           /\ Signed(row).prev = Len(log) \/ \E i \in 1..Len(log) : log[i].call # i
           /\ Signed(row).id = row.id /\ Signed(row).key = row.key
           /\ Signed(row).kind = row.kind /\ Signed(row).verdict = row.verdict
           /\ Signed(row).conf = row.conf /\ Signed(row).review = row.review
           /\ Signed(row).principal = row.principal /\ Signed(row).class = row.class
           /\ Signed(row).tenant = row.tenant /\ Signed(row).case = row.case
  <1> DEFINE prev == IF log = <<>> THEN GENESIS ELSE chain_hash(log[Len(log)])
  <1>1. Len(log) \in Nat /\ log \in Seq(Row)
    BY DEF TriageTypes
  <1>2. prev \in Nat /\ (prev = Len(log) \/ \E i \in 1..Len(log) : log[i].call # i)
    <2>1. CASE log = <<>>
      BY <2>1 DEF GENESIS
    <2>2. CASE log # <<>>
      <3>1. log[Len(log)] \in Row /\ Len(log) \in 1..Len(log)
        BY <1>1, <2>2
      <3> QED BY <2>2, <3>1 DEF chain_hash, Row
    <2> QED BY <2>1, <2>2
  <1> HIDE DEF prev
  <1>3. Signed(row) = [row EXCEPT !.call = Len(log) + 1, !.prev = prev]
    BY DEF Signed, prev
  <1>4. Signed(row) \in Row
    <2>1. Len(log) + 1 \in Nat /\ prev \in Nat
      BY <1>1, <1>2
    <2> QED BY <1>3, <2>1 DEF Row
  <1>5. Signed(row).call = Len(log) + 1 /\ Signed(row).prev = prev
    BY <1>1, <1>2, <1>3 DEF Row
  <1>6. /\ Signed(row).id = row.id /\ Signed(row).key = row.key
        /\ Signed(row).kind = row.kind /\ Signed(row).verdict = row.verdict
        /\ Signed(row).conf = row.conf /\ Signed(row).review = row.review
    BY <1>3 DEF Row
  <1>7. /\ Signed(row).principal = row.principal /\ Signed(row).class = row.class
        /\ Signed(row).tenant = row.tenant /\ Signed(row).case = row.case
    BY <1>3 DEF Row
  <1> QED BY <1>2, <1>4, <1>5, <1>6, <1>7

-----------------------------------------------------------------------------
\* The invariant.

GatedRow(row) ==
    row.kind = "AutoClose" =>
        /\ row.verdict \in {"Benign", "FalsePositive"}
        /\ row.conf >= AutoCloseThreshold
        /\ row.class \in AllowedActionClasses
        /\ \A s \in DoNotTouchList : Lower[s] # Lower[row.principal]
        /\ TenantAllowsAutomation

ReviewedRow(row) ==
    /\ Enforcement /\ row.kind = "Hybrid" /\ row.verdict = "TruePositive"
    /\ row.conf >= CrossReviewThreshold
    => row.review = "agrees"

\* The log is chained row by row, an action id comes back only in an auto-close row, and
\* an id in the log is one its request has used up.
LogInv ==
    \A i \in 1..Len(log) :
        /\ GatedRow(log[i]) /\ ReviewedRow(log[i])
        /\ log[i].call = i /\ log[i].prev = i - 1 /\ log[i].key = 1
        /\ log[i].kind # "AutoClose" => \A j \in 1..(i - 1) : log[j].id # log[i].id
        /\ \A q \in Requests :
              /\ log[i].id = ActionId(q) => pc[q] \in Decided
              /\ log[i].id = InvestigatorId(q) => pc[q] = "done"

\* The row of a decision is in the log, or its append returned an error.
Kept(id, kind, verdict) == Attested(id, {kind}, verdict) \/ <<id, kind>> \in failed

\* A triage, from the draft of its verdict to its answer.
TriageInv(r) ==
    /\ draft[r].key = 1 /\ draft[r].kind \in TriageKinds
    /\ pc[r] \notin {"start", "done", "dropped"} => draft[r].id = ActionId(r)
    /\ pc[r] \in Deciding \ {"append"} => draft[r].review = "none"
    /\ draft[r].review = "disagrees" => draft[r].verdict = "NeedsInvestigation"
    /\ pc[r] = "append" => ReviewedRow(draft[r])
    /\ pc[r] = "auto_close" => AutoCloses(draft[r])
    /\ pc[r] \in {"auto_close", "investigate", "append_investigation"} =>
          Kept(ActionId(r), draft[r].kind, draft[r].verdict)
    /\ answer[r].verdict # "none" => answer[r].verdict = draft[r].verdict
    /\ pc[r] # "done" => answer[r].status = 0 /\ answer[r].verdict = "none"
    /\ answer[r].status = 200 =>
          /\ answer[r].verdict = draft[r].verdict
          /\ Kept(ActionId(r), draft[r].kind, draft[r].verdict)
          /\ answer[r].state = "AutoClosed" => Kept(ActionId(r), "AutoClose", draft[r].verdict)
          /\ answer[r].investigation \in ModelVerdicts =>
                Kept(InvestigatorId(r), "Llm", answer[r].investigation)

OverrideInv(o) ==
    /\ pc[o] \in {"start", "append", "done", "dropped"}
    /\ draft[o].key = 1
    /\ pc[o] = "append" => draft[o].id = ActionId(o) /\ draft[o].kind = "Override"
    /\ pc[o] # "done" => answer[o].status = 0
    /\ answer[o].status = 200 => Attested(ActionId(o), {"Override"}, answer[o].verdict)

PipelineInv ==
    /\ TriageTypes /\ LogInv
    /\ \A r \in Triages : TriageInv(r)
    /\ \A o \in Overrides : OverrideInv(o)

-----------------------------------------------------------------------------
\* The gates of try_auto_close: the shadow check lets through what it should.
LEMMA GatesHold ==
    ASSUME NEW row, AutoCloses(row)
    PROVE  /\ row.verdict \in {"Benign", "FalsePositive"}
           /\ row.conf >= AutoCloseThreshold
           /\ row.class \in AllowedActionClasses
           /\ \A s \in DoNotTouchList : Lower[s] # Lower[row.principal]
           /\ TenantAllowsAutomation
  <1>1. /\ row.verdict \in {"Benign", "FalsePositive"} /\ row.conf >= AutoCloseThreshold
        /\ check(row.principal, row.class, row.conf).allowed
    BY DEF AutoCloses, is_auto_closeable
  <1>2. ~IsProtected(row.principal) /\ row.class \in AllowedActionClasses
    BY <1>1 DEF check, Denied
  <1>3. authorize("triager", "triager_auto_close", GateContext(row.conf, 1)) = "allow"
    BY <1>1, <1>2 DEF check
  <1>4. TenantAllowsAutomation
    BY <1>3, ShadowCheckConstants
       DEF authorize, authorize_triager, ReadOnlyTools, AllowIf, GateContext
  <1>5. \A s \in DoNotTouchList : Lower[s] # Lower[row.principal]
    BY <1>2 DEF IsProtected, do_not_touch
  <1> QED BY <1>1, <1>2, <1>4, <1>5

\* The steps of one request leave the others alone, and nothing is ever taken out of the
\* log or forgotten of the failures.
Local(r) ==
    \A q \in Requests : q # r =>
        pc'[q] = pc[q] /\ draft'[q] = draft[q] /\ answer'[q] = answer[q]

LogExtends ==
    /\ Len(log) <= Len(log') /\ \A i \in 1..Len(log) : log'[i] = log[i]
    /\ failed \subseteq failed'

\* A row that is in the log stays in it.
LEMMA KeptStays ==
    ASSUME TriageTypes, TriageTypes', LogExtends, NEW id, NEW kind, NEW verdict
    PROVE  /\ Attested(id, {kind}, verdict) => Attested(id, {kind}, verdict)'
           /\ Kept(id, kind, verdict) => Kept(id, kind, verdict)'
  <1>1. Len(log) \in Nat /\ Len(log') \in Nat
    BY DEF TriageTypes
  <1>2. Attested(id, {kind}, verdict) => Attested(id, {kind}, verdict)'
    BY <1>1 DEF Attested, LogExtends
  <1> QED BY <1>2 DEF Kept, LogExtends

\* So the other requests keep their invariants.
LEMMA OthersKeep ==
    ASSUME TriageTypes, TriageTypes', LogExtends, NEW q \in Requests,
           pc'[q] = pc[q], draft'[q] = draft[q], answer'[q] = answer[q]
    PROVE  /\ q \in Triages /\ TriageInv(q) => TriageInv(q)'
           /\ q \in Overrides /\ OverrideInv(q) => OverrideInv(q)'
  <1>1. ASSUME TriageInv(q) PROVE TriageInv(q)'
    <2> DEFINE d == draft[q]
               a == answer[q]
    <2>1. /\ pc[q] \in {"auto_close", "investigate", "append_investigation"} =>
               Kept(ActionId(q), d.kind, d.verdict)'
          /\ a.status = 200 =>
               /\ Kept(ActionId(q), d.kind, d.verdict)'
               /\ a.state = "AutoClosed" => Kept(ActionId(q), "AutoClose", d.verdict)'
               /\ a.investigation \in ModelVerdicts =>
                     Kept(InvestigatorId(q), "Llm", a.investigation)'
      <3>1. \A id, kind, verdict : Kept(id, kind, verdict) => Kept(id, kind, verdict)'
        BY KeptStays
      <3> QED BY <1>1, <3>1 DEF TriageInv
    <2>2. ReviewedRow(d)' <=> ReviewedRow(d)
      BY DEF ReviewedRow
    <2>3. AutoCloses(d)' <=> AutoCloses(d)
      BY DEF AutoCloses
    <2> QED BY <1>1, <2>1, <2>2, <2>3 DEF TriageInv
  <1>2. ASSUME OverrideInv(q) PROVE OverrideInv(q)'
    BY <1>2, KeptStays DEF OverrideInv, ActionId
  <1> QED BY <1>1, <1>2

\* One request moved: what remains to be shown is about it and the log.
LEMMA OneRequestMoves ==
    ASSUME PipelineInv, NEW r \in Requests, Local(r), LogExtends, TriageTypes', LogInv',
           r \in Triages => TriageInv(r)', r \in Overrides => OverrideInv(r)'
    PROVE  PipelineInv'
  <1>1. ASSUME NEW q \in Triages PROVE TriageInv(q)'
    <2>1. CASE q = r
      BY <2>1
    <2>2. CASE q # r
      BY <2>2, OthersKeep DEF PipelineInv, Local, Requests
    <2> QED BY <2>1, <2>2
  <1>2. ASSUME NEW q \in Overrides PROVE OverrideInv(q)'
    <2>1. CASE q = r
      BY <2>1
    <2>2. CASE q # r
      BY <2>2, OthersKeep DEF PipelineInv, Local, Requests
    <2> QED BY <2>1, <2>2
  <1> QED BY <1>1, <1>2 DEF PipelineInv

\* A step without an append keeps the log's invariant if no request goes back.
LEMMA LogStays ==
    ASSUME PipelineInv, log' = log, failed \subseteq failed', NEW r \in Requests, Local(r),
           pc[r] \in Decided => pc'[r] \in Decided, pc[r] # "done"
    PROVE  LogInv' /\ LogExtends
  <1>1. LogExtends
    BY DEF LogExtends, PipelineInv, TriageTypes
  <1>2. ASSUME NEW q \in Requests
        PROVE  (pc[q] \in Decided => pc'[q] \in Decided) /\ (pc[q] = "done" => pc'[q] = "done")
    BY DEF Local
  <1> QED BY <1>1, <1>2 DEF PipelineInv, LogInv, GatedRow, ReviewedRow, ActionId, InvestigatorId

\* A signed row at the end of the log keeps it chained, if the row passed its gates, its
\* id is new (unless it is an auto-close) and the requests with that id have spent it.
LEMMA RowExtends ==
    ASSUME PipelineInv, NEW r \in Requests, Local(r),
           pc[r] \in Decided => pc'[r] \in Decided, pc[r] # "done",
           NEW row \in Row, row.key = 1, GatedRow(row), ReviewedRow(row),
           row.kind # "AutoClose" => \A j \in 1..Len(log) : log[j].id # row.id,
           \A q \in Requests : /\ row.id = ActionId(q) => pc'[q] \in Decided
                               /\ row.id = InvestigatorId(q) => pc'[q] = "done",
           log' = Append(log, Signed(row)), failed \subseteq failed'
    PROVE  /\ LogInv' /\ LogExtends /\ log' \in Seq(Row)
           /\ Attested(row.id, {row.kind}, row.verdict)'
  <1> DEFINE new == Signed(row)
             n == Len(log)
  <1>1. TriageTypes /\ log \in Seq(Row) /\ n \in Nat
    BY DEF PipelineInv, TriageTypes
  <1>2. new \in Row
    BY <1>1, SignedRow
  <1>3. /\ log' \in Seq(Row) /\ Len(log') = n + 1 /\ log'[n + 1] = new
        /\ \A i \in 1..n : log'[i] = log[i]
    BY <1>1, <1>2
  <1>4. /\ new.call = n + 1 /\ new.prev = n /\ new.id = row.id /\ new.key = 1
        /\ new.kind = row.kind /\ new.verdict = row.verdict
    <2>1. \A i \in 1..n : log[i].call = i
      BY DEF PipelineInv, LogInv
    <2> QED BY <1>1, <2>1, SignedRow
  <1>5. GatedRow(new) /\ ReviewedRow(new)
    <2>1. /\ new.conf = row.conf /\ new.review = row.review
          /\ new.principal = row.principal /\ new.class = row.class
      BY <1>1, SignedRow
    <2> HIDE DEF new
    <2> QED BY <1>4, <2>1 DEF GatedRow, ReviewedRow
  <1> HIDE DEF new
  <1>6. LogExtends
    BY <1>1, <1>3 DEF LogExtends
  <1>7. Attested(row.id, {row.kind}, row.verdict)'
    <2>1. n + 1 \in 1..Len(log')
      BY <1>1, <1>3
    <2> QED BY <2>1, <1>3, <1>4 DEF Attested
  <1>8. ASSUME NEW q \in Requests
        PROVE  (pc[q] \in Decided => pc'[q] \in Decided) /\ (pc[q] = "done" => pc'[q] = "done")
    BY DEF Local
  <1>9. ASSUME NEW i \in 1..n
        PROVE  /\ GatedRow(log[i]) /\ ReviewedRow(log[i])
               /\ log[i].call = i /\ log[i].prev = i - 1 /\ log[i].key = 1
               /\ log[i].kind # "AutoClose" => \A j \in 1..(i - 1) : log[j].id # log[i].id
               /\ \A q \in Requests :
                     /\ log[i].id = ActionId(q) => pc'[q] \in Decided
                     /\ log[i].id = InvestigatorId(q) => pc'[q] = "done"
    BY <1>8 DEF PipelineInv, LogInv
  <1>10. ASSUME NEW i \in 1..Len(log')
         PROVE  /\ GatedRow(log'[i]) /\ ReviewedRow(log'[i])
                /\ log'[i].call = i /\ log'[i].prev = i - 1 /\ log'[i].key = 1
                /\ log'[i].kind # "AutoClose" => \A j \in 1..(i - 1) : log'[j].id # log'[i].id
                /\ \A q \in Requests :
                      /\ log'[i].id = ActionId(q) => pc'[q] \in Decided
                      /\ log'[i].id = InvestigatorId(q) => pc'[q] = "done"
    <2>1. CASE i = n + 1
      BY <1>1, <1>3, <1>4, <1>5, <2>1
    <2>2. CASE i # n + 1
      <3>1. i \in 1..n /\ \A j \in 1..(i - 1) : j \in 1..n
        BY <1>1, <1>3, <2>2
      <3> QED BY <3>1, <1>3, <1>9
    <2> QED BY <2>1, <2>2
  <1>11. LogInv'
    BY <1>10 DEF LogInv, GatedRow, ReviewedRow, ActionId, InvestigatorId
  <1> QED BY <1>3, <1>6, <1>7, <1>11

\* sign_and_append, whatever it returns: the row is stored, or the failure is known.
Stored(row) == log' = Append(log, Signed(row))

Appended(row) ==
    /\ failed \subseteq failed'
    /\ Stored(row) \/ (log' = log /\ <<row.id, row.kind>> \in failed')

\* An append that succeeds stores its row; one that fails stores it or not.
LEMMA AppendOutcomes ==
    ASSUME NEW row, NEW ok \in BOOLEAN, sign_and_append(row, ok)
    PROVE  Appended(row) /\ (ok => Stored(row))
  <1>1. \/ ok /\ Stored(row) /\ failed' = failed
        \/ /\ ~ok /\ (log' = log \/ Stored(row))
           /\ failed' = failed \cup {<<row.id, row.kind>>}
    BY Zenon DEF sign_and_append, Stored
  <1>2. failed \subseteq failed'
    <2>1. failed' = failed \/ failed' = failed \cup {<<row.id, row.kind>>}
      BY <1>1, Zenon
    <2> QED BY <2>1
  <1>3. Stored(row) \/ (log' = log /\ <<row.id, row.kind>> \in failed')
    <2>1. Stored(row) \/ (log' = log /\ failed' = failed \cup {<<row.id, row.kind>>})
      BY <1>1, Zenon
    <2> QED BY <2>1
  <1>4. ok => Stored(row)
    BY <1>1
  <1> QED BY <1>2, <1>3, <1>4 DEF Appended

\* The log stays chained either way.
LEMMA AppendKeeps ==
    ASSUME PipelineInv, NEW r \in Requests, Local(r),
           pc[r] \in Decided => pc'[r] \in Decided, pc[r] # "done",
           NEW row \in Row, row.key = 1, GatedRow(row), ReviewedRow(row),
           row.kind # "AutoClose" => \A j \in 1..Len(log) : log[j].id # row.id,
           \A q \in Requests : /\ row.id = ActionId(q) => pc'[q] \in Decided
                               /\ row.id = InvestigatorId(q) => pc'[q] = "done",
           Appended(row)
    PROVE  /\ LogInv' /\ LogExtends /\ log' \in Seq(Row)
           /\ Kept(row.id, row.kind, row.verdict)'
           /\ Stored(row) => Attested(row.id, {row.kind}, row.verdict)'
  <1>1. failed \subseteq failed'
    BY DEF Appended
  <1>2. CASE Stored(row)
    <2>1. /\ LogInv' /\ LogExtends /\ log' \in Seq(Row)
          /\ Attested(row.id, {row.kind}, row.verdict)'
      BY <1>1, <1>2, RowExtends DEF Stored
    <2> QED BY <2>1 DEF Kept
  <1>3. CASE ~Stored(row) /\ log' = log /\ <<row.id, row.kind>> \in failed'
    <2>1. LogInv' /\ LogExtends
      BY <1>1, <1>3, LogStays
    <2>2. log' \in Seq(Row)
      BY <1>3 DEF PipelineInv, TriageTypes
    <2> QED BY <1>3, <2>1, <2>2 DEF Kept
  <1> QED BY <1>2, <1>3 DEF Appended

-----------------------------------------------------------------------------
\* The actions.

\* Request r goes on at label with draft d and answer a.
MovesTo(r, label, d, a) ==
    /\ pc' = [pc EXCEPT ![r] = label]
    /\ draft' = [draft EXCEPT ![r] = d]
    /\ answer' = [answer EXCEPT ![r] = a]
    /\ alert' = alert

\* Such a step is local and keeps the types of what it touches.
LEMMA MovesLocally ==
    ASSUME TriageTypes, NEW r \in Requests, NEW label \in Deciding \cup Decided,
           NEW d \in Row, NEW a \in AnswerRecord, MovesTo(r, label, d, a)
    PROVE  /\ Local(r) /\ pc'[r] = label /\ draft'[r] = d /\ answer'[r] = a
           /\ log' \in Seq(Row) => TriageTypes'
  <1>1. Local(r) /\ pc'[r] = label /\ draft'[r] = d /\ answer'[r] = a
    BY DEF MovesTo, Local, TriageTypes
  <1>2. /\ draft' \in [Requests -> Row] /\ answer' \in [Requests -> AnswerRecord]
        /\ pc' \in [Requests -> Deciding \cup Decided]
    BY DEF MovesTo, TriageTypes
  <1>3. \A q \in Triages : alert'[q] \in Alerts[q]
    BY DEF MovesTo, TriageTypes
  <1> QED BY <1>1, <1>2, <1>3 DEF TriageTypes

\* A step without an append.
LEMMA QuietStep ==
    ASSUME PipelineInv, NEW r \in Requests, NEW label \in Deciding \cup Decided,
           NEW d \in Row, NEW a \in AnswerRecord, MovesTo(r, label, d, a),
           UNCHANGED <<log, failed>>, pc[r] \in Decided => label \in Decided, pc[r] # "done"
    PROVE  /\ Local(r) /\ pc'[r] = label /\ draft'[r] = d /\ answer'[r] = a
           /\ TriageTypes' /\ LogInv' /\ LogExtends
  <1>1. /\ Local(r) /\ pc'[r] = label /\ draft'[r] = d /\ answer'[r] = a /\ TriageTypes'
    BY MovesLocally DEF PipelineInv, TriageTypes
  <1>2. LogInv' /\ LogExtends
    BY <1>1, LogStays
  <1> QED BY <1>1, <1>2

\* What a request reads of its alert.
LEMMA AlertType ==
    ASSUME TriageTypes, NEW r \in Triages
    PROVE  /\ alert[r].tenant \in Tenants /\ alert[r].principal \in Principals
           /\ alert[r].class \in Classes /\ alert[r].raw \in Nat /\ alert[r].novelty \in Nat
  <1>1. alert[r] \in Alerts[r] /\ alert[r] \in UNION { Alerts[q] : q \in Triages }
    BY DEF TriageTypes
  <1>2. alert[r].raw \in Nat /\ alert[r].novelty \in Nat
    BY <1>1, TriageConstants
  <1>3. /\ alert[r].tenant \in Tenants /\ alert[r].principal \in Principals
        /\ alert[r].class \in Classes
    BY <1>1 DEF Tenants, Principals, Classes
  <1> QED BY <1>2, <1>3

\* What every action of a triage starts from.
LEMMA TriageFacts ==
    ASSUME PipelineInv, NEW r \in Triages
    PROVE  /\ r \in Requests /\ r \notin Overrides /\ TriageTypes /\ TriageInv(r)
           /\ draft[r] \in Row /\ answer[r] \in AnswerRecord
           /\ ActionId(r) \in Nat /\ InvestigatorId(r) \in Nat /\ CaseOf[r] \in Nat
  <1>1. r \in Requests /\ r \notin Overrides /\ TriageTypes /\ TriageInv(r)
    BY TriageConstants DEF Requests, PipelineInv
  <1> QED BY <1>1, RequestType DEF TriageTypes

\* The classifier answers.
LEMMA ClassifyKeeps ==
    ASSUME PipelineInv, NEW r \in Triages, Classify(r)
    PROVE  PipelineInv'
  <1> DEFINE d == [draft[r] EXCEPT !.id = ActionId(r), !.case = CaseOf[r],
                     !.tenant = alert[r].tenant, !.raw = alert[r].raw,
                     !.principal = alert[r].principal, !.class = alert[r].class]
  <1>1. r \in Requests /\ r \notin Overrides /\ TriageTypes /\ TriageInv(r)
    BY TriageFacts
  <1>2. draft[r] \in Row /\ answer[r] \in AnswerRecord
    BY TriageFacts
  <1>3. d \in Row
    <2>1. ActionId(r) \in Nat /\ CaseOf[r] \in Nat
      BY <1>1, RequestType
    <2> QED BY <1>1, <1>2, <2>1, AlertType DEF Row
  <1>4. /\ d.id = ActionId(r) /\ d.key = draft[r].key /\ d.kind = draft[r].kind
        /\ d.review = draft[r].review /\ d.verdict = draft[r].verdict
    BY <1>2 DEF Row
  <1>5. MovesTo(r, "calibrate", d, answer[r]) /\ UNCHANGED <<log, failed>> /\ pc[r] = "start"
    BY <1>1, <1>2 DEF Classify, Goto, MovesTo, TriageTypes
  <1> HIDE DEF d
  <1>6. /\ Local(r) /\ pc'[r] = "calibrate" /\ draft'[r] = d /\ answer'[r] = answer[r]
        /\ TriageTypes' /\ LogInv' /\ LogExtends
    BY <1>1, <1>2, <1>3, <1>5, QuietStep DEF Deciding, Decided
  <1>7. TriageInv(r)'
    BY <1>1, <1>4, <1>5, <1>6 DEF TriageInv, Deciding, ActionId
  <1> QED BY <1>1, <1>6, <1>7, OneRequestMoves

\* The classifier fails.
LEMMA ClassifierFailsKeeps ==
    ASSUME PipelineInv, NEW r \in Triages, ClassifierFails(r)
    PROVE  PipelineInv'
  <1> DEFINE a == [NoAnswer EXCEPT !.status = 500]
  <1>1. r \in Requests /\ r \notin Overrides /\ TriageTypes /\ TriageInv(r)
    BY TriageFacts
  <1>2. draft[r] \in Row /\ answer[r] \in AnswerRecord
    BY TriageFacts
  <1>3. a \in AnswerRecord /\ a.status = 500 /\ a.verdict = "none"
    BY DEF NoAnswer, AnswerRecord
  <1>4. MovesTo(r, "done", draft[r], a) /\ UNCHANGED <<log, failed>> /\ pc[r] = "start"
    BY <1>1 DEF ClassifierFails, Answer, MovesTo, TriageTypes
  <1> HIDE DEF a
  <1>5. /\ Local(r) /\ pc'[r] = "done" /\ draft'[r] = draft[r] /\ answer'[r] = a
        /\ TriageTypes' /\ LogInv' /\ LogExtends
    BY <1>1, <1>2, <1>3, <1>4, QuietStep DEF Deciding, Decided
  <1>6. TriageInv(r)'
    BY <1>1, <1>3, <1>4, <1>5 DEF TriageInv, Deciding
  <1> QED BY <1>1, <1>5, <1>6, OneRequestMoves

\* The sidecar scores or the raw score is used, and the request is routed.
LEMMA CalibrateKeeps ==
    ASSUME PipelineInv, NEW r \in Triages, Calibrate(r)
    PROVE  PipelineInv'
  <1>1. r \in Requests /\ r \notin Overrides /\ TriageTypes /\ TriageInv(r)
    BY TriageFacts
  <1>2. draft[r] \in Row /\ answer[r] \in AnswerRecord
    BY TriageFacts
  <1>3. PICK conf \in Scores \cup {alert[r].raw} :
          IF ShouldEscalate(conf, alert[r].novelty)
          THEN /\ draft' = [draft EXCEPT ![r].conf = conf]
               /\ Goto(r, "llm")
          ELSE /\ draft' = [draft EXCEPT ![r].conf = conf,
                                         ![r].verdict = ClassifierVerdict(conf),
                                         ![r].kind = "Classifier"]
               /\ Goto(r, "append")
    BY DEF Calibrate
  <1>4. conf \in Nat /\ ClassifierVerdict(conf) \in Verdicts
    BY <1>1, AlertType, TriageConstants DEF ClassifierVerdict, Verdicts, ModelVerdicts
  <1>5. UNCHANGED <<log, failed>> /\ answer' = answer /\ alert' = alert /\ pc[r] = "calibrate"
    BY DEF Calibrate
  <1>6. CASE draft' = [draft EXCEPT ![r].conf = conf] /\ Goto(r, "llm")
    <2> DEFINE d == [draft[r] EXCEPT !.conf = conf]
    <2>1. d \in Row
      BY <1>2, <1>4 DEF Row
    <2>2. /\ d.id = draft[r].id /\ d.key = draft[r].key /\ d.kind = draft[r].kind
          /\ d.review = draft[r].review /\ d.verdict = draft[r].verdict
      BY <1>2 DEF Row
    <2>3. MovesTo(r, "llm", d, answer[r])
      BY <1>1, <1>2, <1>5, <1>6 DEF Goto, MovesTo, TriageTypes
    <2> HIDE DEF d
    <2>4. /\ Local(r) /\ pc'[r] = "llm" /\ draft'[r] = d /\ answer'[r] = answer[r]
          /\ TriageTypes' /\ LogInv' /\ LogExtends
      BY <1>1, <1>2, <1>5, <2>1, <2>3, QuietStep DEF Deciding, Decided
    <2>5. TriageInv(r)'
      BY <1>1, <1>5, <2>2, <2>4 DEF TriageInv, Deciding, ActionId
    <2> QED BY <1>1, <2>4, <2>5, OneRequestMoves
  <1>7. CASE /\ draft' = [draft EXCEPT ![r].conf = conf, ![r].verdict = ClassifierVerdict(conf),
                                       ![r].kind = "Classifier"]
             /\ Goto(r, "append")
    <2> DEFINE v == ClassifierVerdict(conf)
               d == [draft[r] EXCEPT !.conf = conf, !.verdict = v, !.kind = "Classifier"]
    <2> HIDE DEF v
    <2>1. d \in Row
      BY <1>2, <1>4 DEF Row, TriageKinds, v
    <2>2. /\ d.id = draft[r].id /\ d.key = draft[r].key /\ d.kind = "Classifier"
          /\ d.review = draft[r].review
      BY <1>2 DEF Row
    <2>3. MovesTo(r, "append", d, answer[r])
      BY <1>1, <1>2, <1>5, <1>7 DEF Goto, MovesTo, TriageTypes, v
    <2> HIDE DEF d
    <2>4. /\ Local(r) /\ pc'[r] = "append" /\ draft'[r] = d /\ answer'[r] = answer[r]
          /\ TriageTypes' /\ LogInv' /\ LogExtends
      BY <1>1, <1>2, <1>5, <2>1, <2>3, QuietStep DEF Deciding, Decided
    <2>5. TriageInv(r)'
      BY <1>1, <1>5, <2>2, <2>4 DEF TriageInv, ReviewedRow, Deciding, ActionId, TriageKinds
    <2> QED BY <1>1, <2>4, <2>5, OneRequestMoves
  <1> QED BY <1>3, <1>6, <1>7

\* The agent loop returns a verdict.
LEMMA EscalateKeeps ==
    ASSUME PipelineInv, NEW r \in Triages, Escalate(r)
    PROVE  PipelineInv'
  <1>1. r \in Requests /\ r \notin Overrides /\ TriageTypes /\ TriageInv(r)
    BY TriageFacts
  <1>2. draft[r] \in Row /\ answer[r] \in AnswerRecord
    BY TriageFacts
  <1>3. PICK verdict \in ModelVerdicts :
          /\ draft' = [draft EXCEPT ![r].verdict = verdict, ![r].kind = "Hybrid"]
          /\ Goto(r, IF NeedsReview(r, verdict) THEN "review" ELSE "append")
    BY DEF Escalate
  <1> DEFINE d == [draft[r] EXCEPT !.verdict = verdict, !.kind = "Hybrid"]
             label == IF NeedsReview(r, verdict) THEN "review" ELSE "append"
  <1>4. d \in Row
    BY <1>2 DEF Row, TriageKinds, Verdicts
  <1>5. /\ d.id = draft[r].id /\ d.key = draft[r].key /\ d.kind = "Hybrid"
        /\ d.review = draft[r].review /\ d.verdict = verdict /\ d.conf = draft[r].conf
    BY <1>2 DEF Row
  <1>6. MovesTo(r, label, d, answer[r]) /\ UNCHANGED <<log, failed>> /\ pc[r] = "llm"
    BY <1>1, <1>2, <1>3 DEF Escalate, Goto, MovesTo, TriageTypes
  <1>7. /\ label \in {"review", "append"}
        /\ label = "append" => ReviewedRow(d)
    <2>1. d.conf \in Nat /\ CrossReviewThreshold \in Nat
      BY <1>4, TriageConstants DEF Row
    <2> HIDE DEF d
    <2> QED BY <1>5, <2>1 DEF NeedsReview, ReviewedRow
  <1> HIDE DEF d, label
  <1>8. /\ Local(r) /\ pc'[r] = label /\ draft'[r] = d /\ answer'[r] = answer[r]
        /\ TriageTypes' /\ LogInv' /\ LogExtends
    BY <1>1, <1>2, <1>4, <1>6, <1>7, QuietStep DEF Deciding, Decided
  <1>9. TriageInv(r)'
    BY <1>1, <1>5, <1>6, <1>7, <1>8 DEF TriageInv, ReviewedRow, Deciding, ActionId, TriageKinds
  <1> QED BY <1>1, <1>8, <1>9, OneRequestMoves

\* The loop fails and the verdict is a stub.
LEMMA EscalationFailsKeeps ==
    ASSUME PipelineInv, NEW r \in Triages, EscalationFails(r)
    PROVE  PipelineInv'
  <1> DEFINE d == [draft[r] EXCEPT !.verdict = "EscalatedStub", !.kind = "EscalatedStub"]
  <1>1. r \in Requests /\ r \notin Overrides /\ TriageTypes /\ TriageInv(r)
    BY TriageFacts
  <1>2. draft[r] \in Row /\ answer[r] \in AnswerRecord
    BY TriageFacts
  <1>3. d \in Row
    BY <1>2 DEF Row, TriageKinds, Verdicts
  <1>4. /\ d.id = draft[r].id /\ d.key = draft[r].key /\ d.kind = "EscalatedStub"
        /\ d.review = draft[r].review
    BY <1>2 DEF Row
  <1>5. MovesTo(r, "append", d, answer[r]) /\ UNCHANGED <<log, failed>> /\ pc[r] = "llm"
    BY <1>1, <1>2 DEF EscalationFails, Goto, MovesTo, TriageTypes
  <1> HIDE DEF d
  <1>6. /\ Local(r) /\ pc'[r] = "append" /\ draft'[r] = d /\ answer'[r] = answer[r]
        /\ TriageTypes' /\ LogInv' /\ LogExtends
    BY <1>1, <1>2, <1>3, <1>5, QuietStep DEF Deciding, Decided
  <1>7. TriageInv(r)'
    BY <1>1, <1>4, <1>5, <1>6 DEF TriageInv, ReviewedRow, Deciding, ActionId, TriageKinds
  <1> QED BY <1>1, <1>6, <1>7, OneRequestMoves

\* run_review agrees, or the verdict goes to a human.
LEMMA ReviewKeeps ==
    ASSUME PipelineInv, NEW r \in Triages, Review(r)
    PROVE  PipelineInv'
  <1>1. r \in Requests /\ r \notin Overrides /\ TriageTypes /\ TriageInv(r)
    BY TriageFacts
  <1>2. draft[r] \in Row /\ answer[r] \in AnswerRecord
    BY TriageFacts
  <1>3. PICK agrees \in BOOLEAN :
          draft' = IF agrees
                   THEN [draft EXCEPT ![r].review = "agrees"]
                   ELSE [draft EXCEPT ![r].review = "disagrees",
                                      ![r].verdict = "NeedsInvestigation"]
    BY DEF Review
  <1> DEFINE d == IF agrees THEN [draft[r] EXCEPT !.review = "agrees"]
                  ELSE [draft[r] EXCEPT !.review = "disagrees", !.verdict = "NeedsInvestigation"]
  <1>4. d \in Row
    BY <1>2 DEF Row, Verdicts, ModelVerdicts
  <1>5. /\ d.id = draft[r].id /\ d.key = draft[r].key /\ d.kind = draft[r].kind
        /\ \/ d.review = "agrees"
           \/ d.review = "disagrees" /\ d.verdict = "NeedsInvestigation"
    BY <1>2 DEF Row
  <1>6. MovesTo(r, "append", d, answer[r]) /\ UNCHANGED <<log, failed>> /\ pc[r] = "review"
    BY <1>1, <1>2, <1>3 DEF Review, Goto, MovesTo, TriageTypes
  <1> HIDE DEF d
  <1>7. /\ Local(r) /\ pc'[r] = "append" /\ draft'[r] = d /\ answer'[r] = answer[r]
        /\ TriageTypes' /\ LogInv' /\ LogExtends
    BY <1>1, <1>2, <1>4, <1>6, QuietStep DEF Deciding, Decided
  <1>8. TriageInv(r)'
    BY <1>1, <1>5, <1>6, <1>7 DEF TriageInv, ReviewedRow, Deciding, ActionId, TriageKinds
  <1> QED BY <1>1, <1>7, <1>8, OneRequestMoves

\* The loop of an investigation returns a verdict.
LEMMA InvestigateKeeps ==
    ASSUME PipelineInv, NEW r \in Triages, Investigate(r)
    PROVE  PipelineInv'
  <1>1. r \in Requests /\ r \notin Overrides /\ TriageTypes /\ TriageInv(r)
    BY TriageFacts
  <1>2. draft[r] \in Row /\ answer[r] \in AnswerRecord
    BY TriageFacts
  <1>3. PICK verdict \in ModelVerdicts : answer' = [answer EXCEPT ![r].investigation = verdict]
    BY DEF Investigate
  <1> DEFINE a == [answer[r] EXCEPT !.investigation = verdict]
  <1>4. a \in AnswerRecord /\ a.status = answer[r].status /\ a.verdict = answer[r].verdict
    BY <1>2 DEF AnswerRecord
  <1>5. /\ MovesTo(r, "append_investigation", draft[r], a)
        /\ UNCHANGED <<log, failed>> /\ pc[r] = "investigate"
    BY <1>1, <1>2, <1>3 DEF Investigate, Goto, MovesTo, TriageTypes
  <1> HIDE DEF a
  <1>6. /\ Local(r) /\ pc'[r] = "append_investigation" /\ draft'[r] = draft[r] /\ answer'[r] = a
        /\ TriageTypes' /\ LogInv' /\ LogExtends
    BY <1>1, <1>2, <1>4, <1>5, QuietStep DEF Deciding, Decided
  <1>7. Kept(ActionId(r), draft[r].kind, draft[r].verdict)'
    <2>1. Kept(ActionId(r), draft[r].kind, draft[r].verdict)
      BY <1>1, <1>5 DEF TriageInv
    <2>2. \A id, kind, verd : Kept(id, kind, verd) => Kept(id, kind, verd)'
      BY <1>1, <1>6, KeptStays
    <2> QED BY <1>6, <2>1, <2>2
  <1>8. TriageInv(r)'
    BY <1>1, <1>4, <1>5, <1>6, <1>7 DEF TriageInv, Deciding, ActionId
  <1> QED BY <1>1, <1>6, <1>8, OneRequestMoves

\* What run_triage answers when it did not fail.
LEMMA PendingAnswer ==
    ASSUME TriageTypes, NEW r \in Requests
    PROVE  /\ Pending(r) \in AnswerRecord /\ Pending(r).state = "PendingHumanReview"
           /\ Pending(r).investigation = "none" /\ Pending(r).verdict = draft[r].verdict
  <1> DEFINE v == draft[r].verdict
  <1>1. v \in Verdicts \cup {"none", "error"}
    BY DEF TriageTypes, Row
  <1> HIDE DEF v
  <1> DEFINE p == [NoAnswer EXCEPT !.verdict = v, !.state = "PendingHumanReview"]
  <1>2. /\ p \in AnswerRecord /\ p.state = "PendingHumanReview"
        /\ p.investigation = "none" /\ p.verdict = v
    BY <1>1 DEF NoAnswer, AnswerRecord
  <1>3. Pending(r) = p
    BY DEF Pending, v
  <1> QED BY <1>2, <1>3 DEF v

\* The loop of an investigation fails, which the answer reports.
LEMMA InvestigationFailsKeeps ==
    ASSUME PipelineInv, NEW r \in Triages, InvestigationFails(r)
    PROVE  PipelineInv'
  <1> DEFINE a == [[Pending(r) EXCEPT !.investigation = "error"] EXCEPT !.status = 200]
  <1>1. r \in Requests /\ r \notin Overrides /\ TriageTypes /\ TriageInv(r)
    BY TriageFacts
  <1>2. draft[r] \in Row /\ answer[r] \in AnswerRecord
    BY TriageFacts
  <1>3. /\ a \in AnswerRecord /\ a.status = 200 /\ a.verdict = draft[r].verdict
        /\ a.state = "PendingHumanReview" /\ a.investigation = "error"
    <2>1. /\ Pending(r) \in AnswerRecord /\ Pending(r).state = "PendingHumanReview"
          /\ Pending(r).verdict = draft[r].verdict
      BY <1>1, PendingAnswer
    <2> QED BY <2>1 DEF AnswerRecord
  <1>4. /\ MovesTo(r, "done", draft[r], a)
        /\ UNCHANGED <<log, failed>> /\ pc[r] = "investigate"
    BY <1>1, <1>2 DEF InvestigationFails, Answer, MovesTo, TriageTypes
  <1> HIDE DEF a
  <1>5. /\ Local(r) /\ pc'[r] = "done" /\ draft'[r] = draft[r] /\ answer'[r] = a
        /\ TriageTypes' /\ LogInv' /\ LogExtends
    BY <1>1, <1>2, <1>3, <1>4, QuietStep DEF Deciding, Decided
  <1>6. Kept(ActionId(r), draft[r].kind, draft[r].verdict)'
    <2>1. Kept(ActionId(r), draft[r].kind, draft[r].verdict)
      BY <1>1, <1>4 DEF TriageInv
    <2>2. \A id, kind, verd : Kept(id, kind, verd) => Kept(id, kind, verd)'
      BY <1>1, <1>5, KeptStays
    <2> QED BY <1>5, <2>1, <2>2
  <1>7. TriageInv(r)'
    BY <1>1, <1>3, <1>4, <1>5, <1>6 DEF TriageInv, Deciding, ActionId, ModelVerdicts
  <1> QED BY <1>1, <1>5, <1>7, OneRequestMoves

\* The client goes away at an await.
LEMMA DropKeeps ==
    ASSUME PipelineInv, NEW r \in Requests, Drop(r)
    PROVE  PipelineInv'
  <1>1. TriageTypes /\ draft[r] \in Row /\ answer[r] \in AnswerRecord
    BY DEF PipelineInv, TriageTypes
  <1>2. /\ MovesTo(r, "dropped", draft[r], answer[r])
        /\ UNCHANGED <<log, failed>> /\ pc[r] \notin {"start", "done", "dropped"}
    BY <1>1 DEF Drop, Goto, MovesTo, TriageTypes
  <1>3. /\ Local(r) /\ pc'[r] = "dropped" /\ draft'[r] = draft[r] /\ answer'[r] = answer[r]
        /\ TriageTypes' /\ LogInv' /\ LogExtends
    BY <1>1, <1>2, QuietStep DEF Deciding, Decided
  <1>4. ASSUME r \in Triages PROVE TriageInv(r)'
    <2>1. TriageInv(r)
      BY <1>4, TriageFacts
    <2> QED BY <2>1, <1>2, <1>3 DEF TriageInv, Deciding, ActionId
  <1>5. ASSUME r \in Overrides PROVE OverrideInv(r)'
    BY <1>2, <1>3, <1>5 DEF PipelineInv, OverrideInv
  <1> QED BY <1>3, <1>4, <1>5, OneRequestMoves

\* Action ids are never shared.
LEMMA IdsDiffer ==
    ASSUME NEW q \in Requests, NEW r \in Requests
    PROVE  /\ ActionId(q) = ActionId(r) => q = r
           /\ InvestigatorId(q) = InvestigatorId(r) => q = r
           /\ ActionId(q) # InvestigatorId(r)
  <1>1. q \in Nat /\ r \in Nat
    BY RequestType
  <1> QED BY <1>1 DEF ActionId, InvestigatorId

\* A row that request r may append now under its action id.
Ready(r, row) ==
    /\ row \in Row /\ row.id = ActionId(r) /\ row.key = 1
    /\ GatedRow(row) /\ ReviewedRow(row)
    /\ pc[r] \in {"append", "auto_close"}
    /\ row.kind # "AutoClose" => pc[r] = "append"

\* Appending it.
LEMMA AppendStep ==
    ASSUME PipelineInv, NEW r \in Requests, NEW label \in Decided, NEW a \in AnswerRecord,
           MovesTo(r, label, draft[r], a), NEW row, Ready(r, row), Appended(row)
    PROVE  /\ Local(r) /\ pc'[r] = label /\ draft'[r] = draft[r] /\ answer'[r] = a
           /\ TriageTypes' /\ LogInv' /\ LogExtends
           /\ Kept(row.id, row.kind, row.verdict)'
           /\ Stored(row) => Attested(row.id, {row.kind}, row.verdict)'
  <1>1. TriageTypes /\ LogInv /\ draft[r] \in Row /\ label \in Deciding \cup Decided
    BY DEF PipelineInv, TriageTypes
  <1> USE DEF Ready
  <1>2. /\ Local(r) /\ pc'[r] = label /\ draft'[r] = draft[r] /\ answer'[r] = a
        /\ log' \in Seq(Row) => TriageTypes'
    BY <1>1, MovesLocally
  <1>3. row.kind # "AutoClose" => \A j \in 1..Len(log) : log[j].id # row.id
    BY <1>1 DEF LogInv, Decided
  <1>4. ASSUME NEW q \in Requests
        PROVE  /\ row.id = ActionId(q) => pc'[q] \in Decided
               /\ row.id = InvestigatorId(q) => pc'[q] = "done"
    BY <1>2, IdsDiffer
  <1>5. /\ LogInv' /\ LogExtends /\ log' \in Seq(Row)
        /\ Kept(row.id, row.kind, row.verdict)'
        /\ Stored(row) => Attested(row.id, {row.kind}, row.verdict)'
    BY <1>2, <1>3, <1>4, AppendKeeps
  <1> QED BY <1>2, <1>5

\* The verdict's envelope is appended, or the append fails.
LEMMA AppendVerdictKeeps ==
    ASSUME PipelineInv, NEW r \in Triages, AppendVerdict(r)
    PROVE  PipelineInv'
  <1>1. r \in Requests /\ r \notin Overrides /\ TriageTypes /\ TriageInv(r)
    BY TriageFacts
  <1>2. draft[r] \in Row /\ answer[r] \in AnswerRecord
    BY TriageFacts
  <1>3. PICK row \in Row : row = draft[r] /\ Appended(row)
    BY <1>2, AppendOutcomes DEF AppendVerdict
  <1>4. /\ pc[r] = "append" /\ draft[r].id = ActionId(r) /\ draft[r].key = 1
        /\ GatedRow(draft[r]) /\ ReviewedRow(draft[r]) /\ draft[r].kind # "AutoClose"
    BY <1>1 DEF AppendVerdict, TriageInv, GatedRow, TriageKinds
  <1>5. ASSUME NEW label \in Decided, NEW a \in AnswerRecord, MovesTo(r, label, draft[r], a)
        PROVE  /\ Local(r) /\ pc'[r] = label /\ draft'[r] = draft[r] /\ answer'[r] = a
               /\ TriageTypes' /\ LogInv' /\ LogExtends
               /\ Kept(ActionId(r), draft[r].kind, draft[r].verdict)'
    <2>1. /\ Local(r) /\ pc'[r] = label /\ draft'[r] = draft[r] /\ answer'[r] = a
          /\ TriageTypes' /\ LogInv' /\ LogExtends
          /\ Kept(row.id, row.kind, row.verdict)'
      <3>1. r \in Requests /\ Ready(r, row) /\ Appended(row) /\ MovesTo(r, label, draft[r], a)
        BY <1>1, <1>3, <1>4, <1>5 DEF Ready
      <3> QED BY <3>1, AppendStep
    <2> QED BY <1>3, <1>4, <2>1
  <1>6. UNCHANGED <<alert, draft>>
    BY DEF AppendVerdict
  <1>7. CASE /\ AutoCloses(draft[r]) /\ Goto(r, "auto_close") /\ UNCHANGED answer
    <2>1. MovesTo(r, "auto_close", draft[r], answer[r])
      BY <1>1, <1>2, <1>6, <1>7 DEF Goto, MovesTo, TriageTypes
    <2>2. /\ Local(r) /\ pc'[r] = "auto_close" /\ draft'[r] = draft[r] /\ answer'[r] = answer[r]
          /\ TriageTypes' /\ LogInv' /\ LogExtends
          /\ Kept(ActionId(r), draft[r].kind, draft[r].verdict)'
      BY <1>2, <1>5, <2>1 DEF Decided
    <2>3. AutoCloses(draft[r])'
      BY <1>7, <2>2 DEF AutoCloses
    <2>4. TriageInv(r)'
      BY <1>1, <1>4, <2>2, <2>3 DEF TriageInv, Deciding, ActionId
    <2> QED BY <1>1, <2>2, <2>4, OneRequestMoves
  <1>8. CASE Goto(r, "investigate") /\ UNCHANGED answer
    <2>1. MovesTo(r, "investigate", draft[r], answer[r])
      BY <1>1, <1>2, <1>6, <1>8 DEF Goto, MovesTo, TriageTypes
    <2>2. /\ Local(r) /\ pc'[r] = "investigate" /\ draft'[r] = draft[r] /\ answer'[r] = answer[r]
          /\ TriageTypes' /\ LogInv' /\ LogExtends
          /\ Kept(ActionId(r), draft[r].kind, draft[r].verdict)'
      BY <1>2, <1>5, <2>1 DEF Decided
    <2>3. TriageInv(r)'
      BY <1>1, <1>4, <2>2 DEF TriageInv, Deciding, ActionId
    <2> QED BY <1>1, <2>2, <2>3, OneRequestMoves
  <1>9. CASE Answer(r, 200, Pending(r))
    <2> DEFINE a == [Pending(r) EXCEPT !.status = 200]
    <2>1. /\ a \in AnswerRecord /\ a.verdict = draft[r].verdict
          /\ a.state = "PendingHumanReview" /\ a.investigation = "none"
      <3>1. /\ Pending(r) \in AnswerRecord /\ Pending(r).state = "PendingHumanReview"
            /\ Pending(r).investigation = "none" /\ Pending(r).verdict = draft[r].verdict
        BY <1>1, PendingAnswer
      <3> QED BY <3>1 DEF AnswerRecord
    <2>2. MovesTo(r, "done", draft[r], a)
      BY <1>1, <1>2, <1>6, <1>9 DEF Answer, MovesTo, TriageTypes
    <2> HIDE DEF a
    <2>3. /\ Local(r) /\ pc'[r] = "done" /\ draft'[r] = draft[r] /\ answer'[r] = a
          /\ TriageTypes' /\ LogInv' /\ LogExtends
          /\ Kept(ActionId(r), draft[r].kind, draft[r].verdict)'
      BY <1>5, <2>1, <2>2 DEF Decided
    <2>4. TriageInv(r)'
      BY <1>1, <1>4, <2>1, <2>3 DEF TriageInv, Deciding, ActionId, ModelVerdicts
    <2> QED BY <1>1, <2>3, <2>4, OneRequestMoves
  <1>10. AfterVerdict(r)
    BY DEF AppendVerdict
  <1> QED BY <1>7, <1>8, <1>9, <1>10 DEF AfterVerdict

\* The auto-close envelope is appended, or the append fails.
LEMMA AppendAutoCloseKeeps ==
    ASSUME PipelineInv, NEW r \in Triages, AppendAutoClose(r)
    PROVE  PipelineInv'
  <1>1. r \in Requests /\ r \notin Overrides /\ TriageTypes /\ TriageInv(r)
    BY TriageFacts
  <1>2. draft[r] \in Row /\ answer[r] \in AnswerRecord
    BY TriageFacts
  <1>3. /\ pc[r] = "auto_close" /\ draft[r].id = ActionId(r) /\ draft[r].key = 1
        /\ AutoCloses(draft[r]) /\ Kept(ActionId(r), draft[r].kind, draft[r].verdict)
        /\ UNCHANGED <<alert, draft>>
    BY <1>1 DEF AppendAutoClose, TriageInv
  <1>4. /\ AutoCloseRow(r) \in Row /\ AutoCloseRow(r).id = draft[r].id
        /\ AutoCloseRow(r).key = draft[r].key /\ AutoCloseRow(r).kind = "AutoClose"
        /\ AutoCloseRow(r).verdict = draft[r].verdict /\ AutoCloseRow(r).conf = draft[r].conf
        /\ AutoCloseRow(r).class = draft[r].class
        /\ AutoCloseRow(r).principal = draft[r].principal
    BY <1>2 DEF AutoCloseRow, Row
  <1>5. PICK row \in Row : row = AutoCloseRow(r) /\ Appended(row)
    BY <1>4, AppendOutcomes DEF AppendAutoClose
  <1>6. Ready(r, row)
    <2>1. GatedRow(row)
      BY <1>3, <1>4, <1>5, GatesHold DEF GatedRow
    <2> QED BY <1>3, <1>4, <1>5, <2>1 DEF Ready, ReviewedRow
  <1> DEFINE a == [[Pending(r) EXCEPT !.state = "AutoClosed"] EXCEPT !.status = 200]
  <1>7. /\ a \in AnswerRecord /\ a.verdict = draft[r].verdict
        /\ a.investigation = "none"
    <2>1. /\ Pending(r) \in AnswerRecord /\ Pending(r).verdict = draft[r].verdict
          /\ Pending(r).investigation = "none"
      BY <1>1, PendingAnswer
    <2> QED BY <2>1 DEF AnswerRecord
  <1>8. MovesTo(r, "done", draft[r], a)
    BY <1>1, <1>2, <1>3 DEF AppendAutoClose, Answer, MovesTo, TriageTypes
  <1> HIDE DEF a
  <1>9. /\ Local(r) /\ pc'[r] = "done" /\ draft'[r] = draft[r] /\ answer'[r] = a
        /\ TriageTypes' /\ LogInv' /\ LogExtends
        /\ Kept(row.id, row.kind, row.verdict)'
    <2>1. r \in Requests /\ "done" \in Decided
      BY <1>1 DEF Decided
    <2> QED BY <2>1, <1>5, <1>6, <1>7, <1>8, AppendStep
  <1>10. /\ Kept(ActionId(r), draft[r].kind, draft[r].verdict)'
         /\ Kept(ActionId(r), "AutoClose", draft[r].verdict)'
    <2>1. \A id, kind, verd : Kept(id, kind, verd) => Kept(id, kind, verd)'
      BY <1>1, <1>9, KeptStays
    <2> QED BY <1>3, <1>4, <1>5, <1>9, <2>1
  <1>11. TriageInv(r)'
    BY <1>1, <1>3, <1>7, <1>9, <1>10 DEF TriageInv, Deciding, ActionId, ModelVerdicts
  <1> QED BY <1>1, <1>9, <1>11, OneRequestMoves

\* The envelope of an investigation is appended, or the append fails.
LEMMA AppendInvestigationKeeps ==
    ASSUME PipelineInv, NEW r \in Triages, AppendInvestigation(r)
    PROVE  PipelineInv'
  <1>1. r \in Requests /\ r \notin Overrides /\ TriageTypes /\ TriageInv(r)
    BY TriageFacts
  <1>2. draft[r] \in Row /\ answer[r] \in AnswerRecord
    BY TriageFacts
  <1>3. /\ pc[r] = "append_investigation" /\ draft[r].key = 1
        /\ Kept(ActionId(r), draft[r].kind, draft[r].verdict)
        /\ UNCHANGED <<alert, draft>>
    BY <1>1 DEF AppendInvestigation, TriageInv
  <1> DEFINE found == answer[r].investigation
  <1>4. found \in ModelVerdicts \cup {"none", "error"}
    BY <1>2 DEF AnswerRecord
  <1>5. /\ InvestigationRow(r) \in Row /\ InvestigationRow(r).id = InvestigatorId(r)
        /\ InvestigationRow(r).key = 1 /\ InvestigationRow(r).kind = "Llm"
        /\ InvestigationRow(r).verdict = found
    <2>1. /\ InvestigatorId(r) \in Nat /\ CaseOf[r] \in Nat /\ alert[r].tenant \in Tenants
          /\ found \in Verdicts \cup {"none", "error"} /\ NoDraft \in Row /\ NoDraft.key = 1
      BY <1>1, <1>4, RequestType, AlertType, NoDraftType DEF Verdicts, NoDraft
    <2>2. InvestigationRow(r) = [NoDraft EXCEPT !.id = InvestigatorId(r), !.case = CaseOf[r],
                                   !.tenant = alert[r].tenant, !.kind = "Llm", !.verdict = found]
      BY DEF InvestigationRow
    <2> HIDE DEF found
    <2> QED BY <2>1, <2>2 DEF Row
  <1>6. PICK row \in Row : row = InvestigationRow(r) /\ Appended(row)
    BY <1>5, AppendOutcomes DEF AppendInvestigation
  <1> DEFINE a == [[Pending(r) EXCEPT !.investigation = found] EXCEPT !.status = 200]
  <1>7. /\ a \in AnswerRecord /\ a.verdict = draft[r].verdict
        /\ a.state = "PendingHumanReview" /\ a.investigation = found
    <2>1. /\ Pending(r) \in AnswerRecord /\ Pending(r).verdict = draft[r].verdict
          /\ Pending(r).state = "PendingHumanReview"
      BY <1>1, PendingAnswer
    <2> HIDE DEF found
    <2> QED BY <1>4, <2>1 DEF AnswerRecord
  <1>8. MovesTo(r, "done", draft[r], a)
    BY <1>1, <1>2, <1>3 DEF AppendInvestigation, Answer, MovesTo, TriageTypes
  <1> HIDE DEF a, found
  <1>9. /\ Local(r) /\ pc'[r] = "done" /\ draft'[r] = draft[r] /\ answer'[r] = a
        /\ log' \in Seq(Row) => TriageTypes'
    BY <1>1, <1>2, <1>7, <1>8, MovesLocally DEF Decided
  <1>10. /\ LogInv' /\ LogExtends /\ log' \in Seq(Row)
         /\ Kept(row.id, row.kind, row.verdict)'
    <2>1. \A j \in 1..Len(log) : log[j].id # row.id
      BY <1>1, <1>3, <1>5, <1>6 DEF PipelineInv, LogInv
    <2>2. ASSUME NEW q \in Requests
          PROVE  /\ row.id = ActionId(q) => pc'[q] \in Decided
                 /\ row.id = InvestigatorId(q) => pc'[q] = "done"
      BY <1>1, <1>5, <1>6, <1>9, IdsDiffer
    <2>3. GatedRow(row) /\ ReviewedRow(row) /\ row.key = 1
      BY <1>5, <1>6 DEF GatedRow, ReviewedRow
    <2>4. r \in Requests /\ Local(r) /\ pc'[r] \in Decided /\ pc[r] # "done"
      BY <1>1, <1>3, <1>9 DEF Decided
    <2> QED BY <1>6, <2>1, <2>2, <2>3, <2>4, AppendKeeps
  <1>11. /\ Kept(ActionId(r), draft[r].kind, draft[r].verdict)'
         /\ \A v : v = found => Kept(InvestigatorId(r), "Llm", v)'
    <2>1. \A id, kind, verd : Kept(id, kind, verd) => Kept(id, kind, verd)'
      BY <1>1, <1>9, <1>10, KeptStays
    <2> QED BY <1>3, <1>5, <1>6, <1>9, <1>10, <2>1
  <1>12. TriageInv(r)'
    BY <1>1, <1>3, <1>7, <1>9, <1>11 DEF TriageInv, Deciding, ActionId
  <1> QED BY <1>1, <1>9, <1>10, <1>12, OneRequestMoves

-----------------------------------------------------------------------------
\* Overrides.

\* A non-empty set of positions has a last one.
LEMMA LastPosition ==
    ASSUME NEW n \in Nat, NEW T, T \subseteq 1..n, T # {}
    PROVE  \E x \in T : \A y \in T : y <= x
  <1> DEFINE D == { n - x : x \in T }
  <1>1. D \subseteq Nat /\ D # {}
    <2>1. \A x \in T : x \in 1..n
      OBVIOUS
    <2>2. \A x \in T : n - x \in Nat
      BY <2>1
    <2> QED BY <2>2
  <1>2. PICK d \in D : \A e \in D : d <= e
    <2> HIDE DEF D
    <2> QED BY <1>1, LeastNat
  <1>3. PICK x \in T : d = n - x
    OBVIOUS
  <1>4. ASSUME NEW y \in T PROVE y <= x
    <2>1. n - x <= n - y
      BY <1>2, <1>3
    <2>2. x \in 1..n /\ y \in 1..n
      OBVIOUS
    <2> QED BY <2>1, <2>2
  <1> QED BY <1>4

\* append_human_override reads the log, or fails to.
LEMMA ReadForOverrideKeeps ==
    ASSUME PipelineInv, NEW o \in Overrides, ReadForOverride(o) \/ ReadForOverrideFails(o)
    PROVE  PipelineInv'
  <1>1. o \in Requests /\ o \notin Triages /\ TriageTypes /\ OverrideInv(o)
    BY TriageConstants DEF Requests, PipelineInv
  <1>2. /\ draft[o] \in Row /\ answer[o] \in AnswerRecord /\ log \in Seq(Row)
        /\ pc[o] = "start" /\ UNCHANGED <<log, failed>> /\ alert' = alert
    BY <1>1 DEF TriageTypes, ReadForOverride, ReadForOverrideFails
  <1>3. ASSUME NEW status \in {404, 500}, Answer(o, status, NoAnswer), draft' = draft
        PROVE  PipelineInv'
    <2> DEFINE a == [NoAnswer EXCEPT !.status = status]
    <2>1. a \in AnswerRecord /\ a.status # 200
      BY DEF NoAnswer, AnswerRecord
    <2>2. MovesTo(o, "done", draft[o], a)
      BY <1>1, <1>2, <1>3 DEF Answer, MovesTo, TriageTypes
    <2> HIDE DEF a
    <2>3. /\ Local(o) /\ pc'[o] = "done" /\ draft'[o] = draft[o] /\ answer'[o] = a
          /\ TriageTypes' /\ LogInv' /\ LogExtends
      BY <1>1, <1>2, <2>1, <2>2, QuietStep DEF Deciding, Decided
    <2>4. OverrideInv(o)'
      BY <1>1, <2>1, <2>3 DEF OverrideInv
    <2> QED BY <1>1, <2>3, <2>4, OneRequestMoves
  <1>4. ASSUME RowsOf(CaseOf[o]) # {}, NEW verdict \in Labels, UNCHANGED answer, Goto(o, "append"),
               draft' = [draft EXCEPT ![o] =
                 [@ EXCEPT !.id = ActionId(o), !.case = CaseOf[o], !.kind = "Override",
                           !.tenant = LatestRow(CaseOf[o]).tenant, !.verdict = verdict,
                           !.original = LatestRow(CaseOf[o]).id]]
        PROVE  PipelineInv'
    <2>1. LatestRow(CaseOf[o]) \in Row
      <3> DEFINE T == RowsOf(CaseOf[o])
      <3>1. T \subseteq 1..Len(log) /\ T # {} /\ Len(log) \in Nat
        BY <1>2, <1>4 DEF RowsOf
      <3> HIDE DEF T
      <3>2. \E x \in T : \A y \in T : y <= x
        BY <3>1, LastPosition
      <3>3. (CHOOSE x \in T : \A y \in T : y <= x) \in T
        BY <3>2
      <3>4. LatestRow(CaseOf[o]) = log[CHOOSE x \in T : \A y \in T : y <= x]
        BY DEF LatestRow, T
      <3> QED BY <1>2, <3>1, <3>3, <3>4
    <2> DEFINE tenant == LatestRow(CaseOf[o]).tenant
               original == LatestRow(CaseOf[o]).id
    <2>2. /\ tenant \in Tenants /\ original \in Nat /\ verdict \in Verdicts
          /\ ActionId(o) \in Nat /\ CaseOf[o] \in Nat
      BY <1>1, <2>1, RequestType, TriageConstants DEF Row
    <2> HIDE DEF tenant, original
    <2> DEFINE d == [draft[o] EXCEPT !.id = ActionId(o), !.case = CaseOf[o], !.kind = "Override",
                       !.tenant = tenant, !.verdict = verdict, !.original = original]
    <2>3. d \in Row
      BY <1>2, <2>2 DEF Row
    <2>4. d.id = ActionId(o) /\ d.key = draft[o].key /\ d.kind = "Override"
      BY <1>2 DEF Row
    <2>5. MovesTo(o, "append", d, answer[o])
      BY <1>1, <1>2, <1>4 DEF Goto, MovesTo, TriageTypes, tenant, original
    <2> HIDE DEF d
    <2>6. /\ Local(o) /\ pc'[o] = "append" /\ draft'[o] = d /\ answer'[o] = answer[o]
          /\ TriageTypes' /\ LogInv' /\ LogExtends
      BY <1>1, <1>2, <2>3, <2>5, QuietStep DEF Deciding, Decided
    <2>7. OverrideInv(o)'
      BY <1>1, <1>2, <2>4, <2>6 DEF OverrideInv, ActionId
    <2> QED BY <1>1, <2>6, <2>7, OneRequestMoves
  <1>5. CASE ReadForOverrideFails(o)
    BY <1>3, <1>5 DEF ReadForOverrideFails
  <1>6. CASE ReadForOverride(o)
    <2>1. CASE RowsOf(CaseOf[o]) = {}
      BY <1>3, <1>6, <2>1 DEF ReadForOverride
    <2>2. CASE RowsOf(CaseOf[o]) # {}
      BY <1>4, <1>6, <2>2 DEF ReadForOverride
    <2> QED BY <2>1, <2>2
  <1> QED BY <1>5, <1>6

\* The analyst's override is appended, or the append fails.
LEMMA AppendOverrideKeeps ==
    ASSUME PipelineInv, NEW o \in Overrides, AppendOverride(o)
    PROVE  PipelineInv'
  <1>1. o \in Requests /\ o \notin Triages /\ TriageTypes /\ OverrideInv(o)
    BY TriageConstants DEF Requests, PipelineInv
  <1>2. draft[o] \in Row /\ answer[o] \in AnswerRecord
    BY <1>1 DEF TriageTypes
  <1>3. /\ pc[o] = "append" /\ draft[o].id = ActionId(o) /\ draft[o].key = 1
        /\ draft[o].kind = "Override" /\ UNCHANGED <<alert, draft>>
    BY <1>1 DEF AppendOverride, OverrideInv
  <1> DEFINE fields == [NoAnswer EXCEPT !.verdict = draft[o].verdict]
  <1>4. PICK row \in Row, status \in {200, 500} :
          /\ row = draft[o] /\ Appended(row) /\ (status = 200 => Stored(row))
          /\ Answer(o, status, fields)
    <2>1. PICK ok \in BOOLEAN :
            /\ sign_and_append(draft[o], ok)
            /\ Answer(o, IF ok THEN 200 ELSE 500, fields)
      BY DEF AppendOverride
    <2>2. Appended(draft[o]) /\ (ok => Stored(draft[o]))
      BY <2>1, AppendOutcomes
    <2>3. CASE ok
      BY <1>2, <2>1, <2>2, <2>3
    <2>4. CASE ~ok
      BY <1>2, <2>1, <2>2, <2>4
    <2> QED BY <2>3, <2>4
  <1> DEFINE v == draft[o].verdict
             a == [fields EXCEPT !.status = status]
  <1>5. a \in AnswerRecord /\ a.status = status /\ a.verdict = v
    <2>1. v \in Verdicts \cup {"none", "error"} /\ fields = [NoAnswer EXCEPT !.verdict = v]
      BY <1>2 DEF Row
    <2> HIDE DEF v
    <2>2. fields \in AnswerRecord /\ fields.verdict = v
      BY <2>1, NoDraftType DEF AnswerRecord
    <2> HIDE DEF fields
    <2> QED BY <2>2 DEF AnswerRecord
  <1>6. MovesTo(o, "done", draft[o], a)
    BY <1>1, <1>2, <1>3, <1>4 DEF Answer, MovesTo, TriageTypes
  <1> HIDE DEF a
  <1>7. /\ Local(o) /\ pc'[o] = "done" /\ draft'[o] = draft[o] /\ answer'[o] = a
        /\ TriageTypes' /\ LogInv' /\ LogExtends
        /\ Stored(row) => Attested(row.id, {row.kind}, row.verdict)'
    <2>1. /\ o \in Requests /\ "done" \in Decided /\ Ready(o, row) /\ Appended(row)
          /\ MovesTo(o, "done", draft[o], a) /\ a \in AnswerRecord
      BY <1>1, <1>3, <1>4, <1>5, <1>6 DEF Decided, Ready, GatedRow, ReviewedRow
    <2> QED BY <2>1, AppendStep
  <1>8. answer'[o].status = 200 => Attested(ActionId(o), {"Override"}, answer[o].verdict)'
    BY <1>3, <1>4, <1>5, <1>7
  <1>9. OverrideInv(o)'
    BY <1>1, <1>3, <1>7, <1>8 DEF OverrideInv, ActionId
  <1> QED BY <1>1, <1>7, <1>9, OneRequestMoves

-----------------------------------------------------------------------------
\* The theorems.

\* No request has come yet.
LEMMA InitPipeline == Init => PipelineInv
  <1> SUFFICES ASSUME Init PROVE PipelineInv
    OBVIOUS
  <1>1. TriageTypes
    <2>1. draft \in [Requests -> Row] /\ answer \in [Requests -> AnswerRecord]
      BY NoDraftType DEF Init
    <2>2. pc \in [Requests -> Deciding \cup Decided] /\ log \in Seq(Row)
      BY DEF Init, Deciding
    <2>3. \A r \in Triages : alert[r] \in Alerts[r]
      BY DEF Init
    <2> QED BY <2>1, <2>2, <2>3 DEF TriageTypes
  <1>2. LogInv
    BY DEF Init, LogInv
  <1>3. NoDraft.key = 1 /\ NoDraft.kind = "none" /\ NoDraft.review = "none"
    BY DEF NoDraft
  <1>4. NoAnswer.status = 0 /\ NoAnswer.verdict = "none"
    BY DEF NoAnswer
  <1>5. \A q \in Requests : pc[q] = "start" /\ draft[q] = NoDraft /\ answer[q] = NoAnswer
    BY DEF Init
  <1>6. ASSUME NEW r \in Triages PROVE TriageInv(r)
    BY <1>3, <1>4, <1>5 DEF TriageInv, Requests, TriageKinds
  <1>7. ASSUME NEW o \in Overrides PROVE OverrideInv(o)
    BY <1>3, <1>4, <1>5 DEF OverrideInv, Requests
  <1> QED BY <1>1, <1>2, <1>6, <1>7 DEF PipelineInv

\* Every step of the pipeline keeps its invariant.
LEMMA PipelineStep == PipelineInv /\ [Next]_vars => PipelineInv'
  <1> SUFFICES ASSUME PipelineInv, [Next]_vars PROVE PipelineInv'
    OBVIOUS
  <1>1. CASE UNCHANGED vars
    <2>1. TriageTypes' /\ LogInv'
      BY <1>1 DEF vars, PipelineInv, TriageTypes, LogInv, GatedRow, ReviewedRow, ActionId,
                  InvestigatorId
    <2>2. LogExtends /\ TriageTypes
      BY <1>1 DEF vars, LogExtends, PipelineInv, TriageTypes
    <2>3. ASSUME NEW q \in Requests
          PROVE  pc'[q] = pc[q] /\ draft'[q] = draft[q] /\ answer'[q] = answer[q]
      BY <1>1 DEF vars
    <2> QED BY <2>1, <2>2, <2>3, OthersKeep DEF PipelineInv, Requests
  <1>2. ASSUME NEW r \in Triages, TriageStep(r) PROVE PipelineInv'
    BY <1>2, ClassifyKeeps, ClassifierFailsKeeps, CalibrateKeeps, EscalateKeeps,
       EscalationFailsKeeps, ReviewKeeps, AppendVerdictKeeps, AppendAutoCloseKeeps,
       InvestigateKeeps, InvestigationFailsKeeps, AppendInvestigationKeeps DEF TriageStep
  <1>3. ASSUME NEW o \in Overrides, OverrideStep(o) PROVE PipelineInv'
    BY <1>3, ReadForOverrideKeeps, AppendOverrideKeeps DEF OverrideStep
  <1>4. ASSUME NEW r \in Requests, Drop(r) PROVE PipelineInv'
    BY <1>4, DropKeeps
  <1> QED BY <1>1, <1>2, <1>3, <1>4 DEF Next, Requests

\* The pipeline invariant holds of every run.
THEOREM PipelineInvariant == Spec => []PipelineInv
  BY InitPipeline, PipelineStep, PTL DEF Spec

\* Whatever the requests do and whichever appends fail, a case is closed automatically only
\* past the verdict, the threshold and the shadow check (try_auto_close).
THEOREM AutoCloseIsGated == Spec => []AutoCloseGated
  <1>1. PipelineInv => AutoCloseGated
    BY DEF PipelineInv, LogInv, GatedRow, AutoCloseGated
  <1> QED BY <1>1, PipelineInvariant, PTL

\* No high-confidence TruePositive of an escalated triage passes without its review
\* (try_llm_escalation).
THEOREM HighImpactIsReviewed == Spec => []HighImpactReviewed
  <1>1. ASSUME PipelineInv PROVE HighImpactReviewed
    <2>1. ASSUME Enforcement, NEW i \in 1..Len(log), log[i].kind = "Hybrid",
                 log[i].verdict = "TruePositive", log[i].conf >= CrossReviewThreshold
          PROVE  log[i].review = "agrees"
      BY <1>1, <2>1 DEF PipelineInv, LogInv, ReviewedRow
    <2>2. ASSUME NEW r \in Triages, answer[r].verdict = "TruePositive"
          PROVE  draft[r].review # "disagrees"
      BY <1>1, <2>2 DEF PipelineInv, TriageInv
    <2> QED BY <2>1, <2>2 DEF HighImpactReviewed
  <1> QED BY <1>1, PipelineInvariant, PTL

\* No decision of run_triage takes effect past its gates: the two theorems above.
THEOREM DecisionsPassTheirGates == Spec => []DecisionsAreGated
  BY AutoCloseIsGated, HighImpactIsReviewed, PTL DEF DecisionsAreGated

\* Every decision a client was given is in the log, or the append of it returned an error
\* (run_triage, append_human_override).
THEOREM AnswersAreAttested == Spec => []AnsweredIsAttested
  <1>1. ASSUME PipelineInv PROVE AnsweredIsAttested
    <2>1. ASSUME NEW r \in Triages, answer[r].status = 200
          PROVE  /\ \/ Attested(ActionId(r), {draft[r].kind}, answer[r].verdict)
                    \/ <<ActionId(r), draft[r].kind>> \in failed
                 /\ answer[r].state = "AutoClosed" =>
                       \/ Attested(ActionId(r), {"AutoClose"}, answer[r].verdict)
                       \/ <<ActionId(r), "AutoClose">> \in failed
                 /\ answer[r].investigation \in ModelVerdicts =>
                       \/ Attested(InvestigatorId(r), {"Llm"}, answer[r].investigation)
                       \/ <<InvestigatorId(r), "Llm">> \in failed
      <3>1. TriageInv(r)
        BY <1>1 DEF PipelineInv
      <3> QED BY <2>1, <3>1 DEF TriageInv, Kept
    <2>2. ASSUME NEW o \in Overrides, answer[o].status = 200
          PROVE  Attested(ActionId(o), {"Override"}, answer[o].verdict)
      BY <1>1, <2>2 DEF PipelineInv, OverrideInv
    <2> QED BY <2>1, <2>2 DEF AnsweredIsAttested
  <1> QED BY <1>1, PipelineInvariant, PTL

\* verify_log accepts every row the pipeline wrote but an auto-close row and the one after it.
THEOREM OnlyAutoCloseRowsFail == Spec => []OnlyAutoCloseBreaksVerify
  <1>1. ASSUME PipelineInv, NEW i \in 1..Len(log), log[i].kind # "AutoClose",
               i > 1 => log[i - 1].kind # "AutoClose"
        PROVE  RowOk(log, 1, i)
    <2>1. log \in Seq(Row) /\ Len(log) \in Nat /\ LogInv
      BY <1>1 DEF PipelineInv, TriageTypes
    <2>2. ASSUME NEW j \in 1..Len(log), log[j].kind # "AutoClose" PROVE ~IsDuplicate(log, j)
      BY <2>1, <2>2 DEF LogInv, IsDuplicate
    <2> DEFINE kept == { j \in 1..(i - 1) : ~IsDuplicate(log, j) }
    <2>3. ExpectedPrev(log, i) = i - 1
      <3>1. CASE i = 1
        <4>1. kept = {}
          BY <3>1
        <4> QED BY <3>1, <4>1 DEF ExpectedPrev, GENESIS
      <3>2. CASE i # 1
        <4>1. i - 1 \in 1..Len(log) /\ i - 1 \in 1..(i - 1) /\ i > 1
          BY <2>1, <3>2
        <4>2. i - 1 \in kept
          BY <1>1, <2>2, <4>1
        <4>3. \A k \in kept : k \in 1..(i - 1)
          OBVIOUS
        <4> HIDE DEF kept
        <4>4. (CHOOSE j \in kept : \A k \in kept : k <= j) = i - 1
          <5> DEFINE m == CHOOSE j \in kept : \A k \in kept : k <= j
          <5>1. \E j \in kept : \A k \in kept : k <= j
            BY <4>1, <4>2, <4>3
          <5>2. m \in kept /\ \A k \in kept : k <= m
            BY <5>1
          <5> HIDE DEF m
          <5>3. m = i - 1
            BY <4>1, <4>2, <4>3, <5>2
          <5> QED BY <5>3 DEF m
        <4>5. ExpectedPrev(log, i) = chain_hash(log[i - 1])
          BY <4>2, <4>4 DEF ExpectedPrev, kept
        <4> QED BY <2>1, <4>1, <4>5 DEF LogInv, chain_hash
      <3> QED BY <3>1, <3>2
    <2> QED BY <1>1, <2>1, <2>2, <2>3 DEF RowOk, LogInv
  <1>2. PipelineInv => OnlyAutoCloseBreaksVerify
    BY <1>1 DEF OnlyAutoCloseBreaksVerify
  <1> QED BY <1>2, PipelineInvariant, PTL
=============================================================================
