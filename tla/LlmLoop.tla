------------------------------- MODULE LlmLoop -------------------------------
(***************************************************************************)
(* One session of the multi-turn agent loops of                            *)
(* crates/attest-orchestrator/src/llm_loop.rs with the guardrails of       *)
(* guardrails.rs: run_llm_loop (Triager), run_investigator_llm_loop and    *)
(* run_specialist_llm_loop (Hunter, Responder).                            *)
(*                                                                         *)
(* The language model is external: on every turn it fails, asks for tools, *)
(* answers something unparsable or answers a verdict.  A tool call's record*)
(* is what McpClient::invoke makes of the gateway's response.  A verdict   *)
(* keeps its label, its declared citations and, for every factual claim of *)
(* its reasoning, the tag cited next to it.                                *)
(***************************************************************************)
EXTENDS Naturals, Sequences, FiniteSets

CONSTANTS
    Modes,              \* which of the three loops a session may run
    Enforcement,        \* ATTEST_GUARDRAILS is not off
    RequireRetrieval,   \* SpecialistSpec::require_retrieval
    MaxIterations,      \* chat rounds
    RetriesCap,         \* GUARDRAIL_MAX_RETRIES
    MaxRound,           \* tool calls the model asks for at once
    MaxDeclared, MaxClaims,  \* citations declared and claims made in one verdict
    Labels,             \* verdicts of the model
    Fabricated          \* citation ids that name no tool call of the session

ASSUME LoopConstants ==
    /\ Modes \subseteq {"triager", "investigator", "specialist"}
    /\ {Enforcement, RequireRetrieval} \subseteq BOOLEAN
    /\ MaxIterations \in 0..255 /\ RetriesCap \in 0..255      \* u8
    /\ MaxRound \in Nat \ {0} /\ MaxDeclared \in Nat /\ MaxClaims \in Nat
    /\ "NeedsInvestigation" \in Labels
    /\ Fabricated \subseteq Nat \ 0..(MaxIterations * MaxRound)

VARIABLES
    mode,        \* the loop this session runs
    loopPc,          \* "chat", "tools", "done"
    iteration,
    pending,     \* tool calls of the round still to be made
    records,     \* tool_call_records: [policy, ok]; its index is the call's id
    retries,     \* validation_retries
    reprompts,   \* re-prompts sent so far by each guardrail
    nudged,      \* the model was told to stop calling tools
    result       \* what the loop returned

loopVars == <<mode, loopPc, iteration, pending, records, retries, reprompts, nudged, result>>

\* A claim that carries no tag.
Untagged == 0

NoVerdict == [label |-> "none", declared |-> {}, claims |-> {}]

NoResult == [outcome |-> "running", verdict |-> NoVerdict, forced |-> FALSE, retries |-> 0]

\* With MaxIterations = 0 the body of the for loop never runs.
LoopInit ==
    /\ mode \in Modes
    /\ loopPc = IF MaxIterations = 0 THEN "done" ELSE "chat"
    /\ iteration = 0 /\ pending = 0 /\ records = <<>>
    /\ retries = 0 /\ reprompts = [retrieval |-> 0, citation |-> 0]
    /\ nudged = FALSE
    /\ result = [NoResult EXCEPT !.outcome = IF MaxIterations = 0 THEN "max_iterations" ELSE @]

-----------------------------------------------------------------------------
\* What McpClient::invoke and the loop's error arm record for a call: a result, an
\* error of an allowed call (404, 500), a denial, or an unreachable gateway.
ToolRecord ==
    { [policy |-> "allow", ok |-> TRUE], [policy |-> "allow", ok |-> FALSE],
      [policy |-> "deny", ok |-> FALSE], [policy |-> "error", ok |-> FALSE] }

successful_call_ids == { i \in DOMAIN records : records[i].policy = "allow" }

has_retrieved_evidence == \E i \in DOMAIN records : records[i].policy = "allow"

\* The tags of a verdict, declared or inline.
Cited(v) == v.declared \cup (v.claims \ {Untagged})

\* validate_citations.
Orphans(v) == Cited(v) \ successful_call_ids

MissingCitations(v) == IF Cited(v) = {} THEN v.claims \cap {Untagged} ELSE {}

citations_passed(v) == Orphans(v) = {} /\ MissingCitations(v) = {}

-----------------------------------------------------------------------------
RetrievalFails == Enforcement /\ ~has_retrieved_evidence

CitationsFail(v) == Enforcement /\ ~citations_passed(v)

Finish(outcome, v, forced) ==
    /\ loopPc' = "done"
    /\ result' = [outcome |-> outcome, verdict |-> v, forced |-> forced, retries |-> retries]

\* The end of a round of the for loop.
NextIteration ==
    /\ iteration' = iteration + 1
    /\ IF iteration + 1 < MaxIterations
       THEN loopPc' = "chat" /\ UNCHANGED result
       ELSE Finish("max_iterations", NoVerdict, FALSE)

Chatting == loopPc = "chat"

ChatFails ==
    /\ Chatting
    /\ Finish("provider_error", NoVerdict, FALSE)
    /\ UNCHANGED <<mode, iteration, pending, records, retries, reprompts, nudged>>

\* The model asks for tools, natively or as JSON in its text.
AskTools ==
    /\ Chatting
    /\ pending' \in 1..MaxRound
    /\ loopPc' = "tools"
    /\ UNCHANGED <<mode, iteration, records, retries, reprompts, nudged, result>>

\* The nudge is not sent by the specialists' loop.
Nudge(recs) ==
    /\ mode # "specialist"
    /\ MaxIterations - iteration <= 3
    /\ \E i \in DOMAIN recs : recs[i].policy = "allow"

InvokeTool ==
    /\ loopPc = "tools"
    /\ pending' = pending - 1
    /\ \E rec \in ToolRecord : records' = Append(records, rec)
    /\ IF pending = 1
       THEN NextIteration /\ nudged' = (nudged \/ Nudge(records'))
       ELSE UNCHANGED <<loopPc, iteration, result, nudged>>
    /\ UNCHANGED <<mode, retries, reprompts>>

UnparsableVerdict ==
    /\ Chatting
    /\ Finish("invalid_verdict", NoVerdict, FALSE)
    /\ UNCHANGED <<mode, iteration, pending, records, retries, reprompts, nudged>>

\* A failed check at the cap forces NeedsInvestigation.
GiveUp == retries >= RetriesCap

ForceReview(v) == Finish("verdict", [v EXCEPT !.label = "NeedsInvestigation"], TRUE)

\* Mutant of Reprompt: the model is asked again within the round.
Reprompt_in_round(check) ==
    /\ retries' = retries + 1
    /\ reprompts' = [reprompts EXCEPT ![check] = @ + 1]
    /\ UNCHANGED <<iteration, loopPc, result>>

Reprompt(check) ==
    /\ retries' = retries + 1
    /\ reprompts' = [reprompts EXCEPT ![check] = @ + 1]
    /\ NextIteration

\* Guardrail 1: a verdict without retrieved evidence.
RejectRetrieval(v) ==
    /\ RetrievalFails
    /\ IF GiveUp
       THEN ForceReview([v EXCEPT !.declared = {}, !.claims = {}])
            /\ UNCHANGED <<iteration, retries, reprompts>>
       ELSE Reprompt("retrieval")

\* Guardrail 2: a verdict whose citations do not hold.
RejectCitations(v) ==
    /\ ~RetrievalFails /\ CitationsFail(v)
    /\ IF GiveUp
       THEN ForceReview(v) /\ UNCHANGED <<iteration, retries, reprompts>>
       ELSE Reprompt("citation")

Accept(v) ==
    /\ ~RetrievalFails /\ ~CitationsFail(v)
    /\ Finish("verdict", v, FALSE)
    /\ UNCHANGED <<iteration, retries, reprompts>>

\* Verdicts the model may answer: it cites calls it made and ids it made up.
ModelVerdict ==
    LET ids == DOMAIN records \cup Fabricated
        UpTo(n, S) == { T \in SUBSET S : Cardinality(T) <= n }
    IN  [label : Labels, declared : UpTo(MaxDeclared, ids),
         claims : UpTo(MaxClaims, ids \cup {Untagged})]

FinalVerdict ==
    /\ Chatting /\ mode # "specialist"
    /\ \E v \in ModelVerdict : RejectRetrieval(v) \/ RejectCitations(v) \/ Accept(v)
    /\ UNCHANGED <<mode, pending, records, nudged>>

\* The specialists' loop checks retrieval once and cites nothing.
SpecialistVerdict ==
    /\ Chatting /\ mode = "specialist"
    /\ \E v \in ModelVerdict :
         IF RequireRetrieval /\ ~has_retrieved_evidence
         THEN ForceReview([v EXCEPT !.declared = {}, !.claims = {}])
         ELSE Finish("verdict", v, FALSE)
    /\ UNCHANGED <<mode, iteration, pending, records, retries, reprompts, nudged>>

LoopNext ==
    \/ ChatFails \/ AskTools \/ InvokeTool
    \/ UnparsableVerdict \/ FinalVerdict \/ SpecialistVerdict

LoopSpec == LoopInit /\ [][LoopNext]_loopVars

-----------------------------------------------------------------------------
\* Properties.

Decided == result.outcome = "verdict" /\ ~result.forced

\* Retrieval before reasoning, as far as the code goes: a verdict the loop accepted rests
\* on a tool call that the policy let through, which may have failed after that, in the
\* specialists' loop as in the other two, and every tag a Triager or Investigator cites is
\* the id of such a call (guardrails 1 and 2 together, over evidence that changes between
\* two attempts).
AcceptedIsGrounded ==
    Decided =>
        /\ (IF mode = "specialist" THEN RequireRetrieval ELSE Enforcement) =>
              \E i \in DOMAIN records : records[i].policy = "allow"
        /\ mode # "specialist" /\ Enforcement =>
              \A c \in Cited(result.verdict) :
                  c \in DOMAIN records /\ records[c].policy = "allow"

\* What guardrails.rs says of a verdict that is accepted: one of its tool calls succeeded,
\* that is, was not denied and did not return an error.
VerdictHasEvidence ==
    Decided /\ mode # "specialist" /\ Enforcement => \E i \in DOMAIN records : records[i].ok

\* What is left of a round.
LeftOfRound ==
    CASE loopPc = "chat" -> MaxRound + 1
      [] loopPc = "tools" -> pending
      [] OTHER -> 0

\* The loop ends, however the model answers: an answer, a tool call and a re-prompt take
\* something of the round or end it, and there are no more rounds than the cap.
TurnsRunOut ==
    [][/\ iteration' \in iteration..MaxIterations
       /\ iteration' = iteration => LeftOfRound' < LeftOfRound]_loopVars
=============================================================================
