--------------------------- MODULE LlmLoopProofs ---------------------------
(***************************************************************************)
(* The guardrails of the agent loops, for every mode, every cap, every set *)
(* of labels and every answer the language model may give.                 *)
(***************************************************************************)
EXTENDS LlmLoop, TLAPS

\* A loop that has not returned has no verdict: only the return statements, after which
\* no tool is called any more, make one.
ReturnsOnce == loopPc # "done" => result.outcome = "running"

GroundedInv == ReturnsOnce /\ AcceptedIsGrounded

\* A result that is no accepted verdict satisfies the invariant, whatever else changed.
LEMMA UndecidedKeeps ==
    ASSUME \/ loopPc' = "done" /\ result'.outcome # "verdict"
           \/ result'.outcome = "running"
           \/ loopPc' = "done" /\ result'.forced = TRUE
    PROVE  GroundedInv'
  BY DEF GroundedInv, ReturnsOnce, AcceptedIsGrounded, Decided

\* The end of a round leaves the loop running or returns at the iteration cap.
LEMMA NextIterationKeeps ==
    ASSUME GroundedInv, loopPc # "done", NextIteration
    PROVE  GroundedInv'
  <1>1. CASE UNCHANGED result
    BY <1>1, UndecidedKeeps DEF GroundedInv, ReturnsOnce
  <1>2. CASE Finish("max_iterations", NoVerdict, FALSE)
    BY <1>2, UndecidedKeeps DEF Finish
  <1> QED
    BY <1>1, <1>2 DEF NextIteration

\* What guardrail 2 lets through cites successful calls only.
LEMMA PassedIsGrounded ==
    ASSUME NEW v, citations_passed(v), NEW c \in Cited(v)
    PROVE  c \in DOMAIN records /\ records[c].policy = "allow"
  BY DEF citations_passed, Orphans, successful_call_ids

\* Forcing is never accepting.
LEMMA ForceKeeps ==
    ASSUME NEW v, ForceReview(v)
    PROVE  GroundedInv'
  BY UndecidedKeeps DEF ForceReview, Finish

\* A failed guardrail forces the verdict or asks again.
LEMMA RepromptKeeps ==
    ASSUME GroundedInv, loopPc # "done", NEW check, Reprompt(check)
    PROVE  GroundedInv'
  BY NextIterationKeeps DEF Reprompt

\* Triager and Investigator: one step of the lemma per way through the two guardrails.
LEMMA FinalVerdictKeeps ==
    ASSUME GroundedInv, FinalVerdict
    PROVE  GroundedInv'
  <1>1. loopPc # "done" /\ mode # "specialist" /\ UNCHANGED <<mode, records>>
    BY DEF FinalVerdict, Chatting
  <1>2. PICK v \in ModelVerdict : RejectRetrieval(v) \/ RejectCitations(v) \/ Accept(v)
    BY DEF FinalVerdict
  <1>3. CASE RejectRetrieval(v)
    BY <1>1, <1>3, ForceKeeps, RepromptKeeps DEF RejectRetrieval
  <1>4. CASE RejectCitations(v)
    BY <1>1, <1>4, ForceKeeps, RepromptKeeps DEF RejectCitations
  <1>5. CASE Accept(v)
    <2>1. loopPc' = "done" /\ result'.verdict = v
      BY <1>5 DEF Accept, Finish
    <2>2. Enforcement => \E i \in DOMAIN records : records[i].policy = "allow"
      BY <1>5 DEF Accept, RetrievalFails, has_retrieved_evidence
    <2>3. Enforcement => citations_passed(v)
      BY <1>5 DEF Accept, CitationsFail
    <2>4. Enforcement =>
            \A c \in Cited(v) : c \in DOMAIN records /\ records[c].policy = "allow"
      BY <2>3, PassedIsGrounded
    <2>5. AcceptedIsGrounded'
      BY <1>1, <2>1, <2>2, <2>4 DEF AcceptedIsGrounded, Cited
    <2> QED
      BY <2>1, <2>5 DEF GroundedInv, ReturnsOnce
  <1> QED
    BY <1>2, <1>3, <1>4, <1>5

\* Hunter and Responder: retrieval is checked once, and only if the specialist asks for it.
LEMMA SpecialistVerdictKeeps ==
    ASSUME GroundedInv, SpecialistVerdict
    PROVE  GroundedInv'
  <1>1. mode = "specialist" /\ UNCHANGED <<mode, records>>
    BY DEF SpecialistVerdict
  <1>2. PICK v \in ModelVerdict :
          IF RequireRetrieval /\ ~has_retrieved_evidence
          THEN ForceReview([v EXCEPT !.declared = {}, !.claims = {}])
          ELSE Finish("verdict", v, FALSE)
    BY DEF SpecialistVerdict
  <1>3. CASE RequireRetrieval /\ ~has_retrieved_evidence
    BY <1>2, <1>3, ForceKeeps
  <1>4. CASE ~(RequireRetrieval /\ ~has_retrieved_evidence)
    <2>1. loopPc' = "done"
      BY <1>2, <1>4 DEF Finish
    <2>2. RequireRetrieval => \E i \in DOMAIN records : records[i].policy = "allow"
      BY <1>4 DEF has_retrieved_evidence
    <2>3. AcceptedIsGrounded'
      BY <1>1, <2>2 DEF AcceptedIsGrounded
    <2> QED
      BY <2>1, <2>3 DEF GroundedInv, ReturnsOnce
  <1> QED
    BY <1>3, <1>4

\* One case per action of the loop.
LEMMA LoopStepKeeps ==
    ASSUME GroundedInv, [LoopNext]_loopVars
    PROVE  GroundedInv'
  <1>1. CASE ChatFails
    BY <1>1, UndecidedKeeps DEF ChatFails, Finish
  <1>2. CASE AskTools
    BY <1>2, UndecidedKeeps DEF AskTools, Chatting, GroundedInv, ReturnsOnce
  <1>3. CASE InvokeTool
    <2>1. loopPc # "done"
      BY <1>3 DEF InvokeTool
    <2>2. CASE pending = 1
      BY <1>3, <2>1, <2>2, NextIterationKeeps DEF InvokeTool
    <2>3. CASE pending # 1
      BY <1>3, <2>1, <2>3, UndecidedKeeps DEF InvokeTool, GroundedInv, ReturnsOnce
    <2> QED
      BY <2>2, <2>3
  <1>4. CASE UnparsableVerdict
    BY <1>4, UndecidedKeeps DEF UnparsableVerdict, Finish
  <1>5. CASE FinalVerdict
    BY <1>5, FinalVerdictKeeps
  <1>6. CASE SpecialistVerdict
    BY <1>6, SpecialistVerdictKeeps
  <1>7. CASE UNCHANGED loopVars
    BY <1>7 DEF loopVars, GroundedInv, ReturnsOnce, AcceptedIsGrounded, Decided, Cited
  <1> QED
    BY <1>1, <1>2, <1>3, <1>4, <1>5, <1>6, <1>7 DEF LoopNext

\* Retrieval before reasoning, for every model and every tool: a verdict that no guardrail
\* forced rests on a call the policy let through, and what it cites are such calls.
THEOREM GuardrailsHold == LoopSpec => []AcceptedIsGrounded
  <1>1. LoopInit => GroundedInv
    BY DEF LoopInit, GroundedInv, ReturnsOnce, AcceptedIsGrounded, Decided, NoResult
  <1>2. GroundedInv /\ [LoopNext]_loopVars => GroundedInv'
    BY LoopStepKeeps
  <1>3. GroundedInv => AcceptedIsGrounded
    BY DEF GroundedInv
  <1> QED
    BY <1>1, <1>2, <1>3, PTL DEF LoopSpec

-----------------------------------------------------------------------------
\* The end of the loop.

\* While the loop runs there is a round left, and while it calls tools there is a call left.
RoundInv ==
    /\ iteration \in Nat
    /\ loopPc # "done" => iteration < MaxIterations
    /\ loopPc \in {"chat", "tools", "done"}
    /\ loopPc = "tools" => pending \in 1..MaxRound

\* A round that ends is the last one or makes place for another.
LEMMA RoundEnds ==
    ASSUME RoundInv, loopPc # "done", NextIteration
    PROVE  /\ iteration' = iteration + 1 /\ iteration' \in iteration..MaxIterations
           /\ RoundInv'
  <1>1. MaxIterations \in Nat /\ iteration \in Nat /\ iteration < MaxIterations
    BY LoopConstants DEF RoundInv
  <1>2. iteration' = iteration + 1 /\ iteration' \in iteration..MaxIterations
    BY <1>1 DEF NextIteration
  <1>3. (loopPc' = "chat" /\ iteration' < MaxIterations) \/ loopPc' = "done"
    BY <1>2 DEF NextIteration, Finish
  <1> QED BY <1>1, <1>2, <1>3 DEF RoundInv

\* A return statement takes what is left of the round.
LEMMA ReturnEnds ==
    ASSUME RoundInv, loopPc # "done", loopPc' = "done", iteration' = iteration
    PROVE  /\ iteration' \in iteration..MaxIterations /\ LeftOfRound' < LeftOfRound
           /\ RoundInv'
  <1>1. MaxIterations \in Nat /\ iteration \in Nat /\ iteration < MaxIterations /\ MaxRound \in Nat
    BY LoopConstants DEF RoundInv
  <1>2. LeftOfRound > 0 /\ LeftOfRound' = 0
    BY <1>1 DEF LeftOfRound, RoundInv
  <1> QED BY <1>1, <1>2 DEF RoundInv

\* One case per action of the loop.
LEMMA TurnTakes ==
    ASSUME RoundInv, LoopNext
    PROVE  /\ iteration' \in iteration..MaxIterations
           /\ iteration' = iteration => LeftOfRound' < LeftOfRound
           /\ RoundInv'
  <1> DEFINE Goal == /\ iteration' \in iteration..MaxIterations
                     /\ iteration' = iteration => LeftOfRound' < LeftOfRound
                     /\ RoundInv'
  <1>0. /\ MaxIterations \in Nat /\ MaxRound \in Nat /\ iteration \in Nat
        /\ loopPc # "done" => iteration < MaxIterations
    BY LoopConstants DEF RoundInv
  <1>1. ASSUME loopPc # "done", NextIteration PROVE Goal
    <2>1. iteration' = iteration + 1 /\ iteration' \in iteration..MaxIterations /\ RoundInv'
      BY <1>1, RoundEnds
    <2>2. iteration' # iteration
      BY <1>0, <2>1
    <2> QED BY <2>1, <2>2
  <1>2. ASSUME loopPc # "done", loopPc' = "done", iteration' = iteration PROVE Goal
    BY <1>2, ReturnEnds
  <1>3. CASE ChatFails \/ UnparsableVerdict
    BY <1>2, <1>3 DEF ChatFails, UnparsableVerdict, Chatting, Finish
  <1>4. CASE AskTools
    <2>1. loopPc = "chat" /\ loopPc' = "tools" /\ pending' \in 1..MaxRound /\ iteration' = iteration
      BY <1>4 DEF AskTools, Chatting
    <2>2. LeftOfRound = MaxRound + 1 /\ LeftOfRound' = pending'
      BY <2>1 DEF LeftOfRound
    <2>3. LeftOfRound' < LeftOfRound /\ iteration' \in iteration..MaxIterations
      BY <1>0, <2>1, <2>2
    <2> QED BY <1>0, <2>1, <2>3 DEF RoundInv
  <1>5. CASE InvokeTool
    <2>1. loopPc = "tools" /\ pending \in 1..MaxRound /\ pending' = pending - 1
      BY <1>5 DEF InvokeTool, RoundInv
    <2>2. CASE pending = 1
      BY <1>1, <1>5, <2>1, <2>2 DEF InvokeTool
    <2>3. CASE pending # 1
      <3>1. loopPc' = "tools" /\ iteration' = iteration /\ pending' \in 1..MaxRound /\ pending' < pending
        BY <1>0, <1>5, <2>1, <2>3 DEF InvokeTool
      <3>2. LeftOfRound' < LeftOfRound /\ iteration' \in iteration..MaxIterations
        BY <1>0, <2>1, <3>1 DEF LeftOfRound
      <3> QED BY <1>0, <2>1, <3>1, <3>2 DEF RoundInv
    <2> QED BY <2>2, <2>3
  <1>6. CASE FinalVerdict
    <2>1. loopPc # "done"
      BY <1>6 DEF FinalVerdict, Chatting
    <2>2. PICK v \in ModelVerdict : RejectRetrieval(v) \/ RejectCitations(v) \/ Accept(v)
      BY <1>6 DEF FinalVerdict
    <2>3. NextIteration \/ (loopPc' = "done" /\ iteration' = iteration)
      BY <2>2 DEF RejectRetrieval, RejectCitations, Accept, Reprompt, ForceReview, Finish
    <2> QED BY <1>1, <1>2, <2>1, <2>3
  <1>7. CASE SpecialistVerdict
    <2>1. loopPc # "done" /\ iteration' = iteration /\ loopPc' = "done"
      BY <1>7 DEF SpecialistVerdict, Chatting, ForceReview, Finish
    <2> QED BY <1>2, <2>1
  <1> QED BY <1>3, <1>4, <1>5, <1>6, <1>7 DEF LoopNext

\* For every model and every cap: each turn brings the end of the loop nearer.
THEOREM LoopRunsOut == LoopSpec => TurnsRunOut
  <1>1. LoopInit => RoundInv
    <2> SUFFICES ASSUME LoopInit PROVE RoundInv
      OBVIOUS
    <2>0. iteration = 0
      BY DEF LoopInit
    <2>1. MaxIterations \in Nat /\ iteration = 0
      BY <2>0, LoopConstants
    <2>2. CASE MaxIterations = 0
      <3>1. loopPc = "done"
        BY <2>2 DEF LoopInit
      <3> QED BY <2>1, <3>1 DEF RoundInv
    <2>3. CASE MaxIterations # 0
      <3>1. loopPc = "chat"
        BY <2>3 DEF LoopInit
      <3> QED BY <2>1, <2>3, <3>1 DEF RoundInv
    <2> QED BY <2>2, <2>3
  <1>2. RoundInv /\ [LoopNext]_loopVars => RoundInv'
    <2>1. ASSUME RoundInv, UNCHANGED loopVars PROVE RoundInv'
      BY <2>1 DEF loopVars, RoundInv
    <2> QED BY <2>1, TurnTakes
  <1>3. RoundInv /\ [LoopNext]_loopVars =>
          [/\ iteration' \in iteration..MaxIterations
           /\ iteration' = iteration => LeftOfRound' < LeftOfRound]_loopVars
    BY TurnTakes
  <1> QED BY <1>1, <1>2, <1>3, PTL DEF LoopSpec, TurnsRunOut
=============================================================================
