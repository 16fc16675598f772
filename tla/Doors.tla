------------------------------- MODULE Doors -------------------------------
(***************************************************************************)
(* Who may do what: the gateway the agents' tool calls pass, the           *)
(* guardrails a verdict of the language model passes, the public forms     *)
(* with their limits, and the session of the workbench.  The four share no *)
(* state and every property is about one of them, so a behaviour of this   *)
(* module stays at one door: the state spaces add instead of multiplying.  *)
(***************************************************************************)
EXTENDS McpGateway, LlmLoop, PublicForms, Shell

VARIABLE door   \* "gateway", "guardrails", "forms" or "shell"

doorVars == <<gatewayVars, loopVars, formVars, shellVars, door>>

\* Which loop a session runs matters at its door only.
Init ==
    /\ GatewayInit /\ LoopInit /\ FormInit /\ ShellInit
    /\ door \in {"gateway", "guardrails", "forms", "shell"}
    /\ door = "guardrails" \/ mode = CHOOSE m \in Modes : TRUE

Next ==
    \/ door = "gateway" /\ GatewayNext /\ UNCHANGED <<loopVars, formVars, shellVars, door>>
    \/ door = "guardrails" /\ LoopNext /\ UNCHANGED <<gatewayVars, formVars, shellVars, door>>
    \/ door = "forms" /\ FormNext /\ UNCHANGED <<gatewayVars, loopVars, shellVars, door>>
    \/ door = "shell" /\ ShellNext /\ UNCHANGED <<gatewayVars, loopVars, formVars, door>>

Spec == Init /\ [][Next]_doorVars
=============================================================================
