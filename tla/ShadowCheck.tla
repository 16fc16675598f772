----------------------------- MODULE ShadowCheck -----------------------------
(***************************************************************************)
(* crates/attest-shadow-check: the deterministic gate in front of every    *)
(* Triager auto-close and every Responder action.                          *)
(*                                                                         *)
(* A decision is [allowed, policies]: policies is the number of policies   *)
(* evaluated before the gate answered (policies_evaluated, in order).      *)
(***************************************************************************)
EXTENDS PolicyEngine

CONSTANTS
    Names,                  \* strings alerts and lists use for principals
    Lower,                  \* to_ascii_lowercase on those strings
    DoNotTouchList,         \* the names DO_NOT_TOUCH_LIST spells out
    AllowedActionClasses,   \* AUTO_CLOSE_ACTION_CLASSES, lower-cased
    TenantAllowsAutomation  \* TENANT_ALLOWS_AUTOMATION

ASSUME ShadowCheckConstants ==
    /\ Lower \in [Names -> Names]
    /\ \A s \in Names : Lower[Lower[s]] = Lower[s]
    /\ DoNotTouchList \subseteq Names
    /\ TenantAllowsAutomation \in BOOLEAN

\* from_env keeps the list lower-cased.
do_not_touch == { Lower[s] : s \in DoNotTouchList }

IsProtected(principal) == Lower[principal] \in do_not_touch

\* The context both checks hand to the policy engine: the action count is 0.
GateContext(confidence, radius) ==
    [calibrated_confidence |-> confidence, target_is_protected |-> FALSE,
     recent_actions_last_hour |-> 0, blast_radius |-> radius,
     tenant_allows_automation |-> TenantAllowsAutomation]

Denied(n) == [allowed |-> FALSE, policies |-> n]

\* ShadowChecker::check.  extract_action_class has lower-cased the class.
check(principal, action_class, confidence) ==
    CASE IsProtected(principal) -> Denied(1)
      [] ~IsProtected(principal) /\ action_class \notin AllowedActionClasses -> Denied(2)
      [] OTHER ->
           [allowed  |-> authorize("triager", "triager_auto_close",
                                   GateContext(confidence, 1)) = "allow",
            policies |-> 3]

\* ShadowChecker::check_responder.
check_responder(tool, principal, confidence, radius) ==
    CASE IsProtected(principal) -> Denied(1)
      [] ~IsProtected(principal) /\ ~TenantAllowsAutomation -> Denied(2)
      [] OTHER ->
           [allowed  |-> authorize("responder", tool, GateContext(confidence, radius)) = "allow",
            policies |-> 3]
=============================================================================
