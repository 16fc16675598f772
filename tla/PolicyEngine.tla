---------------------------- MODULE PolicyEngine ----------------------------
(***************************************************************************)
(* crates/attest-policy-engine: the deterministic authorization of every   *)
(* agent tool call.  Confidences are in hundredths.  A decision keeps its  *)
(* kind; the wording of its reason is left out.                            *)
(***************************************************************************)
EXTENDS Naturals

Roles == {"triager", "investigator", "hunter", "detection_engineer",
          "responder", "coordinator"}

Decisions == {"allow", "deny", "escalate"}

\* PolicyContext, for a small set of values of each field.
Context(confidences, counts) ==
    [calibrated_confidence : confidences, target_is_protected : BOOLEAN,
     recent_actions_last_hour : counts, blast_radius : counts,
     tenant_allows_automation : BOOLEAN]

\* Tools every role may call: they only read.
ReadOnlyTools ==
    {"query_hot_tier", "query_warm_tier", "get_user_baseline", "get_asset_context",
     "lookup_threat_intel", "analyze_code_snippet", "sandbox_detonate"}

AllowIf(p) == IF p THEN "allow" ELSE "deny"

authorize_triager(tool, ctx) ==
    AllowIf(/\ tool = "triager_auto_close"
            /\ ctx.tenant_allows_automation
            /\ ctx.calibrated_confidence >= 90)

authorize_investigator(tool) ==
    AllowIf(tool \in {"propose_escalation", "request_human_review"})

authorize_detection_engineer(tool, ctx) ==
    AllowIf(\/ tool = "propose_detection_pr"
            \/ tool = "deploy_detection" /\ ctx.calibrated_confidence >= 80)

authorize_responder(tool, ctx) ==
    CASE tool = "idp_revoke_session" ->
           IF \/ ctx.calibrated_confidence < 85
              \/ ctx.target_is_protected
              \/ ctx.recent_actions_last_hour > 10
           THEN "deny"
           ELSE IF ctx.blast_radius > 50 THEN "escalate" ELSE "allow"
      [] tool = "edr_isolate_host" ->
           IF ctx.target_is_protected THEN "deny"
           ELSE IF ctx.blast_radius > 1 THEN "escalate" ELSE "allow"
      [] OTHER -> AllowIf(tool = "firewall_block_ioc")

authorize_hunter(tool) ==
    AllowIf(tool \in {"propose_detection_pr", "request_human_review"})

authorize(role, tool, ctx) ==
    IF tool \in ReadOnlyTools THEN "allow"
    ELSE CASE role = "triager"             -> authorize_triager(tool, ctx)
           [] role = "investigator"        -> authorize_investigator(tool)
           [] role = "detection_engineer"  -> authorize_detection_engineer(tool, ctx)
           [] role = "responder"           -> authorize_responder(tool, ctx)
           [] role = "hunter"              -> authorize_hunter(tool)
           [] role = "coordinator"         -> "deny"
=============================================================================
