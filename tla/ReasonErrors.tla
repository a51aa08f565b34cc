---------------------------- MODULE ReasonErrors ----------------------------
(* The errors REASON leaves in last_error (agent/nodes/reason.py), as the   *)
(* graph and the retry loop both know them.                                *)

NoError == [type |-> "none", recoverable |-> TRUE]

LlmErrors == {[type |-> "llm_auth_error", recoverable |-> FALSE],
              [type |-> "llm_rate_limit", recoverable |-> FALSE],
              [type |-> "llm_rate_limit", recoverable |-> TRUE]}
=============================================================================
