--------------------------- MODULE MCToolExecutor ---------------------------
(* The declarations the registry holds (agent/tools/logic), one of a kind. *)
EXTENDS ToolExecutor

Declare(safe, approval, idempotency, policy, retries) ==
  [known |-> TRUE, safe |-> safe, approval |-> approval,
   idempotency |-> idempotency, policy |-> policy, retries |-> retries]

Unknown == [Declare(FALSE, FALSE, "read_only", "transient_only", 3) EXCEPT !.known = FALSE]
WebFetch == Declare(TRUE, FALSE, "read_only", "transient_only", 1)
CreateBackgroundTask == Declare(FALSE, FALSE, "read_only", "none", 0)
AddContactKnowledge == Declare(FALSE, TRUE, "unsafe", "none", 0)

RegisteredTools == {Unknown, WebFetch, CreateBackgroundTask, AddContactKnowledge}
=============================================================================
