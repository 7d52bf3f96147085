------------------------------ MODULE ToolTurn ------------------------------
(***************************************************************************)
(* What the agent loop expects of ToolExecutor.execute_routes: every call  *)
(* of the turn gets one result, in any order, a result is final, and the   *)
(* call returns when the last result is there (agent/core_loop.py).        *)
(***************************************************************************)
CONSTANTS
  Calls,      \* the tool calls of one assistant message
  Results,    \* the kinds of ToolResultEnvelope
  NoResult

VARIABLES
  result,     \* the result of each call
  returned    \* execute_routes has returned

turnVars == <<result, returned>>

Init ==
  /\ result = [c \in Calls |-> NoResult]
  /\ returned = FALSE

Answer(c) ==
  /\ ~returned
  /\ result[c] = NoResult
  /\ \E r \in Results : result' = [result EXCEPT ![c] = r]
  /\ UNCHANGED returned

Return ==
  /\ ~returned
  /\ \A c \in Calls : result[c] \in Results
  /\ returned' = TRUE
  /\ UNCHANGED result

Next == Return \/ \E c \in Calls : Answer(c)

Spec == Init /\ [][Next]_turnVars
=============================================================================
