-------------------------- MODULE MCTaskLifecycle --------------------------
(* Instances of TaskLifecycle for TLC. *)
EXTENDS TaskLifecycleInv, TLC

\* Threads of one kind, approvals and tasks of one kind are interchangeable.
Symmetry ==
  Permutations(ApprovalIds) \cup Permutations(Deciders)
    \cup Permutations(AsyncTasks) \cup Permutations(ScheduledTasks)
=============================================================================
