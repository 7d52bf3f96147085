--------------------------- MODULE ExecutionGate ---------------------------
(***************************************************************************)
(* What the task subsystem promises about execution, without threads,      *)
(* files or queues: a task is run only after it was made runnable (it was  *)
(* created to run now, its time came, its approval was granted), each such *)
(* release is good for one run, and one task runs at a time.               *)
(***************************************************************************)
CONSTANTS Tasks, None

VARIABLES
  released,   \* tasks that may be run once more
  executing   \* the task being run, or None

gateVars == <<released, executing>>

Init ==
  /\ released = {}
  /\ executing = None

Release(t) ==
  /\ released' = released \cup {t}
  /\ UNCHANGED executing

Start(t) ==
  /\ executing = None
  /\ t \in released
  /\ executing' = t
  /\ released' = released \ {t}

End ==
  /\ executing # None
  /\ executing' = None
  /\ UNCHANGED released

Next == End \/ \E t \in Tasks : Release(t) \/ Start(t)

Spec == Init /\ [][Next]_gateVars
=============================================================================
