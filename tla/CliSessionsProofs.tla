-------------------------- MODULE CliSessionsProofs --------------------------
(***************************************************************************)
(* For any number of calls: the lock of a session covers its handler, a    *)
(* result holds nothing of another command but what its background jobs    *)
(* wrote, no running shell is lost, and a timeout is hidden only by a      *)
(* close.                                                                  *)
(***************************************************************************)
EXTENDS CliSessions, TLAPS

\* The invariant but for the background jobs, which only LEMMA JobsStep is about.
CoreInv ==
  /\ TypeOK
  /\ LockHeld
  /\ HolderInside
  /\ Opened
  /\ OneCommand
  /\ NoShellLost
  /\ OrphanWasAbandoned
  /\ ReportedIsEnded
  /\ DropOrder
  /\ ClosedOrder
  /\ PipesApart
  /\ AbandonedCalled

\* What a call in progress knows of its session.
LEMMA TargetFacts ==
  ASSUME SessionsInv, NEW h \in Handlers, pc[h] \in ExecPhases \cup ClosePhases
  PROVE  /\ target[h] \in Sessions /\ target[h] \in Handlers /\ target[h] # None
         /\ reply[target[h]] = "opened" /\ pc[target[h]] = "done"
         /\ proc[target[h]] \in {"running", "exited", "dead"}
         /\ reply[h] = None /\ proc[h] = "none" /\ h # target[h]
<1>1. target[h] \in Sessions /\ target[h] \in Handlers /\ target[h] # None
  BY HandlersAssumption DEF SessionsInv, Opened, Sessions
<1>2. reply[target[h]] = "opened" /\ proc[h] = "none" /\ reply[h] = None
  BY <1>1 DEF SessionsInv, Opened
<1>3. proc[target[h]] # "none" /\ pc[target[h]] = "done"
  BY <1>1, <1>2 DEF SessionsInv, Opened
<1> QED
  BY <1>1, <1>2, <1>3, HandlersAssumption
     DEF SessionsInv, TypeOK, ProcessStates, ExecPhases, ClosePhases


\* What a call that has not begun, and one that opens a session, knows.
LEMMA OpenFacts ==
  ASSUME SessionsInv, NEW h \in Handlers
  PROVE  /\ pc[h] \in OpenPhases => target[h] = None /\ proc[h] = "running" /\ reply[h] = None
         /\ pc[h] = "new" => target[h] = None /\ proc[h] = "none" /\ reply[h] = None
BY DEF SessionsInv, Opened, Sessions

\* What no step takes back: targets, replies, the end of a process, and the
\* decision to close a session.
Ratchet ==
  /\ \A h \in Handlers :
       /\ target[h] # None => target'[h] = target[h]
       /\ reply[h] # None => reply'[h] = reply[h]
       /\ pc[h] = "terminate" => pc'[h] = "terminate" \/ reply'[h] = "closed"
  /\ \A s \in Sessions : proc[s] \in {"exited", "dead"} => proc'[s] \in {"exited", "dead"}
  /\ abandoned \subseteq abandoned'

LEMMA ClosedKept ==
  ASSUME Ratchet, NEW h \in Handlers, ClosedUnder(h), target[h] # None
  PROVE  ClosedUnder(h)'
<1>1. PICK g \in Handlers : target[g] = target[h] /\ (pc[g] = "terminate" \/ reply[g] = "closed")
  BY DEF ClosedUnder
<1>2. target'[g] = target'[h] /\ (pc'[g] = "terminate" \/ reply'[g] = "closed")
  BY <1>1, HandlersAssumption DEF Ratchet, Replies
<1> QED
  BY <1>2 DEF ClosedUnder

\* Known sessions that are not abandoned are all there are.
LEMMA OrphanFollows == TypeOK /\ Opened => OrphanWasAbandoned
BY DEF TypeOK, Opened, OrphanWasAbandoned, Known

LEMMA OrphanPrime == TypeOK' /\ Opened' => OrphanWasAbandoned'
BY DEF TypeOK, Opened, OrphanWasAbandoned, Known

LEMMA ShellKept ==
  ASSUME NoShellLost,
         \A s \in Sessions :
           proc'[s] = "running" =>
             /\ proc[s] = "running"
             /\ s \in registry => s \in registry'
             /\ pc[s] \in OpenPhases => pc'[s] \in OpenPhases \/ s \in registry',
         \A h \in Handlers :
           pc[h] = "terminate" => pc'[h] = "terminate" /\ target'[h] = target[h]
  PROVE  NoShellLost'
BY DEF NoShellLost

\* A report of one call stays true whatever the others do.
LEMMA ReportKept ==
  ASSUME SessionsInv, Ratchet, NEW h \in Handlers,
         \A g \in Handlers \ {h} : reply'[g] = reply[g],
         reply'[h] = reply[h]
           \/ (reply'[h] \in {"closed", "command_timed_out", "session_not_running"} =>
                 proc'[target'[h]] \in {"exited", "dead"})
  PROVE  ReportedIsEnded'
<1> SUFFICES ASSUME NEW g \in Handlers, reply'[g] = reply[g],
                    reply[g] \in {"closed", "command_timed_out", "session_not_running"}
             PROVE  proc'[target'[g]] \in {"exited", "dead"}
  BY DEF ReportedIsEnded
<1>1. target[g] # None /\ target[g] \in Sessions /\ target'[g] = target[g]
  BY HandlersAssumption DEF Replies, Errors, SessionsInv, TypeOK, Opened, Ratchet
<1> QED
  BY <1>1 DEF SessionsInv, ReportedIsEnded, Ratchet

LEMMA DropKept ==
  ASSUME SessionsInv, Ratchet, NEW h \in Handlers,
         \A g \in Handlers \ {h} : pc'[g] = pc[g],
         pc'[h] = pc[h]
           \/ (pc'[h] \in {"dropExpired", "dropDead"} =>
                 proc'[target'[h]] \in {"exited", "dead"})
  PROVE  DropOrder'
<1> SUFFICES ASSUME NEW g \in Handlers, pc'[g] = pc[g], pc[g] \in {"dropExpired", "dropDead"}
             PROVE  proc'[target'[g]] \in {"exited", "dead"}
  BY DEF DropOrder
<1>1. target[g] # None /\ target[g] \in Sessions /\ target'[g] = target[g]
  BY TargetFacts DEF Ratchet, ExecPhases
<1> QED
  BY <1>1 DEF SessionsInv, DropOrder, Ratchet

\* Ending the process of a session touches no other session.
LEMMA TerminatedFacts ==
  ASSUME TypeOK, PipesApart, NEW s \in Sessions, Terminated(s)
  PROVE  /\ proc' \in [Sessions -> ProcessStates]
         /\ running' \in [Sessions -> SUBSET Handlers]
         /\ output' \in [Sessions -> SUBSET Handlers]
         /\ jobs' \in [Sessions -> SUBSET Handlers]
         /\ stray' \in [Sessions -> SUBSET Handlers]
         /\ proc'[s] # "running"
         /\ proc'[s] = "none" => running'[s] = {} /\ output'[s] = {}
         /\ \A r \in Sessions : r # s =>
              proc'[r] = proc[r] /\ running'[r] = running[r] /\ output'[r] = output[r]
BY DEF TypeOK, PipesApart, Terminated, background, ProcessStates

LEMMA NextRatchet ==
  ASSUME SessionsInv, Next
  PROVE  Ratchet
<1>1. ASSUME NEW h \in Handlers, Call(h)
      PROVE  Ratchet
  BY TargetFacts, OpenFacts, <1>1, HandlersAssumption
     DEF SessionsInv, TypeOK, Call, Move, Ratchet, Sessions, Replies, ExecPhases,
         ClosePhases, OpenPhases
<1>2. ASSUME NEW h \in Handlers, WaitReady(h)
      PROVE  Ratchet
  BY TargetFacts, OpenFacts, <1>2, HandlersAssumption
     DEF SessionsInv, TypeOK, WaitReady, Move, Ratchet, Sessions, Replies, ExecPhases,
         ClosePhases, OpenPhases
<1>3. ASSUME NEW h \in Handlers, StartFails(h)
      PROVE  Ratchet
  BY TargetFacts, OpenFacts, <1>3, HandlersAssumption
     DEF SessionsInv, TypeOK, StartFails, Reply, Terminated, Ratchet, Sessions, Replies,
         ExecPhases, ClosePhases, OpenPhases
<1>4. ASSUME NEW h \in Handlers, Register(h)
      PROVE  Ratchet
  BY TargetFacts, OpenFacts, <1>4, HandlersAssumption
     DEF SessionsInv, TypeOK, Register, Reply, Ratchet, Sessions, Replies, ExecPhases,
         ClosePhases, OpenPhases
<1>5. ASSUME NEW h \in Handlers, GetSession(h)
      PROVE  Ratchet
  BY TargetFacts, OpenFacts, <1>5, HandlersAssumption
     DEF SessionsInv, TypeOK, GetSession, Move, Reply, Ratchet, Sessions, Replies,
         ExecPhases, ClosePhases, OpenPhases
<1>6. ASSUME NEW h \in Handlers, AcquireLock(h)
      PROVE  Ratchet
  BY TargetFacts, OpenFacts, <1>6, HandlersAssumption
     DEF SessionsInv, TypeOK, AcquireLock, Move, Ratchet, Sessions, Replies, ExecPhases,
         ClosePhases, OpenPhases
<1>7. ASSUME NEW h \in Handlers, Poll(h)
      PROVE  Ratchet
  BY TargetFacts, OpenFacts, <1>7, HandlersAssumption
     DEF SessionsInv, TypeOK, Poll, Move, Ratchet, Sessions, Replies, ExecPhases,
         ClosePhases, OpenPhases
<1>8. ASSUME NEW h \in Handlers, WriteCommand(h)
      PROVE  Ratchet
  BY TargetFacts, OpenFacts, <1>8, HandlersAssumption
     DEF SessionsInv, TypeOK, WriteCommand, Move, Reply, Release, Ratchet, Sessions,
         Replies, ExecPhases, ClosePhases, OpenPhases
<1>9. ASSUME NEW h \in Handlers, CommandFinished(h)
      PROVE  Ratchet
  BY TargetFacts, OpenFacts, <1>9, HandlersAssumption
     DEF SessionsInv, TypeOK, CommandFinished, Reply, Release, Ratchet, Sessions,
         Replies, ExecPhases, ClosePhases, OpenPhases
<1>10. ASSUME NEW h \in Handlers, ProcessExited(h)
      PROVE  Ratchet
  BY TargetFacts, OpenFacts, <1>10, HandlersAssumption
     DEF SessionsInv, TypeOK, ProcessExited, Move, Ratchet, Sessions, Replies,
         ExecPhases, ClosePhases, OpenPhases
<1>11. ASSUME NEW h \in Handlers, PipesClosed(h)
      PROVE  Ratchet
  BY TargetFacts, OpenFacts, <1>11, HandlersAssumption
     DEF SessionsInv, TypeOK, PipesClosed, Reply, Release, Ratchet, Sessions, Replies,
         ExecPhases, ClosePhases, OpenPhases
<1>12. ASSUME NEW h \in Handlers, CommandTimesOut(h)
      PROVE  Ratchet
  BY TargetFacts, OpenFacts, <1>12, HandlersAssumption
     DEF SessionsInv, TypeOK, CommandTimesOut, Move, Ratchet, Sessions, Replies,
         ExecPhases, ClosePhases, OpenPhases
<1>13. ASSUME NEW h \in Handlers, TerminateExpired(h)
      PROVE  Ratchet
  BY TargetFacts, OpenFacts, <1>13, HandlersAssumption
     DEF SessionsInv, TypeOK, TerminateExpired, Move, Terminated, Ratchet, Sessions,
         Replies, ExecPhases, ClosePhases, OpenPhases
<1>14. ASSUME NEW h \in Handlers, DropSession(h)
      PROVE  Ratchet
  BY TargetFacts, OpenFacts, <1>14, HandlersAssumption
     DEF SessionsInv, TypeOK, DropSession, Reply, Release, Ratchet, Sessions, Replies,
         ExecPhases, ClosePhases, OpenPhases
<1>15. ASSUME NEW h \in Handlers, CloseDrop(h)
      PROVE  Ratchet
  BY TargetFacts, OpenFacts, <1>15, HandlersAssumption
     DEF SessionsInv, TypeOK, CloseDrop, Move, Reply, Ratchet, Sessions, Replies,
         ExecPhases, ClosePhases, OpenPhases
<1>16. ASSUME NEW h \in Handlers, CloseTerminate(h)
      PROVE  Ratchet
  BY TargetFacts, OpenFacts, <1>16, HandlersAssumption
     DEF SessionsInv, TypeOK, CloseTerminate, Reply, Terminated, Ratchet, Sessions,
         Replies, ExecPhases, ClosePhases, OpenPhases
<1>17. ASSUME NEW s \in Sessions, ShellRuns(s)
      PROVE  Ratchet
  BY TargetFacts, OpenFacts, <1>17, HandlersAssumption
     DEF SessionsInv, TypeOK, ShellRuns, Ratchet, Sessions, Replies, ExecPhases,
         ClosePhases, OpenPhases
<1>18. ASSUME NEW s \in Sessions, ShellExits(s)
      PROVE  Ratchet
  BY TargetFacts, OpenFacts, <1>18, HandlersAssumption
     DEF SessionsInv, TypeOK, ShellExits, Ratchet, Sessions, Replies, ExecPhases,
         ClosePhases, OpenPhases
<1>19. CASE ToolTimeout
  BY <1>19 DEF ToolTimeout, Ratchet
<1>20. ASSUME NEW s \in Sessions, JobWrites(s)
      PROVE  Ratchet
  BY <1>20 DEF JobWrites, Ratchet
<1> QED
  BY <1>1, <1>2, <1>3, <1>4, <1>5, <1>6, <1>7, <1>8, <1>9, <1>10, <1>11, <1>12, <1>13,
     <1>14, <1>15, <1>16, <1>17, <1>18, <1>19, <1>20
     DEF Next, HandlerStep

LEMMA CallStep ==
  ASSUME SessionsInv, Ratchet, NEW h \in Handlers, Call(h)
  PROVE  CoreInv'
<1>1. /\ pc[h] = "new" /\ target[h] = None /\ proc[h] = "none" /\ reply[h] = None
      /\ current = None /\ current' = h /\ h \notin abandoned /\ h \notin registry
      /\ UNCHANGED <<reply, abandoned, registry, holder, running, output, jobs, stray>>
  BY OpenFacts, HandlersAssumption
     DEF Call, background, SessionsInv, AbandonedCalled, Opened, Sessions, Replies
<1>2. \/ /\ pc' = [pc EXCEPT ![h] = "starting"] /\ proc' = [proc EXCEPT ![h] = "running"]
         /\ UNCHANGED target
      \/ \E s \in Known, op \in {"get", "close"} :
           /\ pc' = [pc EXCEPT ![h] = op] /\ target' = [target EXCEPT ![h] = s]
           /\ UNCHANGED proc
  BY DEF Call
<1>3. ASSUME NEW g \in Handlers
      PROVE  target[g] # h
  BY <1>1, <1>3, HandlersAssumption DEF SessionsInv, Opened, Replies
<1>4. holder[h] = None
  BY <1>1, <1>3 DEF SessionsInv, TypeOK, HolderInside, Sessions
<1>5. pc'[h] \notin InLock /\ pc'[h] \in {"starting", "get", "close"}
  BY <1>2 DEF SessionsInv, TypeOK, InLock
<1>6. TypeOK'
  BY <1>1, <1>2 DEF SessionsInv, TypeOK, Phases, OpenPhases, ExecPhases, ClosePhases,
                    ProcessStates, Sessions, Known
<1>7. LockHeld'
  BY <1>1, <1>2, <1>5 DEF SessionsInv, TypeOK, LockHeld, InLock
<1>8. HolderInside'
  BY <1>1, <1>2 DEF SessionsInv, TypeOK, HolderInside, InLock, Sessions
<1>9. Opened'
  <2>1. CASE /\ pc' = [pc EXCEPT ![h] = "starting"] /\ proc' = [proc EXCEPT ![h] = "running"]
             /\ UNCHANGED target
    BY <1>1, <1>3, <2>1, HandlersAssumption
       DEF SessionsInv, TypeOK, Opened, OpenPhases, ExecPhases, ClosePhases, Sessions
  <2>2. ASSUME NEW s \in Known, NEW op \in {"get", "close"},
               pc' = [pc EXCEPT ![h] = op], target' = [target EXCEPT ![h] = s], UNCHANGED proc
        PROVE  Opened'
    BY <1>1, <1>3, <2>2, HandlersAssumption
       DEF SessionsInv, TypeOK, Opened, OpenPhases, ExecPhases, ClosePhases, Sessions, Known
  <2> QED
    BY <1>2, <2>1, <2>2
<1>10. OneCommand' /\ PipesApart'
  <2>1. ASSUME NEW s \in Sessions, proc'[s] = "running", s # h
        PROVE  proc[s] = "running"
    BY <1>2, <2>1 DEF SessionsInv, TypeOK
  <2>2. running[h] = {} /\ output[h] = {}
    BY <1>1 DEF SessionsInv, PipesApart, Sessions
  <2> QED
    BY <1>1, <1>2, <2>1, <2>2 DEF SessionsInv, TypeOK, OneCommand, PipesApart, Sessions
<1>11. NoShellLost'
  BY <1>1, <1>2 DEF SessionsInv, TypeOK, NoShellLost, OpenPhases, Sessions
<1>12. OrphanWasAbandoned'
  BY <1>6, <1>9, OrphanPrime
<1>13. ReportedIsEnded'
  BY <1>1, ReportKept
<1>14. DropOrder'
  BY <1>2, <1>5, DropKept DEF SessionsInv, TypeOK
<1>15. ClosedOrder'
  <2>1. ASSUME NEW g \in Handlers, pc'[g] \in {"write", "collect", "expired", "dropExpired"}
        PROVE  target'[g] \in registry' \/ ClosedUnder(g)'
    <3>1. g # h /\ pc[g] = pc'[g] /\ target'[g] = target[g] /\ target[g] # None
      BY <1>2, <1>5, <2>1, TargetFacts DEF SessionsInv, TypeOK, ExecPhases
    <3> QED
      BY <1>1, <2>1, <3>1, ClosedKept DEF SessionsInv, ClosedOrder
  <2> QED
    BY <2>1 DEF ClosedOrder
<1>16. AbandonedCalled'
  BY <1>1, <1>2 DEF SessionsInv, TypeOK, AbandonedCalled
<1> QED
  BY <1>6, <1>7, <1>8, <1>9, <1>10, <1>11, <1>12, <1>13, <1>14, <1>15, <1>16
     DEF CoreInv

LEMMA WaitReadyStep ==
  ASSUME SessionsInv, Ratchet, NEW h \in Handlers, WaitReady(h)
  PROVE  CoreInv'
<1> USE HandlersAssumption DEF SessionsInv, CoreInv, background, TypeOK,
                               WaitReady, Move
<1>1. TypeOK'
  BY TargetFacts
     DEF Phases, OpenPhases, ExecPhases, ClosePhases, Replies, Errors, ProcessStates,
         Sessions, Known
<1>2. LockHeld' /\ HolderInside'
  BY TargetFacts DEF LockHeld, HolderInside, InLock
<1>3. Opened'
  BY TargetFacts DEF Opened, OpenPhases, ExecPhases, ClosePhases, Sessions, Known
<1>4. OneCommand' /\ PipesApart'
  BY TargetFacts DEF OneCommand, LockHeld, HolderInside, InLock, PipesApart, Opened
<1>5. NoShellLost'
  BY TargetFacts, ShellKept DEF OpenPhases, ExecPhases, ClosePhases, Sessions
<1>6. OrphanWasAbandoned'
  BY <1>1, <1>3, OrphanPrime
<1>7. ReportedIsEnded' /\ DropOrder'
  BY TargetFacts, ReportKept, DropKept
     DEF ExecPhases, ClosePhases, Sessions, ProcessStates
<1>8. ClosedOrder'
  BY TargetFacts, ClosedKept
     DEF ClosedOrder, NoShellLost, Opened, LockHeld, InLock, OpenPhases, ExecPhases,
         ClosePhases, ClosedUnder
<1>9. AbandonedCalled'
  BY TargetFacts DEF AbandonedCalled, Opened
<1> QED
  BY <1>1, <1>2, <1>3, <1>4, <1>5, <1>6, <1>7, <1>8, <1>9

LEMMA StartFailsStep ==
  ASSUME SessionsInv, Ratchet, NEW h \in Handlers, StartFails(h)
  PROVE  CoreInv'
<1> USE HandlersAssumption DEF SessionsInv, CoreInv, background, TypeOK,
                               StartFails, Reply, Terminated
<1>1. TypeOK'
  BY TargetFacts
     DEF Phases, OpenPhases, ExecPhases, ClosePhases, Replies, Errors, ProcessStates,
         Sessions, Known
<1>2. LockHeld' /\ HolderInside'
  BY TargetFacts DEF LockHeld, HolderInside, InLock
<1>3. Opened'
  BY TargetFacts DEF Opened, OpenPhases, ExecPhases, ClosePhases, Sessions, Known
<1>4. OneCommand' /\ PipesApart'
  BY TargetFacts DEF OneCommand, LockHeld, HolderInside, InLock, PipesApart, Opened
<1>5. NoShellLost'
  BY TargetFacts, ShellKept DEF OpenPhases, ExecPhases, ClosePhases, Sessions
<1>6. OrphanWasAbandoned'
  BY <1>1, <1>3, OrphanPrime
<1>7. ReportedIsEnded' /\ DropOrder'
  BY TargetFacts, ReportKept, DropKept
     DEF ExecPhases, ClosePhases, Sessions, ProcessStates
<1>8. ClosedOrder'
  BY TargetFacts, ClosedKept
     DEF ClosedOrder, NoShellLost, Opened, LockHeld, InLock, OpenPhases, ExecPhases,
         ClosePhases, ClosedUnder
<1>9. AbandonedCalled'
  BY TargetFacts DEF AbandonedCalled, Opened
<1> QED
  BY <1>1, <1>2, <1>3, <1>4, <1>5, <1>6, <1>7, <1>8, <1>9

LEMMA RegisterStep ==
  ASSUME SessionsInv, Ratchet, NEW h \in Handlers, Register(h)
  PROVE  CoreInv'
<1> USE HandlersAssumption DEF SessionsInv, CoreInv, background, TypeOK,
                               Register, Reply
<1>1. TypeOK'
  BY TargetFacts
     DEF Phases, OpenPhases, ExecPhases, ClosePhases, Replies, Errors, ProcessStates,
         Sessions, Known
<1>2. LockHeld' /\ HolderInside'
  BY TargetFacts DEF LockHeld, HolderInside, InLock
<1>3. Opened'
  BY TargetFacts DEF Opened, OpenPhases, ExecPhases, ClosePhases, Sessions, Known
<1>4. OneCommand' /\ PipesApart'
  BY TargetFacts DEF OneCommand, LockHeld, HolderInside, InLock, PipesApart, Opened
<1>5. NoShellLost'
  BY TargetFacts, ShellKept DEF OpenPhases, ExecPhases, ClosePhases, Sessions
<1>6. OrphanWasAbandoned'
  BY <1>1, <1>3, OrphanPrime
<1>7. ReportedIsEnded' /\ DropOrder'
  BY TargetFacts, ReportKept, DropKept
     DEF ExecPhases, ClosePhases, Sessions, ProcessStates
<1>8. ClosedOrder'
  BY TargetFacts, ClosedKept
     DEF ClosedOrder, NoShellLost, Opened, LockHeld, InLock, OpenPhases, ExecPhases,
         ClosePhases, ClosedUnder
<1>9. AbandonedCalled'
  BY TargetFacts DEF AbandonedCalled, Opened
<1> QED
  BY <1>1, <1>2, <1>3, <1>4, <1>5, <1>6, <1>7, <1>8, <1>9

LEMMA GetSessionStep ==
  ASSUME SessionsInv, Ratchet, NEW h \in Handlers, GetSession(h)
  PROVE  CoreInv'
<1> USE HandlersAssumption DEF SessionsInv, CoreInv, background, TypeOK,
                               GetSession, Move, Reply
<1>1. TypeOK'
  BY TargetFacts
     DEF Phases, OpenPhases, ExecPhases, ClosePhases, Replies, Errors, ProcessStates,
         Sessions, Known
<1>2. LockHeld' /\ HolderInside'
  BY TargetFacts DEF LockHeld, HolderInside, InLock
<1>3. Opened'
  BY TargetFacts DEF Opened, OpenPhases, ExecPhases, ClosePhases, Sessions, Known
<1>4. OneCommand' /\ PipesApart'
  BY TargetFacts DEF OneCommand, LockHeld, HolderInside, InLock, PipesApart, Opened
<1>5. NoShellLost'
  BY TargetFacts, ShellKept DEF OpenPhases, ExecPhases, ClosePhases, Sessions
<1>6. OrphanWasAbandoned'
  BY <1>1, <1>3, OrphanPrime
<1>7. ReportedIsEnded' /\ DropOrder'
  BY TargetFacts, ReportKept, DropKept
     DEF ExecPhases, ClosePhases, Sessions, ProcessStates
<1>8. ClosedOrder'
  BY TargetFacts, ClosedKept
     DEF ClosedOrder, NoShellLost, Opened, LockHeld, InLock, OpenPhases, ExecPhases,
         ClosePhases, ClosedUnder
<1>9. AbandonedCalled'
  BY TargetFacts DEF AbandonedCalled, Opened
<1> QED
  BY <1>1, <1>2, <1>3, <1>4, <1>5, <1>6, <1>7, <1>8, <1>9

LEMMA AcquireLockStep ==
  ASSUME SessionsInv, Ratchet, NEW h \in Handlers, AcquireLock(h)
  PROVE  CoreInv'
<1> USE HandlersAssumption DEF SessionsInv, CoreInv, background, TypeOK,
                               AcquireLock, Move
<1>1. TypeOK'
  BY TargetFacts
     DEF Phases, OpenPhases, ExecPhases, ClosePhases, Replies, Errors, ProcessStates,
         Sessions, Known
<1>2. LockHeld'
  <2>1. pc' = [pc EXCEPT ![h] = "poll"] /\ target' = target
        /\ holder[target[h]] = None /\ holder' = [holder EXCEPT ![target[h]] = h]
    BY DEF AcquireLock, Move
  <2>2. target[h] \in Sessions
    BY TargetFacts DEF AcquireLock, ExecPhases
  <2>3. ASSUME NEW g \in Handlers, g # h, pc[g] \in InLock
        PROVE  target[g] # target[h]
    BY <2>1, <2>3, HandlersAssumption DEF SessionsInv, LockHeld
  <2> QED
    BY <2>1, <2>2, <2>3 DEF SessionsInv, TypeOK, LockHeld
<1>3. HolderInside'
  BY TargetFacts DEF LockHeld, HolderInside, InLock
<1>4. Opened'
  BY TargetFacts DEF Opened, OpenPhases, ExecPhases, ClosePhases, Sessions, Known
<1>5. OneCommand' /\ PipesApart'
  BY TargetFacts DEF OneCommand, LockHeld, HolderInside, InLock, PipesApart, Opened
<1>6. NoShellLost'
  BY TargetFacts, ShellKept DEF OpenPhases, ExecPhases, ClosePhases, Sessions
<1>7. OrphanWasAbandoned'
  BY <1>1, <1>4, OrphanPrime
<1>8. ReportedIsEnded' /\ DropOrder'
  BY TargetFacts, ReportKept, DropKept
     DEF ExecPhases, ClosePhases, Sessions, ProcessStates
<1>9. ClosedOrder'
  BY TargetFacts, ClosedKept
     DEF ClosedOrder, NoShellLost, Opened, LockHeld, InLock, OpenPhases, ExecPhases,
         ClosePhases, ClosedUnder
<1>10. AbandonedCalled'
  BY TargetFacts DEF AbandonedCalled, Opened
<1> QED
  BY <1>1, <1>2, <1>3, <1>4, <1>5, <1>6, <1>7, <1>8, <1>9, <1>10

LEMMA PollStep ==
  ASSUME SessionsInv, Ratchet, NEW h \in Handlers, Poll(h)
  PROVE  CoreInv'
<1> USE HandlersAssumption DEF SessionsInv, CoreInv, background, TypeOK,
                               Poll, Move
<1>1. TypeOK'
  BY TargetFacts
     DEF Phases, OpenPhases, ExecPhases, ClosePhases, Replies, Errors, ProcessStates,
         Sessions, Known
<1>2. LockHeld' /\ HolderInside'
  BY TargetFacts DEF LockHeld, HolderInside, InLock
<1>3. Opened'
  BY TargetFacts DEF Opened, OpenPhases, ExecPhases, ClosePhases, Sessions, Known
<1>4. OneCommand' /\ PipesApart'
  BY TargetFacts DEF OneCommand, LockHeld, HolderInside, InLock, PipesApart, Opened
<1>5. NoShellLost'
  BY TargetFacts, ShellKept DEF OpenPhases, ExecPhases, ClosePhases, Sessions
<1>6. OrphanWasAbandoned'
  BY <1>1, <1>3, OrphanPrime
<1>7. ReportedIsEnded' /\ DropOrder'
  BY TargetFacts, ReportKept, DropKept
     DEF ExecPhases, ClosePhases, Sessions, ProcessStates
<1>8. ClosedOrder'
  BY TargetFacts, ClosedKept
     DEF ClosedOrder, NoShellLost, Opened, LockHeld, InLock, OpenPhases, ExecPhases,
         ClosePhases, ClosedUnder
<1>9. AbandonedCalled'
  BY TargetFacts DEF AbandonedCalled, Opened
<1> QED
  BY <1>1, <1>2, <1>3, <1>4, <1>5, <1>6, <1>7, <1>8, <1>9

LEMMA WriteCommandStep ==
  ASSUME SessionsInv, Ratchet, NEW h \in Handlers, WriteCommand(h)
  PROVE  CoreInv'
<1> USE HandlersAssumption DEF SessionsInv, CoreInv, background, TypeOK,
                               WriteCommand, Move, Reply, Release
<1>1. TypeOK'
  BY TargetFacts
     DEF Phases, OpenPhases, ExecPhases, ClosePhases, Replies, Errors, ProcessStates,
         Sessions, Known
<1>2. LockHeld'
  <2>1. ASSUME NEW g \in Handlers, pc'[g] \in InLock
        PROVE  holder'[target[g]] = g
    <3>1. pc[g] \in InLock /\ holder[target[g]] = g
      BY <2>1 DEF WriteCommand, Move, Reply, SessionsInv, TypeOK, LockHeld, InLock
    <3>2. CASE g = h
      BY <2>1, <3>1, <3>2 DEF WriteCommand, Move, Reply, SessionsInv, TypeOK, InLock
    <3>3. CASE g # h
      <4>1. pc[h] \in InLock /\ holder[target[h]] = h
        BY DEF WriteCommand, SessionsInv, LockHeld, InLock
      <4>2. target[g] # target[h]
        BY <3>1, <3>3, <4>1
      <4>3. holder' = holder \/ holder' = [holder EXCEPT ![target[h]] = None]
        BY DEF WriteCommand, Release
      <4>4. target[g] \in Sessions
        BY <3>1, TargetFacts DEF InLock, ExecPhases
      <4> QED
        BY <3>1, <4>2, <4>3, <4>4 DEF SessionsInv, TypeOK
    <3> QED
      BY <3>2, <3>3
  <2> QED
    BY <2>1 DEF LockHeld, WriteCommand
<1>3. HolderInside'
  BY TargetFacts DEF LockHeld, HolderInside, InLock
<1>4. Opened'
  <2>1. /\ pc[h] = "write" /\ target[h] \in Sessions /\ UNCHANGED <<target, registry, proc>>
        /\ \/ pc' = [pc EXCEPT ![h] = "collect"] /\ reply' = reply
           \/ \E e \in {"session_not_running", "exception"} :
                pc' = [pc EXCEPT ![h] = "done"] /\ reply' = [reply EXCEPT ![h] = e]
    BY TargetFacts DEF ExecPhases
  <2>2. /\ h \notin Sessions \/ reply[h] = None
        /\ h \notin registry
    BY <2>1 DEF Opened, ExecPhases, Sessions, Known
  <2>3. ASSUME NEW s \in Sessions
        PROVE  /\ s \in registry' => reply'[s] = "opened"
               /\ reply'[s] = "opened" => proc'[s] # "none" /\ pc'[s] = "done"
               /\ pc'[s] = "new" <=> reply'[s] = None /\ proc'[s] = "none" /\ target'[s] = None
               /\ pc'[s] \in OpenPhases =>
                    target'[s] = None /\ proc'[s] = "running" /\ reply'[s] = None
    BY <2>1, <2>2, <2>3 DEF Opened, OpenPhases, ExecPhases, Sessions, Known
  <2>4. ASSUME NEW g \in Handlers
        PROVE  /\ pc'[g] \in ExecPhases \cup ClosePhases =>
                    target'[g] \in Sessions /\ reply'[g] = None
               /\ target'[g] # None => reply'[target'[g]] = "opened" /\ proc'[g] = "none"
               /\ reply'[g] \notin {None, "opened", "session_start_failed"}
                    => target'[g] # None
               /\ pc'[g] \notin {"new", "done"} => g = current' \/ g \in abandoned'
    BY <2>1, <2>2, <2>4, TargetFacts DEF Opened, OpenPhases, ExecPhases, ClosePhases, Sessions
  <2>5. current' # None => pc'[current'] \notin {"new", "done"} /\ current' \notin abandoned'
    BY <2>1 DEF Opened
  <2> HIDE HandlersAssumption DEF SessionsInv, CoreInv, background, TypeOK, WriteCommand,
                                  Move, Reply, Release
  <2> QED
    BY <2>3, <2>4, <2>5 DEF Opened
<1>5. OneCommand' /\ PipesApart'
  BY TargetFacts DEF OneCommand, LockHeld, HolderInside, InLock, PipesApart, Opened
<1>6. NoShellLost'
  BY TargetFacts, ShellKept DEF OpenPhases, ExecPhases, ClosePhases, Sessions
<1>7. OrphanWasAbandoned'
  BY <1>1, <1>4, OrphanPrime
<1>8. ReportedIsEnded' /\ DropOrder'
  BY TargetFacts, ReportKept, DropKept
     DEF ExecPhases, ClosePhases, Sessions, ProcessStates
<1>9. ClosedOrder'
  BY TargetFacts, ClosedKept
     DEF ClosedOrder, NoShellLost, Opened, LockHeld, InLock, OpenPhases, ExecPhases,
         ClosePhases, ClosedUnder
<1>10. AbandonedCalled'
  BY TargetFacts DEF AbandonedCalled, Opened
<1> QED
  BY <1>1, <1>2, <1>3, <1>4, <1>5, <1>6, <1>7, <1>8, <1>9, <1>10

LEMMA CommandFinishedStep ==
  ASSUME SessionsInv, Ratchet, NEW h \in Handlers, CommandFinished(h)
  PROVE  CoreInv'
<1> USE HandlersAssumption DEF SessionsInv, CoreInv, background, TypeOK,
                               CommandFinished, Reply, Release
<1>1. TypeOK'
  BY TargetFacts
     DEF Phases, OpenPhases, ExecPhases, ClosePhases, Replies, Errors, ProcessStates,
         Sessions, Known
<1>2. LockHeld' /\ HolderInside'
  BY TargetFacts DEF LockHeld, HolderInside, InLock
<1>3. Opened'
  BY TargetFacts DEF Opened, OpenPhases, ExecPhases, ClosePhases, Sessions, Known
<1>4. OneCommand' /\ PipesApart'
  BY TargetFacts DEF OneCommand, LockHeld, HolderInside, InLock, PipesApart, Opened
<1>5. NoShellLost'
  BY TargetFacts, ShellKept DEF OpenPhases, ExecPhases, ClosePhases, Sessions
<1>6. OrphanWasAbandoned'
  BY <1>1, <1>3, OrphanPrime
<1>7. ReportedIsEnded' /\ DropOrder'
  BY TargetFacts, ReportKept, DropKept
     DEF ExecPhases, ClosePhases, Sessions, ProcessStates
<1>8. ClosedOrder'
  BY TargetFacts, ClosedKept
     DEF ClosedOrder, NoShellLost, Opened, LockHeld, InLock, OpenPhases, ExecPhases,
         ClosePhases, ClosedUnder
<1>9. AbandonedCalled'
  BY TargetFacts DEF AbandonedCalled, Opened
<1> QED
  BY <1>1, <1>2, <1>3, <1>4, <1>5, <1>6, <1>7, <1>8, <1>9

LEMMA ProcessExitedStep ==
  ASSUME SessionsInv, Ratchet, NEW h \in Handlers, ProcessExited(h)
  PROVE  CoreInv'
<1> USE HandlersAssumption DEF SessionsInv, CoreInv, background, TypeOK,
                               ProcessExited, Move
<1>1. TypeOK'
  BY TargetFacts
     DEF Phases, OpenPhases, ExecPhases, ClosePhases, Replies, Errors, ProcessStates,
         Sessions, Known
<1>2. LockHeld' /\ HolderInside'
  BY TargetFacts DEF LockHeld, HolderInside, InLock
<1>3. Opened'
  BY TargetFacts DEF Opened, OpenPhases, ExecPhases, ClosePhases, Sessions, Known
<1>4. OneCommand' /\ PipesApart'
  BY TargetFacts DEF OneCommand, LockHeld, HolderInside, InLock, PipesApart, Opened
<1>5. NoShellLost'
  BY TargetFacts, ShellKept DEF OpenPhases, ExecPhases, ClosePhases, Sessions
<1>6. OrphanWasAbandoned'
  BY <1>1, <1>3, OrphanPrime
<1>7. ReportedIsEnded' /\ DropOrder'
  BY TargetFacts, ReportKept, DropKept
     DEF ExecPhases, ClosePhases, Sessions, ProcessStates
<1>8. ClosedOrder'
  BY TargetFacts, ClosedKept
     DEF ClosedOrder, NoShellLost, Opened, LockHeld, InLock, OpenPhases, ExecPhases,
         ClosePhases, ClosedUnder
<1>9. AbandonedCalled'
  BY TargetFacts DEF AbandonedCalled, Opened
<1> QED
  BY <1>1, <1>2, <1>3, <1>4, <1>5, <1>6, <1>7, <1>8, <1>9

LEMMA PipesClosedStep ==
  ASSUME SessionsInv, Ratchet, NEW h \in Handlers, PipesClosed(h)
  PROVE  CoreInv'
<1> USE HandlersAssumption DEF SessionsInv, CoreInv, background, TypeOK,
                               PipesClosed, Reply, Release
<1>1. TypeOK'
  BY TargetFacts
     DEF Phases, OpenPhases, ExecPhases, ClosePhases, Replies, Errors, ProcessStates,
         Sessions, Known
<1>2. LockHeld' /\ HolderInside'
  BY TargetFacts DEF LockHeld, HolderInside, InLock
<1>3. Opened'
  BY TargetFacts DEF Opened, OpenPhases, ExecPhases, ClosePhases, Sessions, Known
<1>4. OneCommand' /\ PipesApart'
  BY TargetFacts DEF OneCommand, LockHeld, HolderInside, InLock, PipesApart, Opened
<1>5. NoShellLost'
  BY TargetFacts, ShellKept DEF OpenPhases, ExecPhases, ClosePhases, Sessions
<1>6. OrphanWasAbandoned'
  BY <1>1, <1>3, OrphanPrime
<1>7. ReportedIsEnded' /\ DropOrder'
  BY TargetFacts, ReportKept, DropKept
     DEF ExecPhases, ClosePhases, Sessions, ProcessStates
<1>8. ClosedOrder'
  BY TargetFacts, ClosedKept
     DEF ClosedOrder, NoShellLost, Opened, LockHeld, InLock, OpenPhases, ExecPhases,
         ClosePhases, ClosedUnder
<1>9. AbandonedCalled'
  BY TargetFacts DEF AbandonedCalled, Opened
<1> QED
  BY <1>1, <1>2, <1>3, <1>4, <1>5, <1>6, <1>7, <1>8, <1>9

LEMMA CommandTimesOutStep ==
  ASSUME SessionsInv, Ratchet, NEW h \in Handlers, CommandTimesOut(h)
  PROVE  CoreInv'
<1> USE HandlersAssumption DEF SessionsInv, CoreInv, background, TypeOK,
                               CommandTimesOut, Move
<1>1. TypeOK'
  BY TargetFacts
     DEF Phases, OpenPhases, ExecPhases, ClosePhases, Replies, Errors, ProcessStates,
         Sessions, Known
<1>2. LockHeld' /\ HolderInside'
  BY TargetFacts DEF LockHeld, HolderInside, InLock
<1>3. Opened'
  BY TargetFacts DEF Opened, OpenPhases, ExecPhases, ClosePhases, Sessions, Known
<1>4. OneCommand' /\ PipesApart'
  BY TargetFacts DEF OneCommand, LockHeld, HolderInside, InLock, PipesApart, Opened
<1>5. NoShellLost'
  BY TargetFacts, ShellKept DEF OpenPhases, ExecPhases, ClosePhases, Sessions
<1>6. OrphanWasAbandoned'
  BY <1>1, <1>3, OrphanPrime
<1>7. ReportedIsEnded' /\ DropOrder'
  BY TargetFacts, ReportKept, DropKept
     DEF ExecPhases, ClosePhases, Sessions, ProcessStates
<1>8. ClosedOrder'
  BY TargetFacts, ClosedKept
     DEF ClosedOrder, NoShellLost, Opened, LockHeld, InLock, OpenPhases, ExecPhases,
         ClosePhases, ClosedUnder
<1>9. AbandonedCalled'
  BY TargetFacts DEF AbandonedCalled, Opened
<1> QED
  BY <1>1, <1>2, <1>3, <1>4, <1>5, <1>6, <1>7, <1>8, <1>9

LEMMA TerminateExpiredStep ==
  ASSUME SessionsInv, Ratchet, NEW h \in Handlers, TerminateExpired(h)
  PROVE  CoreInv'
<1> USE HandlersAssumption DEF SessionsInv, CoreInv, background, TypeOK,
                               TerminateExpired, Move, Terminated
<1>1. TypeOK'
  BY TargetFacts
     DEF Phases, OpenPhases, ExecPhases, ClosePhases, Replies, Errors, ProcessStates,
         Sessions, Known
<1>2. LockHeld' /\ HolderInside'
  BY TargetFacts DEF LockHeld, HolderInside, InLock
<1>3. Opened'
  BY TargetFacts DEF Opened, OpenPhases, ExecPhases, ClosePhases, Sessions, Known
<1>4. OneCommand' /\ PipesApart'
  <2> HIDE DEF Terminated
  <2>1. target[h] \in Sessions /\ target[h] # None /\ UNCHANGED holder
    BY TargetFacts DEF ExecPhases
  <2>2. \A g \in Handlers : pc[g] = "collect" => pc'[g] = "collect"
    OBVIOUS
  <2>3. \A g \in Handlers : pc[g] = "expired" => pc'[g] = "expired" \/ g = h
    OBVIOUS
  <2>4. holder[target[h]] = h
    BY DEF LockHeld, InLock
  <2>5. \A r \in Sessions : r # target[h] => holder[r] # h
    BY DEF HolderInside
  <2> QED
    BY <2>1, <2>2, <2>3, <2>4, <2>5, TerminatedFacts DEF OneCommand, PipesApart
<1>5. NoShellLost'
  BY TargetFacts, ShellKept DEF OpenPhases, ExecPhases, ClosePhases, Sessions
<1>6. OrphanWasAbandoned'
  BY <1>1, <1>3, OrphanPrime
<1>7. ReportedIsEnded' /\ DropOrder'
  BY TargetFacts, ReportKept, DropKept
     DEF ExecPhases, ClosePhases, Sessions, ProcessStates
<1>8. ClosedOrder'
  BY TargetFacts, ClosedKept
     DEF ClosedOrder, NoShellLost, Opened, LockHeld, InLock, OpenPhases, ExecPhases,
         ClosePhases, ClosedUnder
<1>9. AbandonedCalled'
  BY TargetFacts DEF AbandonedCalled, Opened
<1> QED
  BY <1>1, <1>2, <1>3, <1>4, <1>5, <1>6, <1>7, <1>8, <1>9

LEMMA DropSessionStep ==
  ASSUME SessionsInv, Ratchet, NEW h \in Handlers, DropSession(h)
  PROVE  CoreInv'
<1> USE HandlersAssumption DEF SessionsInv, CoreInv, background, TypeOK,
                               DropSession, Reply, Release
<1>1. TypeOK'
  BY TargetFacts
     DEF Phases, OpenPhases, ExecPhases, ClosePhases, Replies, Errors, ProcessStates,
         Sessions, Known
<1>2. LockHeld' /\ HolderInside'
  BY TargetFacts DEF LockHeld, HolderInside, InLock
<1>3. Opened'
  BY TargetFacts DEF Opened, OpenPhases, ExecPhases, ClosePhases, Sessions, Known
<1>4. OneCommand' /\ PipesApart'
  BY TargetFacts DEF OneCommand, LockHeld, HolderInside, InLock, PipesApart, Opened
<1>5. NoShellLost'
  BY TargetFacts, ShellKept DEF OpenPhases, ExecPhases, ClosePhases, Sessions, DropOrder
<1>6. OrphanWasAbandoned'
  BY <1>1, <1>3, OrphanPrime
<1>7. ReportedIsEnded' /\ DropOrder'
  BY TargetFacts, ReportKept, DropKept
     DEF ExecPhases, ClosePhases, Sessions, ProcessStates, DropOrder
<1>8. ClosedOrder'
  BY TargetFacts, ClosedKept
     DEF ClosedOrder, NoShellLost, Opened, LockHeld, InLock, OpenPhases, ExecPhases,
         ClosePhases, ClosedUnder
<1>9. AbandonedCalled'
  BY TargetFacts DEF AbandonedCalled, Opened
<1> QED
  BY <1>1, <1>2, <1>3, <1>4, <1>5, <1>6, <1>7, <1>8, <1>9

LEMMA CloseDropStep ==
  ASSUME SessionsInv, Ratchet, NEW h \in Handlers, CloseDrop(h)
  PROVE  CoreInv'
<1> USE HandlersAssumption DEF SessionsInv, CoreInv, background, TypeOK,
                               CloseDrop, Move, Reply
<1>1. TypeOK'
  BY TargetFacts
     DEF Phases, OpenPhases, ExecPhases, ClosePhases, Replies, Errors, ProcessStates,
         Sessions, Known
<1>2. LockHeld' /\ HolderInside'
  BY TargetFacts DEF LockHeld, HolderInside, InLock
<1>3. Opened'
  BY TargetFacts DEF Opened, OpenPhases, ExecPhases, ClosePhases, Sessions, Known
<1>4. OneCommand' /\ PipesApart'
  BY TargetFacts DEF OneCommand, LockHeld, HolderInside, InLock, PipesApart, Opened
<1>5. NoShellLost'
  <2> SUFFICES ASSUME NEW s \in Sessions, proc[s] = "running"
               PROVE  \/ s \in registry' \/ pc'[s] \in OpenPhases
                      \/ \E g \in Handlers : pc'[g] = "terminate" /\ target'[g] = s
    BY DEF CloseDrop, NoShellLost
  <2>1. CASE s = target[h] /\ s \in registry
    BY <2>1 DEF CloseDrop, Move, SessionsInv, TypeOK
  <2>2. CASE s # target[h] /\ s \in registry
    BY <2>2 DEF CloseDrop
  <2>3. CASE pc[s] \in OpenPhases
    BY <2>3 DEF CloseDrop, Move, Reply, SessionsInv, TypeOK, OpenPhases, Sessions
  <2>4. CASE \E g \in Handlers : pc[g] = "terminate" /\ target[g] = s
    BY <2>4 DEF CloseDrop, Move, Reply, SessionsInv, TypeOK
  <2> QED
    BY <2>1, <2>2, <2>3, <2>4 DEF SessionsInv, NoShellLost
<1>6. OrphanWasAbandoned'
  BY <1>1, <1>3, OrphanPrime
<1>7. ReportedIsEnded' /\ DropOrder'
  BY TargetFacts, ReportKept, DropKept
     DEF ExecPhases, ClosePhases, Sessions, ProcessStates
<1>8. ClosedOrder'
  BY TargetFacts, ClosedKept
     DEF ClosedOrder, NoShellLost, Opened, LockHeld, InLock, OpenPhases, ExecPhases,
         ClosePhases, ClosedUnder
<1>9. AbandonedCalled'
  BY TargetFacts DEF AbandonedCalled, Opened
<1> QED
  BY <1>1, <1>2, <1>3, <1>4, <1>5, <1>6, <1>7, <1>8, <1>9

LEMMA CloseTerminateStep ==
  ASSUME SessionsInv, Ratchet, NEW h \in Handlers, CloseTerminate(h)
  PROVE  CoreInv'
<1> USE HandlersAssumption DEF SessionsInv, CoreInv, background, TypeOK,
                               CloseTerminate, Reply, Terminated
<1>1. TypeOK'
  <2> HIDE DEF Terminated
  <2>1. target[h] \in Sessions
    BY TargetFacts DEF ClosePhases
  <2> QED
    BY <2>1, TerminatedFacts DEF Phases, Replies
<1>2. LockHeld' /\ HolderInside'
  BY TargetFacts DEF LockHeld, HolderInside, InLock
<1>3. Opened'
  BY TargetFacts DEF Opened, OpenPhases, ExecPhases, ClosePhases, Sessions, Known
<1>4. OneCommand' /\ PipesApart'
  BY TargetFacts DEF OneCommand, LockHeld, HolderInside, InLock, PipesApart, Opened
<1>5. NoShellLost'
  BY TargetFacts DEF NoShellLost, DropOrder, OpenPhases, Opened
<1>6. OrphanWasAbandoned'
  BY <1>1, <1>3, OrphanPrime
<1>7. ReportedIsEnded' /\ DropOrder'
  BY TargetFacts, ReportKept, DropKept
     DEF ExecPhases, ClosePhases, Sessions, ProcessStates
<1>8. ClosedOrder'
  BY TargetFacts, ClosedKept
     DEF ClosedOrder, NoShellLost, Opened, LockHeld, InLock, OpenPhases, ExecPhases,
         ClosePhases, ClosedUnder
<1>9. AbandonedCalled'
  BY TargetFacts DEF AbandonedCalled, Opened
<1> QED
  BY <1>1, <1>2, <1>3, <1>4, <1>5, <1>6, <1>7, <1>8, <1>9

LEMMA ShellRunsStep ==
  ASSUME SessionsInv, Ratchet, NEW s \in Sessions, ShellRuns(s)
  PROVE  CoreInv'
<1> USE HandlersAssumption DEF SessionsInv, CoreInv, background, TypeOK,
                               ShellRuns
<1>1. TypeOK'
  BY TargetFacts
     DEF Phases, OpenPhases, ExecPhases, ClosePhases, Replies, Errors, ProcessStates,
         Sessions, Known
<1>2. LockHeld' /\ HolderInside'
  BY TargetFacts DEF LockHeld, HolderInside, InLock
<1>3. Opened'
  BY TargetFacts DEF Opened, OpenPhases, ExecPhases, ClosePhases, Sessions, Known
<1>4. OneCommand' /\ PipesApart'
  BY TargetFacts DEF OneCommand, LockHeld, HolderInside, InLock, PipesApart, Opened
<1>5. NoShellLost'
  BY TargetFacts, ShellKept DEF OpenPhases, ExecPhases, ClosePhases, Sessions
<1>6. OrphanWasAbandoned'
  BY <1>1, <1>3, OrphanPrime
<1>7. ReportedIsEnded' /\ DropOrder'
  BY TargetFacts DEF ReportedIsEnded, Ratchet, Opened, DropOrder
<1>8. ClosedOrder'
  BY TargetFacts, ClosedKept
     DEF ClosedOrder, NoShellLost, Opened, LockHeld, InLock, OpenPhases, ExecPhases,
         ClosePhases, ClosedUnder
<1>9. AbandonedCalled'
  BY TargetFacts DEF AbandonedCalled, Opened
<1> QED
  BY <1>1, <1>2, <1>3, <1>4, <1>5, <1>6, <1>7, <1>8, <1>9

LEMMA ShellExitsStep ==
  ASSUME SessionsInv, Ratchet, NEW s \in Sessions, ShellExits(s)
  PROVE  CoreInv'
<1> USE HandlersAssumption DEF SessionsInv, CoreInv, background, TypeOK,
                               ShellExits
<1>1. TypeOK'
  BY TargetFacts
     DEF Phases, OpenPhases, ExecPhases, ClosePhases, Replies, Errors, ProcessStates,
         Sessions, Known
<1>2. LockHeld' /\ HolderInside'
  BY TargetFacts DEF LockHeld, HolderInside, InLock
<1>3. Opened'
  <2>1. PICK g \in running[s] \cup jobs[s] : TRUE
    BY DEF ShellExits
  <2>2. g \in Handlers /\ target[g] = s
    BY <2>1, HandlersAssumption
       DEF ShellExits, SessionsInv, TypeOK, OneCommand, HolderInside, JobsInv
  <2>3. pc[s] = "done" /\ reply[s] = "opened"
    BY <2>2, HandlersAssumption DEF SessionsInv, Opened, Sessions
  <2> QED
    BY <2>3, HandlersAssumption
       DEF SessionsInv, TypeOK, ShellExits, Opened, OpenPhases, ExecPhases, ClosePhases, Sessions
<1>4. OneCommand' /\ PipesApart'
  BY TargetFacts DEF OneCommand, LockHeld, HolderInside, InLock, PipesApart, Opened
<1>5. NoShellLost'
  BY TargetFacts, ShellKept DEF OpenPhases, ExecPhases, ClosePhases, Sessions
<1>6. OrphanWasAbandoned'
  BY <1>1, <1>3, OrphanPrime
<1>7. ReportedIsEnded' /\ DropOrder'
  BY TargetFacts DEF ReportedIsEnded, Ratchet, Opened, DropOrder
<1>8. ClosedOrder'
  BY TargetFacts, ClosedKept
     DEF ClosedOrder, NoShellLost, Opened, LockHeld, InLock, OpenPhases, ExecPhases,
         ClosePhases, ClosedUnder
<1>9. AbandonedCalled'
  BY TargetFacts DEF AbandonedCalled, Opened
<1> QED
  BY <1>1, <1>2, <1>3, <1>4, <1>5, <1>6, <1>7, <1>8, <1>9

LEMMA JobWritesStep ==
  ASSUME SessionsInv, Ratchet, NEW s \in Sessions, JobWrites(s)
  PROVE  CoreInv'
<1>1. UNCHANGED <<pc, target, reply, current, abandoned, registry, proc, holder, running,
                  output, jobs>>
  BY DEF JobWrites
<1>2. TypeOK' /\ LockHeld' /\ HolderInside' /\ Opened'
  BY <1>1 DEF SessionsInv, TypeOK, JobWrites, LockHeld, HolderInside, Opened
<1>3. OneCommand' /\ NoShellLost' /\ OrphanWasAbandoned' /\ ReportedIsEnded'
  BY <1>1 DEF SessionsInv, OneCommand, NoShellLost, OrphanWasAbandoned, Known,
              ReportedIsEnded
<1>4. DropOrder' /\ ClosedOrder' /\ PipesApart' /\ AbandonedCalled'
  BY <1>1 DEF SessionsInv, DropOrder, ClosedOrder, ClosedUnder, PipesApart,
              AbandonedCalled
<1> QED
  BY <1>2, <1>3, <1>4 DEF CoreInv

LEMMA ToolTimeoutStep ==
  ASSUME SessionsInv, Ratchet, ToolTimeout
  PROVE  CoreInv'
<1>1. TypeOK' /\ Opened'
  BY DEF ToolTimeout, background, SessionsInv, TypeOK, Opened
<1>2. LockHeld' /\ HolderInside' /\ OneCommand' /\ NoShellLost' /\ ReportedIsEnded' /\ PipesApart'
  BY DEF ToolTimeout, SessionsInv, LockHeld, HolderInside, OneCommand, NoShellLost,
         ReportedIsEnded, PipesApart
<1>3. OrphanWasAbandoned' /\ DropOrder' /\ ClosedOrder'
  BY <1>1, OrphanPrime DEF ToolTimeout, SessionsInv, DropOrder, ClosedOrder, ClosedUnder
<1>4. AbandonedCalled'
  BY DEF ToolTimeout, SessionsInv, TypeOK, AbandonedCalled, Opened
<1> QED
  BY <1>1, <1>2, <1>3, <1>4 DEF CoreInv

\* A step that starts no job and lets nobody read a shell that was not readable.
LEMMA JobsKept ==
  ASSUME SessionsInv, Ratchet,
         \A s \in Sessions : jobs'[s] \subseteq jobs[s] /\ stray'[s] \subseteq jobs'[s],
         \A s \in Sessions :
           \/ jobs[s] = {} \/ ~Readable(s)'
           \/ /\ Readable(s)
              /\ holder'[s] = holder[s] \/ reply'[holder[s]] = "result"
  PROVE  JobsInv'
<1> SUFFICES ASSUME NEW s \in Sessions, NEW g \in jobs'[s]
             PROVE  /\ target'[g] = s
                    /\ Readable(s)' => reply'[g] = "result" \/ holder'[s] = g
  BY DEF JobsInv
<1>1. g \in jobs[s] /\ g \in Handlers
  BY DEF SessionsInv, TypeOK
<1>2. target[g] = s /\ (Readable(s) => reply[g] = "result" \/ holder[s] = g)
  BY <1>1 DEF SessionsInv, JobsInv
<1>3. target'[g] = s
  BY <1>1, <1>2, HandlersAssumption DEF Ratchet, Sessions
<1>4. ASSUME Readable(s)'
      PROVE  reply'[g] = "result" \/ holder'[s] = g
  <2>1. Readable(s) /\ (holder'[s] = holder[s] \/ reply'[holder[s]] = "result")
    BY <1>1, <1>4
  <2> QED
    BY <1>1, <1>2, <2>1, HandlersAssumption DEF Ratchet, Replies
<1> QED
  BY <1>3, <1>4

\* The holder of a lock that is not taken or left stays where it was.
LEMMA JobsInLock ==
  ASSUME SessionsInv, Ratchet, NEW h \in Handlers,
         UNCHANGED <<holder, proc, jobs, stray>>,
         \A g \in Handlers \ {h} : pc'[g] = pc[g],
         pc'[h] \in {"write", "collect"} =>
           pc[h] \in {"write", "collect"} \/ (pc[h] \in InLock /\ proc[target[h]] = "running")
  PROVE  JobsInv'
<1>1. ASSUME NEW s \in Sessions, Readable(s)'
      PROVE  Readable(s)
  BY <1>1 DEF SessionsInv, TypeOK, LockHeld, HolderInside, Readable
<1> QED
  BY <1>1, JobsKept DEF SessionsInv, JobsInv

\* A handler that leaves the lock of a shell that has ended.
LEMMA JobsReleased ==
  ASSUME SessionsInv, Ratchet, NEW h \in Handlers, UNCHANGED <<proc, jobs, stray>>,
         Release(h), pc[h] \in InLock, pc'[h] = "done",
         \A g \in Handlers \ {h} : pc'[g] = pc[g],
         proc[target[h]] # "running"
  PROVE  JobsInv'
<1>1. target[h] \in Sessions /\ holder[target[h]] = h
  BY TargetFacts DEF InLock, ExecPhases, SessionsInv, LockHeld
<1>2. holder' = [holder EXCEPT ![target[h]] = None]
  BY DEF Release
<1>3. ASSUME NEW s \in Sessions, Readable(s)'
      PROVE  s # target[h] /\ Readable(s) /\ holder'[s] = holder[s]
  <2>1. s # target[h]
    BY <1>1, <1>2, <1>3 DEF Readable, SessionsInv, TypeOK
  <2>2. holder'[s] = holder[s] /\ holder[s] # h
    BY <1>1, <1>2, <2>1, HandlersAssumption DEF SessionsInv, TypeOK, HolderInside
  <2> QED
    BY <1>3, <2>1, <2>2 DEF Readable, SessionsInv, TypeOK
<1> QED
  BY <1>3, JobsKept DEF SessionsInv, JobsInv

\* Ending a shell ends its jobs.
LEMMA JobsTerminated ==
  ASSUME SessionsInv, Ratchet, NEW h \in Handlers, NEW s \in Sessions, Terminated(s),
         UNCHANGED holder, pc'[h] \notin {"write", "collect"},
         \A g \in Handlers \ {h} : pc'[g] = pc[g]
  PROVE  JobsInv'
<1>1. \A r \in Sessions :
        /\ jobs'[r] \subseteq jobs[r] /\ stray'[r] \subseteq jobs'[r]
        /\ proc'[r] = "running" => proc[r] = "running"
  BY DEF Terminated, background, SessionsInv, TypeOK, JobsInv
<1>2. ASSUME NEW r \in Sessions, Readable(r)'
      PROVE  Readable(r)
  BY <1>1, <1>2 DEF Readable, SessionsInv, TypeOK
<1> QED
  BY <1>1, <1>2, JobsKept

LEMMA JobsStep ==
  ASSUME SessionsInv, Ratchet, Next
  PROVE  JobsInv'
<1> USE HandlersAssumption
<1>1. ASSUME NEW h \in Handlers, Call(h)
      PROVE  JobsInv'
  <2>1. /\ UNCHANGED <<holder, jobs, stray>>
        /\ pc' \in [Handlers -> Phases] /\ pc'[h] \notin InLock
        /\ \A g \in Handlers \ {h} : pc'[g] = pc[g]
        /\ \A s \in Sessions : s # h => proc'[s] = proc[s]
    BY <1>1 DEF Call, background, SessionsInv, TypeOK, Phases, OpenPhases, ExecPhases,
                ClosePhases, InLock, Sessions
  <2>2. jobs[h] = {}
    <3>1. reply[h] = None /\ h \in Sessions
      BY <1>1, OpenFacts DEF Call, Sessions
    <3>2. \A g \in Handlers : target[g] # h
      BY <3>1 DEF SessionsInv, Opened, Replies
    <3> QED
      BY <3>1, <3>2 DEF SessionsInv, TypeOK, JobsInv
  <2>3. ASSUME NEW s \in Sessions, Readable(s)', s # h
        PROVE  Readable(s)
    BY <2>1, <2>3 DEF Readable, InLock, SessionsInv, TypeOK
  <2> QED
    BY <2>1, <2>2, <2>3, JobsKept DEF SessionsInv, JobsInv
<1>2. ASSUME NEW h \in Handlers, WaitReady(h) \/ Register(h) \/ GetSession(h)
      PROVE  JobsInv'
  BY <1>2, JobsInLock DEF WaitReady, Register, GetSession, Move, Reply, background,
                          SessionsInv, TypeOK
<1>3. ASSUME NEW h \in Handlers, AcquireLock(h)
      PROVE  JobsInv'
  <2>1. /\ holder[target[h]] = None /\ holder' = [holder EXCEPT ![target[h]] = h]
        /\ pc' = [pc EXCEPT ![h] = "poll"] /\ UNCHANGED <<proc, jobs, stray>>
    BY <1>3 DEF AcquireLock, Move, background
  <2>2. target[h] \in Sessions
    BY <1>3, TargetFacts DEF AcquireLock, ExecPhases
  <2>3. \A s \in Sessions : holder[s] # h
    BY <1>3 DEF AcquireLock, SessionsInv, HolderInside, InLock
  <2>4. ASSUME NEW s \in Sessions, Readable(s)'
        PROVE  Readable(s)
    BY <2>1, <2>2, <2>3, <2>4 DEF Readable, SessionsInv, TypeOK
  <2>5. \A s \in Sessions : holder'[s] = holder[s] \/ holder[s] = None
    BY <2>1, <2>2 DEF SessionsInv, TypeOK
  <2>6. ASSUME NEW s \in Sessions, holder[s] = None, Readable(s), NEW g \in jobs[s]
        PROVE  target'[g] = s /\ reply'[g] = "result"
    <3>1. target[g] = s /\ reply[g] = "result" /\ g \in Handlers
      BY <2>6 DEF SessionsInv, JobsInv, TypeOK
    <3> QED
      BY <2>6, <3>1 DEF Ratchet, Sessions, Replies
  <2>7. ASSUME NEW s \in Sessions, NEW g \in jobs'[s]
        PROVE  /\ target'[g] = s
               /\ Readable(s)' => reply'[g] = "result" \/ holder'[s] = g
    <3>1. g \in jobs[s] /\ g \in Handlers /\ target[g] = s /\ target'[g] = s
      BY <2>1, <2>7 DEF SessionsInv, TypeOK, JobsInv, Ratchet, Sessions
    <3>2. CASE holder[s] = None
      BY <2>4, <2>6, <3>1, <3>2
    <3>3. CASE holder'[s] = holder[s]
      BY <2>4, <3>1, <3>3 DEF SessionsInv, JobsInv, Ratchet, Replies
    <3> QED
      BY <2>5, <3>1, <3>2, <3>3
  <2> QED
    BY <2>1, <2>7 DEF SessionsInv, JobsInv
<1>4. ASSUME NEW h \in Handlers,
             Poll(h) \/ ProcessExited(h) \/ CommandTimesOut(h) \/ CloseDrop(h)
      PROVE  JobsInv'
  BY <1>4, JobsInLock DEF Poll, ProcessExited, CommandTimesOut, CloseDrop, Move, Reply,
                          background, InLock, SessionsInv, TypeOK
<1>5. ASSUME NEW h \in Handlers, WriteCommand(h)
      PROVE  JobsInv'
  <2>1. CASE proc[target[h]] = "running"
    BY <1>5, <2>1, JobsInLock DEF WriteCommand, Move, background, InLock, SessionsInv,
                                  TypeOK
  <2>2. CASE proc[target[h]] # "running"
    BY <1>5, <2>2, JobsReleased DEF WriteCommand, Reply, background, InLock, SessionsInv,
                                    TypeOK
  <2> QED
    BY <2>1, <2>2
<1>6. ASSUME NEW h \in Handlers, PipesClosed(h)
      PROVE  JobsInv'
  BY <1>6, JobsReleased DEF PipesClosed, Reply, background, InLock, SessionsInv, TypeOK
<1>7. ASSUME NEW h \in Handlers, DropSession(h)
      PROVE  JobsInv'
  <2>1. pc[h] \in {"dropExpired", "dropDead"} /\ proc[target[h]] # "running"
    BY <1>7 DEF DropSession, SessionsInv, DropOrder
  <2> QED
    BY <1>7, <2>1, JobsReleased DEF DropSession, Reply, background, InLock, SessionsInv,
                                    TypeOK
<1>8. ASSUME NEW h \in Handlers, StartFails(h)
      PROVE  JobsInv'
  BY <1>8, JobsTerminated DEF StartFails, Reply, Sessions, SessionsInv, TypeOK
<1>9. ASSUME NEW h \in Handlers, TerminateExpired(h) \/ CloseTerminate(h)
      PROVE  JobsInv'
  <2>1. target[h] \in Sessions
    BY <1>9, TargetFacts DEF TerminateExpired, CloseTerminate, Move, ExecPhases, ClosePhases
  <2> QED
    BY <1>9, <2>1, JobsTerminated DEF TerminateExpired, CloseTerminate, Move, Reply,
                                      SessionsInv, TypeOK
<1>10. ASSUME NEW h \in Handlers, CommandFinished(h)
       PROVE  JobsInv'
  <2>1. /\ pc[h] = "collect" /\ UNCHANGED <<proc, jobs>> /\ Release(h)
        /\ pc' = [pc EXCEPT ![h] = "done"] /\ reply' = [reply EXCEPT ![h] = "result"]
        /\ \E rest \in SUBSET stray[target[h]] :
             stray' = [stray EXCEPT ![target[h]] = rest]
    BY <1>10 DEF CommandFinished, Reply
  <2>2. target[h] \in Sessions /\ holder[target[h]] = h
    BY <2>1, TargetFacts DEF InLock, ExecPhases, SessionsInv, LockHeld
  <2>3. reply'[h] = "result"
    BY <2>1 DEF SessionsInv, TypeOK
  <2>4. \A s \in Sessions : jobs'[s] \subseteq jobs[s] /\ stray'[s] \subseteq jobs'[s]
    BY <2>1, <2>2 DEF SessionsInv, TypeOK, JobsInv
  <2>5. ASSUME NEW s \in Sessions, Readable(s)'
        PROVE  Readable(s) /\ (holder'[s] = holder[s] \/ reply'[holder[s]] = "result")
    <3>1. CASE s = target[h]
      BY <2>1, <2>2, <2>3, <3>1 DEF Readable
    <3>2. CASE s # target[h]
      <4>1. holder'[s] = holder[s] /\ holder[s] # h
        BY <2>1, <2>2, <3>2 DEF Release, SessionsInv, TypeOK, HolderInside
      <4> QED
        BY <2>1, <2>5, <4>1 DEF Readable, SessionsInv, TypeOK
    <3> QED
      BY <3>1, <3>2
  <2> QED
    BY <2>4, <2>5, JobsKept
<1>11. ASSUME NEW s \in Sessions, ShellRuns(s)
       PROVE  JobsInv'
  <2>1. PICK h \in running[s] :
          jobs' \in {jobs, [jobs EXCEPT ![s] = @ \cup {h}]}
    BY <1>11 DEF ShellRuns
  <2>2. proc[s] = "running" /\ UNCHANGED <<pc, target, reply, proc, holder, stray>>
    BY <1>11 DEF ShellRuns
  <2>3. h \in Handlers /\ holder[s] = h /\ target[h] = s
    BY <2>2 DEF SessionsInv, TypeOK, OneCommand, HolderInside
  <2>4. ASSUME NEW r \in Sessions
        PROVE  /\ stray'[r] \subseteq jobs'[r]
               /\ \A g \in jobs'[r] : g \in jobs[r] \/ (g = h /\ r = s)
    BY <2>1, <2>2 DEF SessionsInv, TypeOK, JobsInv
  <2> QED
    BY <2>2, <2>3, <2>4 DEF SessionsInv, JobsInv, Readable
<1>12. ASSUME NEW s \in Sessions, JobWrites(s)
       PROVE  JobsInv'
  BY <1>12 DEF JobWrites, SessionsInv, TypeOK, JobsInv, Readable
<1>13. ASSUME NEW s \in Sessions, ShellExits(s)
       PROVE  JobsInv'
  BY <1>13 DEF ShellExits, background, SessionsInv, TypeOK, JobsInv, Readable
<1>14. CASE ToolTimeout
  BY <1>14 DEF ToolTimeout, background, SessionsInv, JobsInv, Readable
<1> QED
  BY <1>1, <1>2, <1>3, <1>4, <1>5, <1>6, <1>7, <1>8, <1>9, <1>10, <1>11, <1>12, <1>13,
     <1>14
     DEF Next, HandlerStep

\* The holder of the lock reads what jobs have written.
LEMMA ForeignFollows ==
  ASSUME CoreInv', JobsInv'
  PROVE  ForeignOutput'
<1> SUFFICES ASSUME NEW h \in Handlers, pc'[h] = "collect", NEW g \in stray'[target'[h]],
                    target'[h] \in Sessions
             PROVE  target'[g] = target'[h] /\ (reply'[g] = "result" \/ g = h)
  BY DEF ForeignOutput, CoreInv, Opened, ExecPhases
<1>1. holder'[target'[h]] = h
  BY DEF CoreInv, LockHeld, InLock
<1> QED
  BY <1>1, HandlersAssumption DEF JobsInv, Readable

----------------------------------------------------------------------------
\* The initial states satisfy the invariant.
LEMMA InitInv == Init => SessionsInv
<1> SUFFICES ASSUME Init
             PROVE  SessionsInv
  OBVIOUS
<1>1. TypeOK
  BY DEF Init, TypeOK, Phases, ProcessStates
<1>2. LockHeld /\ HolderInside /\ OneCommand /\ NoShellLost /\ PipesApart
  BY HandlersAssumption
     DEF Init, LockHeld, HolderInside, OneCommand, NoShellLost, PipesApart, InLock,
                            Sessions
<1>3. Opened
  BY HandlersAssumption
     DEF Init, Opened, OpenPhases, ExecPhases, ClosePhases, Sessions, Replies
<1>4. OrphanWasAbandoned /\ ReportedIsEnded /\ DropOrder /\ ClosedOrder /\ AbandonedCalled
  BY HandlersAssumption
     DEF Init, OrphanWasAbandoned, ReportedIsEnded, DropOrder, ClosedOrder,
                            AbandonedCalled, Replies, Errors
<1>5. ForeignOutput /\ JobsInv
  BY DEF Init, ForeignOutput, JobsInv
<1> QED
  BY <1>1, <1>2, <1>3, <1>4, <1>5 DEF SessionsInv

\* Every step keeps it.
LEMMA NextInv == SessionsInv /\ [Next]_vars => SessionsInv'
<1> SUFFICES ASSUME SessionsInv, [Next]_vars
             PROVE  SessionsInv'
  OBVIOUS
<1>1. CASE Next
  <2>1. Ratchet
    BY <1>1, NextRatchet
  <2>2. CoreInv'
    BY <1>1, <2>1, ToolTimeoutStep, CallStep, WaitReadyStep, StartFailsStep,
       RegisterStep, GetSessionStep, AcquireLockStep, PollStep, WriteCommandStep,
       CommandFinishedStep, ProcessExitedStep, PipesClosedStep, CommandTimesOutStep,
       TerminateExpiredStep, DropSessionStep, CloseDropStep, CloseTerminateStep,
       ShellRunsStep, JobWritesStep, ShellExitsStep
       DEF Next, HandlerStep
  <2>3. JobsInv' /\ ForeignOutput'
    BY <1>1, <2>1, <2>2, JobsStep, ForeignFollows
  <2> QED
    BY <2>2, <2>3 DEF SessionsInv, CoreInv
<1>2. CASE UNCHANGED vars
  <2>1. TypeOK' /\ LockHeld' /\ HolderInside' /\ Opened'
    BY <1>2 DEF vars, background, SessionsInv, TypeOK, LockHeld, HolderInside, Opened
  <2>2. OneCommand' /\ NoShellLost' /\ OrphanWasAbandoned' /\ ReportedIsEnded'
    BY <1>2 DEF vars, SessionsInv, OneCommand, NoShellLost, OrphanWasAbandoned, Known,
                ReportedIsEnded
  <2>3. DropOrder' /\ ClosedOrder' /\ PipesApart' /\ AbandonedCalled'
    BY <1>2 DEF vars, SessionsInv, DropOrder, ClosedOrder, ClosedUnder, PipesApart,
                AbandonedCalled
  <2>4. ForeignOutput' /\ JobsInv'
    BY <1>2 DEF vars, background, SessionsInv, ForeignOutput, JobsInv, Readable
  <2> QED
    BY <2>1, <2>2, <2>3, <2>4 DEF SessionsInv
<1> QED
  BY <1>1, <1>2

\* Whatever handlers the executor has left behind, a result holds the output of its
\* own command and of background jobs whose commands have returned in the same
\* session, no running shell is lost, and a session reported as ended has ended.
THEOREM SessionsCorrect == Spec => []SessionsInv
BY InitInv, NextInv, PTL DEF Spec

\* Only a drop takes a call from dropExpired to its end.
LEMMA DropEnds ==
  ASSUME SessionsInv, Next, NEW h \in Handlers, pc[h] = "dropExpired", pc'[h] = "done"
  PROVE  DropSession(h)
<1>1. ASSUME NEW g \in Handlers, Call(g) \/ HandlerStep(g), g # h
      PROVE  pc'[h] = pc[h]
  <2>1. CASE Call(g)
    BY <1>1, <2>1 DEF Call, SessionsInv, TypeOK
  <2>2. CASE \/ WaitReady(g) \/ StartFails(g) \/ Register(g)
             \/ GetSession(g) \/ AcquireLock(g) \/ Poll(g)
    BY <1>1, <2>2
       DEF WaitReady, StartFails, Register, GetSession, AcquireLock, Poll, Move, Reply,
                      SessionsInv, TypeOK
  <2>3. CASE WriteCommand(g) \/ CommandFinished(g) \/ ProcessExited(g) \/ PipesClosed(g)
    BY <1>1, <2>3
       DEF WriteCommand, CommandFinished, ProcessExited, PipesClosed, Move, Reply,
                      SessionsInv, TypeOK
  <2>4. CASE CommandTimesOut(g) \/ TerminateExpired(g) \/ DropSession(g)
    BY <1>1, <2>4
       DEF CommandTimesOut, TerminateExpired, DropSession, Move, Reply, SessionsInv,
           TypeOK
  <2>5. CASE CloseDrop(g) \/ CloseTerminate(g)
    BY <1>1, <2>5 DEF CloseDrop, CloseTerminate, Move, Reply, SessionsInv, TypeOK
  <2> QED
    BY <1>1, <2>1, <2>2, <2>3, <2>4, <2>5 DEF HandlerStep
<1>2. Call(h) \/ HandlerStep(h) => DropSession(h)
  BY DEF HandlerStep, Call, WaitReady, StartFails, Register, GetSession, AcquireLock,
         Poll,
         WriteCommand, CommandFinished, ProcessExited, PipesClosed, CommandTimesOut,
         TerminateExpired, CloseDrop, CloseTerminate, Move
<1>3. ~ToolTimeout /\ \A s \in Sessions : ~ShellRuns(s) /\ ~JobWrites(s) /\ ~ShellExits(s)
  BY DEF ToolTimeout, ShellRuns, JobWrites, ShellExits
<1> QED
  BY <1>1, <1>2, <1>3 DEF Next

\* The report of an expired command is lost only to a close_cli_session that
\* took the session out of the registry meanwhile (_drop_session).
THEOREM TimeoutReported == Spec => TimeoutHiddenByClose
<1>1. ASSUME SessionsInv, [Next]_vars, NEW h \in Handlers, pc[h] = "dropExpired", pc'[h] = "done"
      PROVE  reply'[h] = "command_timed_out" \/ ClosedUnder(h)
  <2>1. DropSession(h)
    BY <1>1, DropEnds DEF vars
  <2>2. CASE target[h] \in registry
    BY <1>1, <2>1, <2>2 DEF DropSession, Reply, SessionsInv, TypeOK
  <2>3. CASE target[h] \notin registry
    BY <1>1, <2>3 DEF SessionsInv, ClosedOrder
  <2> QED
    BY <2>2, <2>3
<1>2. SessionsInv /\ [Next]_vars =>
        [\A h \in Handlers :
           pc[h] = "dropExpired" /\ pc'[h] = "done" =>
             reply'[h] = "command_timed_out" \/ ClosedUnder(h)]_vars
  BY <1>1
<1> QED
  BY <1>2, SessionsCorrect, PTL DEF Spec, TimeoutHiddenByClose
=============================================================================
