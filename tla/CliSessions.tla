----------------------------- MODULE CliSessions -----------------------------
(***************************************************************************)
(* CliSessionManager (agent/cli_session.py) under the tool executor: the   *)
(* registry of persistent shells, their processes, and the handler threads *)
(* of open_cli_session, exec_cli_command and close_cli_session.            *)
(*                                                                         *)
(* The executor runs these tools one after the other, but it abandons a    *)
(* handler after timeout_seconds while the timeout of the command is the   *)
(* model's choice: a handler left behind still holds the shell its command *)
(* runs in when the next call arrives.  Each handler makes one call, and   *)
(* the session an open call creates is named after its handler.            *)
(*                                                                         *)
(* A command that ends in an ampersand is finished at once and leaves a    *)
(* job in the background of its shell: what it writes later is read with   *)
(* the output of a later command.  permissions.py lets it run unasked.     *)
(***************************************************************************)
EXTENDS Naturals

CONSTANTS
  Handlers,   \* handler threads, as numbers: one for each call, in their order
  None

Sessions == Handlers

VARIABLES
  pc,         \* what each handler does next
  target,     \* the session an exec or close call names
  reply,      \* the result or error kind of each call
  current,    \* the handler the executor waits for
  abandoned,  \* handlers the executor has given up
  registry,   \* keys of _sessions
  proc,       \* the process of each session
  holder,     \* the handler that holds the session's lock
  running,    \* commands each shell has been given and not finished
  output,     \* commands whose output and markers are in the pipes
  jobs,       \* commands that have left a job in the background of a shell
  stray       \* jobs whose later output is in the pipes

background == <<jobs, stray>>

vars == <<pc, target, reply, current, abandoned, registry, proc, holder,
          running, output, background>>

Errors == {"unknown_session", "session_not_running", "command_timed_out",
           "session_start_failed", "exception"}
Replies == {"opened", "result", "closed"} \cup Errors

ASSUME HandlersAssumption == None \notin Handlers /\ None \notin Replies
ASSUME OrderAssumption == Handlers \subseteq Nat

OpenPhases == {"starting", "ready", "failed"}
ExecPhases == {"get", "lock", "poll", "write", "collect", "expired", "dropExpired",
               "dropDead"}
ClosePhases == {"close", "terminate"}
Phases == {"new", "done"} \cup OpenPhases \cup ExecPhases \cup ClosePhases

\* "exited": ended by itself; "dead": terminated, its pipes closed.
ProcessStates == {"none", "running", "exited", "dead"}

Init ==
  /\ pc = [h \in Handlers |-> "new"]
  /\ target = [h \in Handlers |-> None]
  /\ reply = [h \in Handlers |-> None]
  /\ current = None
  /\ abandoned = {}
  /\ registry = {}
  /\ proc = [s \in Sessions |-> "none"]
  /\ holder = [s \in Sessions |-> None]
  /\ running = [s \in Sessions |-> {}]
  /\ output = [s \in Sessions |-> {}]
  /\ jobs = [s \in Sessions |-> {}]
  /\ stray = [s \in Sessions |-> {}]

\* Ids the model has been told.
Known == {s \in Sessions : reply[s] = "opened" /\ s \notin abandoned}

Move(h, from, to) ==
  /\ pc[h] = from
  /\ pc' = [pc EXCEPT ![h] = to]

Reply(h, r) ==
  /\ pc' = [pc EXCEPT ![h] = "done"]
  /\ reply' = [reply EXCEPT ![h] = r]
  /\ current' = IF current = h THEN None ELSE current

\* _terminate_process kills the process group: the shell and its jobs.  It has
\* nothing to do for a shell that has ended.
Terminated(s) ==
  IF proc[s] = "running"
  THEN /\ proc' = [proc EXCEPT ![s] = "dead"]
       /\ running' = [running EXCEPT ![s] = {}]
       /\ output' = [output EXCEPT ![s] = {}]
       /\ jobs' = [jobs EXCEPT ![s] = {}]
       /\ stray' = [stray EXCEPT ![s] = {}]
  ELSE UNCHANGED <<proc, running, output, background>>

\* Leaving "with session.lock".
Release(h) == holder' = [holder EXCEPT ![target[h]] = None]

----------------------------------------------------------------------------
(* The executor *)

Call(h) ==
  /\ current = None
  /\ pc[h] = "new"
  /\ \A g \in Handlers : pc[g] = "new" => h <= g
  /\ current' = h
  /\ \/ /\ pc' = [pc EXCEPT ![h] = "starting"]
        /\ proc' = [proc EXCEPT ![h] = "running"]
        /\ UNCHANGED target
     \/ \E s \in Known, op \in {"get", "close"} :
          /\ pc' = [pc EXCEPT ![h] = op]
          /\ target' = [target EXCEPT ![h] = s]
          /\ UNCHANGED proc
  /\ UNCHANGED <<reply, abandoned, registry, holder, running, output, background>>

ToolTimeout ==
  /\ current # None
  /\ abandoned' = abandoned \cup {current}
  /\ current' = None
  /\ UNCHANGED <<pc, target, reply, registry, proc, holder, running, output, background>>

----------------------------------------------------------------------------
(* open_session *)

\* The ready probe is answered in time, or not.
WaitReady(h) ==
  /\ \/ proc[h] = "running" /\ Move(h, "starting", "ready")
     \/ Move(h, "starting", "failed")
  /\ UNCHANGED <<target, reply, current, abandoned, registry, proc, holder, running,
                 output, background>>

StartFails(h) ==
  /\ pc[h] = "failed"
  /\ Terminated(h)
  /\ Reply(h, "session_start_failed")
  /\ UNCHANGED <<target, abandoned, registry, holder>>

Register(h) ==
  /\ pc[h] = "ready"
  /\ registry' = registry \cup {h}
  /\ Reply(h, "opened")
  /\ UNCHANGED <<target, abandoned, proc, holder, running, output, background>>

----------------------------------------------------------------------------
(* exec_command *)

GetSession(h) ==
  /\ pc[h] = "get"
  /\ \/ target[h] \in registry /\ Move(h, "get", "lock") /\ UNCHANGED <<reply, current>>
     \/ target[h] \notin registry /\ Reply(h, "unknown_session")
  /\ UNCHANGED <<target, abandoned, registry, proc, holder, running, output, background>>

\* Mutant: the lock of the session is not taken.
EnterUnlocked(h) ==
  /\ Move(h, "lock", "poll")
  /\ holder' = [holder EXCEPT ![target[h]] = h]
  /\ UNCHANGED <<target, reply, current, abandoned, registry, proc, running, output, background>>

AcquireLock(h) ==
  /\ pc[h] = "lock"
  /\ holder[target[h]] = None
  /\ Move(h, "lock", "poll")
  /\ holder' = [holder EXCEPT ![target[h]] = h]
  /\ UNCHANGED <<target, reply, current, abandoned, registry, proc, running, output, background>>

Poll(h) ==
  /\ pc[h] = "poll"
  /\ \/ proc[target[h]] = "running" /\ Move(h, "poll", "write")
     \/ proc[target[h]] # "running" /\ Move(h, "poll", "dropDead")
  /\ UNCHANGED <<target, reply, current, abandoned, registry, proc, holder, running,
                 output, background>>

\* Mutant: a broken pipe leaves the lock locked.
WriteCommandLocked(h) ==
  LET s == target[h] IN
  /\ pc[h] = "write"
  /\ \/ /\ proc[s] = "running"
        /\ running' = [running EXCEPT ![s] = @ \cup {h}]
        /\ Move(h, "write", "collect")
        /\ UNCHANGED <<reply, current>>
     \/ /\ proc[s] # "running"
        /\ Reply(h, "session_not_running")
        /\ UNCHANGED running
  /\ UNCHANGED <<target, abandoned, registry, proc, holder, output, background>>

\* The process may end after the poll: a broken pipe, or a pipe that
\* _terminate_process has closed.  Neither drops the session.
WriteCommand(h) ==
  LET s == target[h] IN
  /\ pc[h] = "write"
  /\ \/ /\ proc[s] = "running"
        /\ running' = [running EXCEPT ![s] = @ \cup {h}]
        /\ Move(h, "write", "collect")
        /\ UNCHANGED <<reply, current, holder>>
     \/ /\ proc[s] = "exited"
        /\ Reply(h, "session_not_running")
        /\ Release(h)
        /\ UNCHANGED running
     \/ /\ proc[s] = "dead"
        /\ Reply(h, "exception")
        /\ Release(h)
        /\ UNCHANGED running
  /\ UNCHANGED <<target, abandoned, registry, proc, output, background>>

\* Both end markers are there: what the pipes held before them is the result,
\* what has been read beyond them is lost, and the rest is read later.
CommandFinished(h) ==
  LET s == target[h] IN
  /\ pc[h] = "collect"
  /\ proc[s] \in {"running", "exited"}
  /\ h \in output[s]
  /\ output' = [output EXCEPT ![s] = {}]
  /\ \E rest \in SUBSET stray[s] : stray' = [stray EXCEPT ![s] = rest]
  /\ Reply(h, "result")
  /\ Release(h)
  /\ UNCHANGED <<target, abandoned, registry, proc, running, jobs>>

\* The process has ended without the markers.
ProcessExited(h) ==
  LET s == target[h] IN
  /\ pc[h] = "collect"
  /\ proc[s] \in {"exited", "dead"}
  /\ h \notin output[s]
  /\ Move(h, "collect", "dropDead")
  /\ UNCHANGED <<target, reply, current, abandoned, registry, proc, holder, running,
                 output, background>>

\* Reading from pipes that close_session has closed meanwhile.
PipesClosed(h) ==
  /\ pc[h] = "collect"
  /\ proc[target[h]] = "dead"
  /\ Reply(h, "exception")
  /\ Release(h)
  /\ UNCHANGED <<target, abandoned, registry, proc, running, output, background>>

\* Mutant: an expired command is left running.
CommandLeftRunning(h) ==
  /\ Move(h, "collect", "dropExpired")
  /\ UNCHANGED <<target, reply, current, abandoned, registry, holder, proc, running,
                 output, background>>

CommandTimesOut(h) ==
  /\ Move(h, "collect", "expired")
  /\ UNCHANGED <<target, reply, current, abandoned, registry, holder, proc, running,
                 output, background>>

TerminateExpired(h) ==
  /\ Move(h, "expired", "dropExpired")
  /\ Terminated(target[h])
  /\ UNCHANGED <<target, reply, current, abandoned, registry, holder>>

\* _drop_session in the except clause: when the session is gone, its error
\* takes the place of the one being handled.
DropSession(h) ==
  /\ \/ pc[h] = "dropExpired" /\ target[h] \in registry /\ Reply(h, "command_timed_out")
     \/ pc[h] = "dropDead" /\ target[h] \in registry /\ Reply(h, "session_not_running")
     \/ pc[h] \in {"dropExpired", "dropDead"} /\ target[h] \notin registry
          /\ Reply(h, "unknown_session")
  /\ registry' = registry \ {target[h]}
  /\ Release(h)
  /\ UNCHANGED <<target, abandoned, proc, running, output, background>>

----------------------------------------------------------------------------
(* close_session takes no lock of the session *)

CloseDrop(h) ==
  /\ pc[h] = "close"
  /\ \/ target[h] \in registry /\ Move(h, "close", "terminate") /\ UNCHANGED <<reply, current>>
     \/ target[h] \notin registry /\ Reply(h, "unknown_session")
  /\ registry' = registry \ {target[h]}
  /\ UNCHANGED <<target, abandoned, proc, holder, running, output, background>>

CloseTerminate(h) ==
  /\ pc[h] = "terminate"
  /\ Terminated(target[h])
  /\ Reply(h, "closed")
  /\ UNCHANGED <<target, abandoned, registry, holder>>

----------------------------------------------------------------------------
(* The shell *)

\* It runs what its stdin holds, one command after the other, and does not
\* wait for what a command has put into the background.
ShellRuns(s) ==
  /\ proc[s] = "running"
  /\ \E h \in running[s] :
       /\ running' = [running EXCEPT ![s] = @ \ {h}]
       /\ output' = [output EXCEPT ![s] = @ \cup {h}]
       /\ jobs' \in {jobs, [jobs EXCEPT ![s] = @ \cup {h}]}
  /\ UNCHANGED <<pc, target, reply, current, abandoned, registry, proc, holder, stray>>

\* A job writes to the pipes of its shell, even when the shell has ended.
JobWrites(s) ==
  /\ proc[s] \in {"running", "exited"}
  /\ \E h \in jobs[s] : stray' = [stray EXCEPT ![s] = @ \cup {h}]
  /\ UNCHANGED <<pc, target, reply, current, abandoned, registry, proc, holder,
                 running, output, jobs>>

\* A command, or a job, may end the shell it runs in.
ShellExits(s) ==
  /\ proc[s] = "running"
  /\ running[s] \cup jobs[s] # {}
  /\ proc' = [proc EXCEPT ![s] = "exited"]
  /\ running' = [running EXCEPT ![s] = {}]
  /\ UNCHANGED <<pc, target, reply, current, abandoned, registry, holder, output, background>>

HandlerStep(h) ==
  \/ WaitReady(h) \/ StartFails(h) \/ Register(h)
  \/ GetSession(h) \/ AcquireLock(h) \/ Poll(h) \/ WriteCommand(h)
  \/ CommandFinished(h) \/ ProcessExited(h) \/ PipesClosed(h)
  \/ CommandTimesOut(h) \/ TerminateExpired(h) \/ DropSession(h)
  \/ CloseDrop(h) \/ CloseTerminate(h)

Next ==
  \/ \E h \in Handlers : Call(h) \/ HandlerStep(h)
  \/ ToolTimeout
  \/ \E s \in Sessions : ShellRuns(s) \/ JobWrites(s) \/ ShellExits(s)

Spec == Init /\ [][Next]_vars

\* The threads run, and the deadline of a command comes.
FairSpec == Spec /\ \A h \in Handlers : WF_vars(HandlerStep(h))

----------------------------------------------------------------------------
(* Properties *)

TypeOK ==
  /\ pc \in [Handlers -> Phases]
  /\ target \in [Handlers -> Sessions \cup {None}]
  /\ reply \in [Handlers -> Replies \cup {None}]
  /\ current \in Handlers \cup {None}
  /\ abandoned \subseteq Handlers
  /\ registry \subseteq Sessions
  /\ proc \in [Sessions -> ProcessStates]
  /\ holder \in [Sessions -> Handlers \cup {None}]
  /\ running \in [Sessions -> SUBSET Handlers]
  /\ output \in [Sessions -> SUBSET Handlers]
  /\ jobs \in [Sessions -> SUBSET Handlers]
  /\ stray \in [Sessions -> SUBSET Handlers]

\* Phases of a handler that has a session in its hands.
InLock == {"poll", "write", "collect", "expired", "dropExpired", "dropDead"}

\* The lock of a session covers its handler from the poll to the drop, for
\* every way out of exec_command.
LockHeld ==
  \A h \in Handlers : pc[h] \in InLock => holder[target[h]] = h

HolderInside ==
  \A s \in Sessions : holder[s] # None => pc[holder[s]] \in InLock /\ target[holder[s]] = s

\* Sessions belong to open calls, and calls name sessions that were opened.
Opened ==
  /\ \A s \in Sessions :
       /\ s \in registry => reply[s] = "opened"
       /\ reply[s] = "opened" => proc[s] # "none" /\ pc[s] = "done"
       /\ pc[s] = "new" <=> reply[s] = None /\ proc[s] = "none" /\ target[s] = None
       /\ pc[s] \in OpenPhases => target[s] = None /\ proc[s] = "running" /\ reply[s] = None
  /\ \A h \in Handlers :
       /\ pc[h] \in ExecPhases \cup ClosePhases => target[h] \in Sessions /\ reply[h] = None
       /\ target[h] # None => reply[target[h]] = "opened" /\ proc[h] = "none"
       /\ reply[h] \notin {None, "opened", "session_start_failed"} => target[h] # None
  /\ current # None => pc[current] \notin {"new", "done"} /\ current \notin abandoned
  /\ \A h \in Handlers : pc[h] \notin {"new", "done"} => h = current \/ h \in abandoned

\* A shell has been given nothing but the command of the handler that holds
\* its lock, although calls are abandoned, expire and are closed while their
\* commands run (cli_session.py exec_command).
OneCommand ==
  \A s \in Sessions :
    proc[s] = "running" =>
      \A h \in running[s] \cup output[s] :
        holder[s] = h /\ pc[h] \in {"collect", "expired"}

\* What a handler reads besides the output of its own command was written by jobs
\* that commands of the same session have left behind, and whose own results have
\* been returned: never by a command that failed, timed out or still runs, nor in
\* another session (cli_session.py:216-225, 240-275).
ForeignOutput ==
  \A h \in Handlers :
    pc[h] = "collect" =>
      \A g \in stray[target[h]] : target[g] = target[h] /\ (reply[g] = "result" \/ g = h)

\* A shell that runs is in the registry, where a later call finds it, or a
\* handler is about to register or to terminate it (cli_session.py).
NoShellLost ==
  \A s \in Sessions :
    proc[s] = "running" =>
      \/ s \in registry
      \/ pc[s] \in OpenPhases
      \/ \E h \in Handlers : pc[h] = "terminate" /\ target[h] = s

\* A session that nobody can close any more, because its id was never
\* returned, comes from an open call the executor gave up.
OrphanWasAbandoned ==
  \A s \in registry : s \in Known \/ s \in abandoned

\* After close_cli_session or a timeout has been reported the shell has ended
\* and takes no further command.
ReportedIsEnded ==
  \A h \in Handlers :
    reply[h] \in {"closed", "command_timed_out", "session_not_running"} =>
      proc[target[h]] \in {"exited", "dead"}

\* Somebody closes, or has closed, the session h works on.
ClosedUnder(h) ==
  \E g \in Handlers : target[g] = target[h] /\ (pc[g] = "terminate" \/ reply[g] = "closed")

\* An expired command is reported as command_timed_out, unless the session has
\* been closed under it: then the error of _drop_session replaces the report.
TimeoutHiddenByClose ==
  [][\A h \in Handlers :
       pc[h] = "dropExpired" /\ pc'[h] = "done" =>
         reply'[h] = "command_timed_out" \/ ClosedUnder(h)]_vars

\* Every call returns, whatever its command does and whoever else works on
\* the session.
CallReturns == \A h \in Handlers : pc[h] \notin {"new", "done"} ~> pc[h] = "done"

\* A shell has ended before its session is dropped for it.
DropOrder ==
  \A h \in Handlers :
    pc[h] \in {"dropExpired", "dropDead"} => proc[target[h]] \in {"exited", "dead"}

\* Only a close takes the session of a running command out of the registry.
ClosedOrder ==
  \A h \in Handlers :
    pc[h] \in {"write", "collect", "expired", "dropExpired"} =>
      target[h] \in registry \/ ClosedUnder(h)

\* A command is in one pipe at a time, and in none before the shell starts.
PipesApart ==
  \A s \in Sessions :
    /\ proc[s] = "running" => running[s] \cap output[s] = {}
    /\ proc[s] = "none" => running[s] = {} /\ output[s] = {}

\* The pipes of a shell are read, or may be read later.
Readable(s) ==
  proc[s] = "running" \/ (holder[s] # None /\ pc[holder[s]] \in {"write", "collect"})

\* While its pipes are read, the jobs of a shell are those of commands that have
\* returned, or of the one whose result is awaited.
JobsInv ==
  \A s \in Sessions :
    /\ stray[s] \subseteq jobs[s]
    /\ \A g \in jobs[s] :
         target[g] = s /\ (Readable(s) => reply[g] = "result" \/ holder[s] = g)

AbandonedCalled == \A h \in abandoned : pc[h] # "new"

SessionsInv ==
  /\ TypeOK
  /\ LockHeld
  /\ HolderInside
  /\ Opened
  /\ OneCommand
  /\ ForeignOutput
  /\ NoShellLost
  /\ OrphanWasAbandoned
  /\ ReportedIsEnded
  /\ DropOrder
  /\ ClosedOrder
  /\ PipesApart
  /\ JobsInv
  /\ AbandonedCalled
=============================================================================
