------------------------------- MODULE Inbox -------------------------------
(***************************************************************************)
(* What the ingress promises about the messages of a chat, without events, *)
(* redeliveries, files or threads: a message is taken in at most once, for *)
(* ever, and the messages taken in are answered one at a time, in that     *)
(* order.  A request to stop is a mark that takes its place in the line    *)
(* and is passed over.  The line is in memory: a crash empties it, and     *)
(* what was in it is not taken in again.                                   *)
(***************************************************************************)
EXTENDS Sequences

CONSTANTS Messages, Mark

VARIABLES
  taken,     \* messages that were ever taken in
  line,      \* messages taken in and not answered yet, oldest first
  answered   \* messages that were answered

inboxVars == <<taken, line, answered>>

Init ==
  /\ taken = {}
  /\ line = <<>>
  /\ answered = {}

TakeIn(m) ==
  /\ m \notin taken
  /\ taken' = taken \cup {m}
  /\ line' = Append(line, m)
  /\ UNCHANGED answered

PutMark ==
  /\ line' = Append(line, Mark)
  /\ UNCHANGED <<taken, answered>>

Pass ==
  /\ line # <<>>
  /\ Head(line) = Mark
  /\ line' = Tail(line)
  /\ UNCHANGED <<taken, answered>>

Answer ==
  /\ line # <<>>
  /\ Head(line) # Mark
  /\ answered' = answered \cup {Head(line)}
  /\ line' = Tail(line)
  /\ UNCHANGED taken

Crash ==
  /\ line' = <<>>
  /\ UNCHANGED <<taken, answered>>

Next == PutMark \/ Pass \/ Answer \/ Crash \/ \E m \in Messages : TakeIn(m)

Spec == Init /\ [][Next]_inboxVars
=============================================================================
