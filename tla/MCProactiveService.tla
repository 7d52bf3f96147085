------------------------ MODULE MCProactiveService ------------------------
EXTENDS ProactiveService

\* Message 2 is posted in group 2, the others in group 1.
MCScopeOf == [m \in Messages |-> IF m = 2 /\ 2 \in Scopes THEN 2 ELSE 1]

\* All there is: the budget cuts what is in it to the oldest messages, so an older
\* window records nothing else.
MCGmWindows == {<<-1, 2>>}
=============================================================================
