-------------------------- MODULE MCFeishuIngress --------------------------
EXTENDS FeishuIngress

CONSTANTS c1, c2, o1, k1, u1, m1

\* Two events of one message, an /oauth event, a card click and an event that
\* nobody supports.
MCKindOf ==
  [e \in Events |->
     CASE e \in {c1, c2} -> "chat"
       [] e = o1         -> "oauth"
       [] e = k1         -> "card"
       [] OTHER          -> "unsupported"]

MCMessageOf == [e \in Events |-> IF e \in {c1, c2} THEN m1 ELSE NoItem]

MCItems == {m1} \cup Events
=============================================================================
