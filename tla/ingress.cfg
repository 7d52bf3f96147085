SPECIFICATION FairSpec
CONSTANTS
  c1 = c1
  c2 = c2
  o1 = o1
  k1 = k1
  u1 = u1
  m1 = m1
  Events = {c1, c2, o1, k1, u1}
  NoEvent = NoEvent
  NoItem = NoItem
  Sentinel = Sentinel
  Items <- MCItems
  KindOf <- MCKindOf
  MessageOf <- MCMessageOf
  MaxRestarts = 1
  MaxFaults = 1
  MaxCrashes = 1
INVARIANTS IngressInv AckedIsTaken
PROPERTIES InboxImplemented ChatsAreAnswered
