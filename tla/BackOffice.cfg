SPECIFICATION Spec
CONSTANTS
  u1 = u1 u2 = u2 a1 = a1 a2 = a2 None = None user1 = user1 w1 = w1 w2 = w2 m1 = m1
  m2 = m2 p1 = p1 t1 = t1 t2 = t2 t3 = t3 Gone = Gone f1 = f1
INVARIANTS
  ConversationsKeepFaith OnlyTheEntitledAct WorkIsKept
CHECK_DEADLOCK FALSE
