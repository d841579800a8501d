SPECIFICATION Spec
CONSTANTS
  i1 = i1 locA = locA locB = locB t1 = t1 t2 = t2 Nowhere = Nowhere None = None t3 = t3
  i2 = i2 c1 = c1 w1 = w1 w2 = w2 w3 = w3 Done = Done p1 = p1 p2 = p2 r1 = r1 r2 = r2
  v1 = v1 v2 = v2 o1 = o1 o2 = o2 l1 = l1 l2 = l2 b1 = b1 c2 = c2 b2 = b2 steel = steel
  sub = sub fin = fin order1 = order1 bx = bx bz = bz item_p = item_p item_q = item_q
  item_r = item_r item_s = item_s
INVARIANTS
  CreditNotesReconcile
CHECK_DEADLOCK FALSE
