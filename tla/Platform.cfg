SPECIFICATION FairSceneSpec
CONSTANTS
  Messages = {m1, m2}
  Webhooks = {m1}
  Workers = {w1, w2, w3}
  Hooks = {w1, w2}
  IdOf <- SharedId
  MaxAttempts = 2
  MaxResends = 1
  Txs = {t1, t2, t3}
  Rows = {r1}
  MaxAppends = 2
  NoJob = NoJob NoOwner = NoOwner NoApproval = NoApproval w1 = w1 id = id j1 = j1
  j2 = j2 r1 = r1 NoMessage = NoMessage Chain = Chain g1 = g1 t1 = t1 d1 = d1 d2 = d2
  a1 = a1 c1 = c1 None = None o1 = o1 o2 = o2 k1 = k1 k2 = k2 ann = ann ben = ben
  x1 = x1 x2 = x2 tok = tok call1 = call1 call2 = call2
INVARIANTS
  MessagesDeliveredOnce MessageStatusIsTrue ChainIsLinear CreationsAreVouched
  MembershipIsSound
PROPERTIES
  ClosedMessagesStay JobsSettle AllMessagesSettle TransactionsEnd
CHECK_DEADLOCK FALSE
