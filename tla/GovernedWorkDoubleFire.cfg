SPECIFICATION Spec
CONSTANTS
  w1 = w1  j1 = j1  j2 = j2  r1 = r1  r2 = r2  q1 = q1  q2 = q2
  u1 = u1  i1 = i1  id = id
  NoJob = NoJob  NoOwner = NoOwner  NoIntent = NoIntent  NoRequest = NoRequest
  Workers = {w1}
  IdOf <- OneWorker
  Jobs = {j1, j2}
  Durable = {j1, j2}
  Runs = {r1, r2}
  RunOf <- TwoRunOf
  Prev <- TwoPrev
  ApprovalOf <- TwoApprovalOf
  MaxAttempts = 1
  Requests = {q1}
  Deciders = {d1}
  Users = {u1}
  Intents = {i1}
  UserOf <- OneUserOf
  IntentOf <- OneIntentOf
  Versioned = {}
  MaxCrashes = 1
INVARIANTS ApprovalFiresOnce
CHECK_DEADLOCK FALSE
