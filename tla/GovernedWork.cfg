SPECIFICATION Spec
CONSTANTS
  w1 = w1  j1 = j1  j2 = j2  r1 = r1  r2 = r2  q1 = q1  q2 = q2
  u1 = u1  i1 = i1  id = id
  NoJob = NoJob  NoOwner = NoOwner  NoIntent = NoIntent  NoRequest = NoRequest
  Workers = {w1}
  IdOf <- OneWorker
  Jobs = {j1}
  Durable = {j1}
  Runs = {r1}
  RunOf <- OneRunOf
  Prev <- OnePrev
  ApprovalOf <- OneApprovalOf
  MaxAttempts = 2
  Requests = {q1, q2}
  Deciders = {d1}
  Users = {u1}
  Intents = {i1}
  UserOf <- VersionUserOf
  IntentOf <- VersionIntentOf
  Versioned = {q1, q2}
  MaxCrashes = 1
INVARIANTS ExecutedHasEffect
PROPERTIES QueueRefined
CHECK_DEADLOCK FALSE
