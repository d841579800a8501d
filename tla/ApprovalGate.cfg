SPECIFICATION FairSpec
CONSTANTS
  q1 = q1  q2 = q2  q3 = q3  u1 = u1  i1 = i1

  NoIntent = NoIntent  NoRequest = NoRequest
  Requests <- GateRequests
  Deciders = {d1, d2}
  Users = {u1}
  Intents = {i1}
  UserOf <- GateUserOf
  IntentOf <- GateIntentOf
  Versioned <- GateRequests
  MaxCrashes = 2
INVARIANTS TypeOK IntentFiresOnce ExecutedIffFired OneClaimant
PROPERTIES DecisionsAreFinal ClaimsResolve
CHECK_DEADLOCK FALSE
