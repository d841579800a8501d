SPECIFICATION Spec
CONSTANTS
  w1 = w1  w2 = w2  j1 = j1  j2 = j2  r1 = r1  a1 = a1  id = id
  NoJob = NoJob  NoOwner = NoOwner  NoApproval = NoApproval
  Workers <- RunWorkers
  IdOf <- RunIdOf
  Jobs <- RunJobs
  Durable <- RunJobs
  Runs = {r1}
  Approvals = {a1}
  RunOf <- RunRunOf
  Prev <- RunPrev
  ApprovalOf <- RunApprovalOf
  MaxAttempts = 2
INVARIANTS TypeOK EffectAtMostOnce EffectByCurrentClaim DoneIsCheckpointed StepsInOrder
PROPERTIES StaleWorkerHarmless ImplementsEffectOnce
CHECK_DEADLOCK FALSE
