--------------------------- MODULE JobQueueProofs ---------------------------
(***************************************************************************)
(* Proofs about JobQueue, for any number of workers, jobs, runs, approvals *)
(* and attempts, and any assignment of worker ids.                         *)
(***************************************************************************)
EXTENDS JobQueue, TLAPS

\* What the invariants need of the constants.
LEMMA JobFacts ==
  /\ Durable \subseteq Jobs
  /\ MaxAttempts \in Nat
  /\ NoJob \notin Jobs
  /\ \A j \in Jobs : Gated(j) => ApprovalOf[j] \in Approvals
  BY ConstantsAssumption DEF Gated

\* The two ways a worker moves within ProcessOne keep its types.
LEMMA MoveTypes ==
  ASSUME TypeOK, NEW w \in Workers, NEW label \in PCs, Goto(w, label) \/ Return(w)
  PROVE  pc' \in [Workers -> PCs] /\ claim' \in [Workers -> Claims]
<1>1. NoClaim \in Claims
  BY DEF NoClaim, Claims
<1>2. "idle" \in PCs
  BY DEF PCs
<1> QED
  BY <1>1, <1>2 DEF TypeOK, Goto, Return

\* Types are kept by every transaction of the worker, the dispatcher and the
\* deciders; in particular a row is never claimed beyond max_attempts.
LEMMA TypeStep == TypeOK /\ ClaimsKnown /\ [Next]_vars => TypeOK'
<1> SUFFICES ASSUME TypeOK, ClaimsKnown, [Next]_vars PROVE TypeOK'
  OBVIOUS
<1> USE JobFacts DEF TypeOK, JobStatus, StepStatus, RunStatus, ApprovalStatus,
        rowVars, workerVars, runVars, approvalVars, effectVars
<1> DEFINE Memory == pc' \in [Workers -> PCs] /\ claim' \in [Workers -> Claims]
<1>1. ASSUME NEW w \in Workers, NEW j \in Jobs, ClaimRow(w, j) PROVE TypeOK'
  <2>1. Memory
    BY <1>1 DEF ClaimRow, Claims, PCs
  <2>2. token' \in [Jobs -> Nat] /\ live' \in [Jobs -> BOOLEAN] /\ DOMAIN owner' = Jobs
    BY <1>1 DEF ClaimRow, SweptOwner
  <2>3. status' \in [Jobs -> JobStatus] /\ attempts' \in [Jobs -> 0..MaxAttempts]
    BY <1>1 DEF ClaimRow, Claimable, SweptStatus
  <2> QED
    BY <1>1, <2>1, <2>2, <2>3 DEF ClaimRow
<1>2. ASSUME NEW w \in Workers, ClaimNone(w) PROVE TypeOK'
  BY <1>2 DEF ClaimNone, SweptStatus, SweptOwner
<1>3. ASSUME NEW w \in Workers, MarkRunRunning(w) \/ MarkStepRunning(w) \/ FailRun(w)
                                \/ FailStep(w) \/ CommitStep(w)
      PROVE TypeOK'
  <2>1. Memory
    BY <1>3, MoveTypes DEF MarkRunRunning, MarkStepRunning, FailRun, FailStep, CommitStep, PCs
  <2> QED
    BY <1>3, <2>1 DEF MarkRunRunning, MarkStepRunning, FailRun, FailStep, CommitStep
<1>4. ASSUME NEW w \in Workers, LoadPayload(w) \/ RefuseEffect(w) \/ BeginEffect(w)
      PROVE TypeOK'
  <2>1. Memory
    BY <1>4, MoveTypes DEF LoadPayload, RefuseEffect, BeginEffect, FailureLabel, PCs
  <2> QED
    BY <1>4, <2>1 DEF LoadPayload, RefuseEffect, BeginEffect
<1>5. ASSUME NEW w \in Workers, CommitEffect(w) \/ CommitUnanswered(w)
      PROVE TypeOK'
  <2>1. Memory
    BY <1>5, MoveTypes DEF CommitEffect, CommitUnanswered, FailureLabel, SuccessLabel, PCs
  <2>2. JobOf(w) \in Jobs
    BY <1>5 DEF ClaimsKnown, CommitEffect, CommitUnanswered
  <2> QED
    BY <1>5, <2>1, <2>2 DEF CommitEffect, CommitUnanswered, EffectOf
<1>6. ASSUME NEW w \in Workers, AbortEffect(w) \/ Crash(w) PROVE TypeOK'
  <2>1. Memory
    BY <1>6, MoveTypes DEF AbortEffect, Crash, FailureLabel, PCs
  <2>2. live' \in [Jobs -> BOOLEAN]
    BY <1>6 DEF AbortEffect, Crash
  <2> QED
    BY <1>6, <2>1, <2>2 DEF AbortEffect, Crash
<1>7. ASSUME NEW w \in Workers, FinishApproval(w) PROVE TypeOK'
  <2>1. Memory
    BY <1>7, MoveTypes DEF FinishApproval, PCs
  <2> QED
    BY <1>7, <2>1 DEF FinishApproval
<1>8. ASSUME NEW w \in Workers, Acknowledge(w) \/ Retry(w) PROVE TypeOK'
  <2>1. Memory
    BY <1>8, MoveTypes DEF Acknowledge, Retry, Finalize, PCs
  <2> QED
    BY <1>8, <2>1 DEF Acknowledge, Retry, Finalize
<1>9. ASSUME NEW w \in Workers, FencedOut(w) \/ HeartbeatLost(w) PROVE TypeOK'
  <2>1. Memory
    BY <1>9, MoveTypes DEF FencedOut, HeartbeatLost, PCs
  <2> QED
    BY <1>9, <2>1 DEF FencedOut, HeartbeatLost
<1>10. ASSUME NEW j \in Jobs, LeaseExpires(j) PROVE TypeOK'
  BY <1>10 DEF LeaseExpires
<1>11. ASSUME NEW a \in Approvals, ApprovalLapses(a) PROVE TypeOK'
  BY <1>11 DEF ApprovalLapses
<1>12. ASSUME NEW new \in [Approvals -> ApprovalStatus], ApprovalsDecided(new) PROVE TypeOK'
  BY <1>12 DEF ApprovalsDecided
<1>13. ASSUME NEW r \in Runs, Dispatch(r) PROVE TypeOK'
  BY <1>13 DEF Dispatch
<1>14. CASE UNCHANGED vars
  BY <1>14 DEF vars
<1> QED
  BY <1>1, <1>2, <1>3, <1>4, <1>5, <1>6, <1>7, <1>8, <1>9, <1>10, <1>11, <1>12, <1>13, <1>14
     DEF Next, WorkerNext, RunNext, TimeNext, HumanNext, Claim, Process

\* What a step does to the workers' memory: it claims, or it moves one busy
\* worker, which keeps or drops its claim, or it leaves the workers alone.
WorkerMoves(w) ==
  /\ pc[w] # "idle"
  /\ token' = token
  /\ \/ \E label \in PCs \ {"idle"} : pc' = [pc EXCEPT ![w] = label] /\ claim' = claim
     \/ pc' = [pc EXCEPT ![w] = "idle"] /\ claim' = [claim EXCEPT ![w] = NoClaim]

\* Each transaction of ProcessOne moves the worker that runs it and no token.
LEMMA ProcessMoves ==
  ASSUME NEW w \in Workers, Process(w)
  PROVE  WorkerMoves(w)
<1> USE DEF rowVars, Goto, Return, WorkerMoves, PCs
<1>1. CASE MarkRunRunning(w) \/ MarkStepRunning(w) \/ FailRun(w) \/ FailStep(w) \/ CommitStep(w)
  BY <1>1 DEF MarkRunRunning, MarkStepRunning, FailRun, FailStep, CommitStep
<1>2. CASE LoadPayload(w) \/ RefuseEffect(w) \/ BeginEffect(w)
  BY <1>2 DEF LoadPayload, RefuseEffect, BeginEffect, FailureLabel
<1>3. CASE CommitEffect(w) \/ CommitUnanswered(w) \/ AbortEffect(w)
  BY <1>3 DEF CommitEffect, CommitUnanswered, AbortEffect, FailureLabel, SuccessLabel
<1>4. CASE FinishApproval(w) \/ FencedOut(w)
  BY <1>4 DEF FinishApproval, FencedOut
<1>5. CASE Acknowledge(w) \/ Retry(w)
  BY <1>5 DEF Acknowledge, Retry, Finalize
<1> QED
  BY <1>1, <1>2, <1>3, <1>4, <1>5 DEF Process

\* Every step of the system, seen from the workers' memory.
LEMMA StepShape ==
  ASSUME [Next]_vars
  PROVE  \/ \E w \in Workers, j \in Jobs : ClaimRow(w, j)
         \/ \E w \in Workers : WorkerMoves(w)
         \/ UNCHANGED <<pc, claim, token>>
<1> USE DEF rowVars, workerVars
<1>1. ASSUME NEW w \in Workers, ClaimNone(w) PROVE UNCHANGED <<pc, claim, token>>
  BY <1>1 DEF ClaimNone
<1>2. ASSUME NEW w \in Workers, HeartbeatLost(w) \/ Crash(w) PROVE WorkerMoves(w)
  BY <1>2 DEF HeartbeatLost, Crash, Return, WorkerMoves
<1>3. ASSUME RunNext \/ TimeNext \/ HumanNext PROVE UNCHANGED <<pc, claim, token>>
  BY <1>3 DEF RunNext, TimeNext, HumanNext, Dispatch, LeaseExpires, ApprovalLapses, ApprovalsDecided
<1> QED
  BY <1>1, <1>2, <1>3, ProcessMoves DEF Next, WorkerNext, Claim, vars

\* A claim takes the row's next token, so claims stay known and tokens unique.
LEMMA ClaimStep ==
  TypeOK /\ ClaimsKnown /\ TokensUnique /\ [Next]_vars => ClaimsKnown' /\ TokensUnique'
<1> SUFFICES ASSUME TypeOK, ClaimsKnown, TokensUnique, [Next]_vars
             PROVE ClaimsKnown' /\ TokensUnique'
  OBVIOUS
<1> USE DEF TypeOK, Claims, NoClaim, ClaimsKnown, TokensUnique, JobOf
<1>1. ASSUME NEW w \in Workers, NEW j \in Jobs, ClaimRow(w, j)
      PROVE ClaimsKnown' /\ TokensUnique'
  <2>1. /\ \A v \in Workers \ {w} : claim'[v] = claim[v] /\ pc'[v] = pc[v]
        /\ claim'[w].job = j /\ claim'[w].token = token[j] + 1
        /\ token' = [token EXCEPT ![j] = token[j] + 1]
    BY <1>1 DEF ClaimRow
  <2>2. ClaimsKnown'
    BY <2>1
  <2>3. \A v \in Workers \ {w} : pc[v] # "idle" /\ JobOf(v) = j => claim[v].token < token[j] + 1
    OBVIOUS
  <2>4. TokensUnique'
    BY <2>1, <2>3
  <2> QED BY <2>2, <2>4
<1>2. ASSUME NEW w \in Workers, WorkerMoves(w) PROVE ClaimsKnown' /\ TokensUnique'
  <2>1. \A v \in Workers : pc'[v] # "idle" => pc[v] # "idle" /\ claim'[v] = claim[v]
    BY <1>2 DEF WorkerMoves
  <2>2. token' = token
    BY <1>2 DEF WorkerMoves
  <2> QED
    BY <2>1, <2>2
<1>3. CASE UNCHANGED <<pc, claim, token>>
  BY <1>3
<1> QED
  BY <1>1, <1>2, <1>3, StepShape

\* A worker takes the durable branches only for a durable job, and finishes an
\* approval only for a job that has one.
LEMMA BranchStep ==
  TypeOK /\ ClaimsKnown /\ BranchesMatch /\ [Next]_vars => BranchesMatch'
<1> SUFFICES ASSUME TypeOK, ClaimsKnown, BranchesMatch, [Next]_vars PROVE BranchesMatch'
  OBVIOUS
<1> USE JobFacts DEF TypeOK, BranchesMatch, ClaimsKnown, JobOf, rowVars, workerVars, runVars,
                     approvalVars, effectVars
<1>1. ASSUME NEW w \in Workers, NEW j \in Jobs, ClaimRow(w, j) PROVE BranchesMatch'
  BY <1>1 DEF ClaimRow
<1>2. ASSUME NEW w \in Workers, NEW label, Goto(w, label), pc[w] # "idle",
             label \in {"markRun", "markStep", "commitStep", "failStep", "failRun"}
               => JobOf(w) \in Durable,
             label = "finishApproval" => ApprovalOf[JobOf(w)] \in Approvals
      PROVE BranchesMatch'
  BY <1>2 DEF Goto
<1>3. ASSUME NEW w \in Workers, Return(w) PROVE BranchesMatch'
  BY <1>3 DEF Return
<1>4. ASSUME NEW w \in Workers, Process(w) PROVE BranchesMatch'
  <2>1. CASE MarkRunRunning(w) \/ MarkStepRunning(w) \/ FailRun(w) \/ FailStep(w) \/ CommitStep(w)
    BY <2>1, <1>2 DEF MarkRunRunning, MarkStepRunning, FailRun, FailStep, CommitStep
  <2>2. CASE LoadPayload(w) \/ RefuseEffect(w) \/ BeginEffect(w)
    BY <2>2, <1>2 DEF LoadPayload, RefuseEffect, BeginEffect, FailureLabel
  <2>3. CASE CommitEffect(w) \/ CommitUnanswered(w) \/ AbortEffect(w)
    BY <2>3, <1>2 DEF CommitEffect, CommitUnanswered, AbortEffect, FailureLabel, SuccessLabel
  <2>4. CASE FinishApproval(w)
    BY <2>4, <1>2 DEF FinishApproval
  <2>5. CASE Acknowledge(w) \/ Retry(w) \/ FencedOut(w)
    BY <2>5, <1>3 DEF Acknowledge, Retry, Finalize, FencedOut
  <2> QED
    BY <1>4, <2>1, <2>2, <2>3, <2>4, <2>5 DEF Process
<1>5. ASSUME NEW w \in Workers, HeartbeatLost(w) \/ Crash(w) PROVE BranchesMatch'
  BY <1>5, <1>3 DEF HeartbeatLost, Crash
<1>6. CASE UNCHANGED <<pc, claim>>
  BY <1>6
<1>7. ASSUME NEW w \in Workers, ClaimNone(w) PROVE BranchesMatch'
  BY <1>7, <1>6 DEF ClaimNone
<1>8. ASSUME RunNext \/ TimeNext \/ HumanNext PROVE BranchesMatch'
  BY <1>8, <1>6 DEF RunNext, TimeNext, HumanNext, Dispatch, LeaseExpires, ApprovalLapses, ApprovalsDecided
<1> QED
  BY <1>1, <1>4, <1>5, <1>6, <1>7, <1>8 DEF Next, WorkerNext, Claim, vars

\* Two workers cannot both own a row.
LEMMA OwnerUnique ==
  ASSUME TokensUnique, NEW v \in Workers, NEW w \in Workers,
         pc[v] # "idle", pc[w] # "idle", Owns(v), Owns(w), JobOf(v) = JobOf(w)
  PROVE  v = w
  BY DEF TokensUnique, Owns

\* The row lock of an open effect transaction keeps the row with its worker:
\* a claim skips it and a sweep does not match it.
LEMMA EffectOwnedStep ==
  TypeOK /\ ClaimsKnown /\ TokensUnique /\ EffectOwned /\ [Next]_vars => EffectOwned'
<1> SUFFICES ASSUME TypeOK, ClaimsKnown, TokensUnique, EffectOwned, [Next]_vars,
                    NEW v \in Workers, pc'[v] = "inEffect"
             PROVE Owns(v)'
  BY DEF EffectOwned
<1> USE JobFacts DEF rowVars, workerVars, runVars, approvalVars, effectVars
<1>1. ASSUME pc[v] = "inEffect", claim'[v] = claim[v],
             status'[JobOf(v)] = status[JobOf(v)], owner'[JobOf(v)] = owner[JobOf(v)],
             token'[JobOf(v)] = token[JobOf(v)]
      PROVE Owns(v)'
  BY <1>1 DEF EffectOwned, Owns, JobOf
<1>2. ASSUME NEW w \in Workers, NEW j \in Jobs, ClaimRow(w, j) PROVE Owns(v)'
  <2>1. v # w /\ pc[v] = "inEffect" /\ claim'[v] = claim[v]
    BY <1>2 DEF ClaimRow, TypeOK
  <2>2. JobOf(v) \in Jobs /\ JobOf(v) # j /\ ~Sweepable(JobOf(v))
    BY <1>2, <2>1 DEF ClaimRow, Claimable, Sweepable, Locked, ClaimsKnown
  <2> QED
    BY <1>1, <1>2, <2>1, <2>2 DEF ClaimRow, SweptStatus, SweptOwner, TypeOK
<1>3. ASSUME NEW w \in Workers, ClaimNone(w) PROVE Owns(v)'
  <2>1. pc[v] = "inEffect" /\ claim'[v] = claim[v]
    BY <1>3 DEF ClaimNone
  <2>2. JobOf(v) \in Jobs /\ ~Sweepable(JobOf(v))
    BY <2>1 DEF Sweepable, Locked, ClaimsKnown
  <2> QED
    BY <1>1, <1>3, <2>1, <2>2 DEF ClaimNone, SweptStatus, SweptOwner
<1>4. ASSUME UNCHANGED <<status, owner, token, pc, claim>> PROVE Owns(v)'
  BY <1>1, <1>4
<1>5. ASSUME NEW w \in Workers, BeginEffect(w) PROVE Owns(v)'
  BY <1>5, <1>1 DEF BeginEffect, Goto, Holds, Owns, JobOf, TypeOK
<1>6. ASSUME NEW w \in Workers, NEW label, label # "inEffect",
             UNCHANGED <<status, owner, token>>, Goto(w, label) \/ Return(w)
      PROVE Owns(v)'
  <2>1. v # w
    BY <1>6 DEF Goto, Return, TypeOK
  <2> QED
    BY <1>1, <1>6, <2>1 DEF Goto, Return, TypeOK
<1>7. ASSUME NEW w \in Workers, Acknowledge(w) \/ Retry(w) PROVE Owns(v)'
  <2>1. v # w /\ pc[v] = "inEffect" /\ claim'[v] = claim[v] /\ pc[w] # "idle"
    BY <1>7 DEF Acknowledge, Retry, Finalize, Return, TypeOK
  <2>2. JobOf(v) # JobOf(w)
    BY <1>7, <2>1, OwnerUnique DEF Acknowledge, Retry, Finalize, Holds, EffectOwned
  <2>3. JobOf(v) \in Jobs
    BY <2>1 DEF ClaimsKnown
  <2>4. /\ status'[JobOf(v)] = status[JobOf(v)]
        /\ owner'[JobOf(v)] = owner[JobOf(v)]
        /\ token' = token
    BY <1>7, <2>2, <2>3 DEF Acknowledge, Retry, Finalize, TypeOK
  <2> QED
    BY <1>1, <2>1, <2>4
<1>8. ASSUME NEW w \in Workers, Process(w) PROVE Owns(v)'
  <2>1. CASE MarkRunRunning(w) \/ MarkStepRunning(w) \/ FailRun(w) \/ FailStep(w) \/ CommitStep(w)
    BY <2>1, <1>6 DEF MarkRunRunning, MarkStepRunning, FailRun, FailStep, CommitStep
  <2>2. CASE LoadPayload(w) \/ RefuseEffect(w)
    BY <2>2, <1>6 DEF LoadPayload, RefuseEffect, FailureLabel
  <2>3. CASE CommitEffect(w) \/ CommitUnanswered(w) \/ AbortEffect(w)
    BY <2>3, <1>6 DEF CommitEffect, CommitUnanswered, AbortEffect, FailureLabel, SuccessLabel
  <2>4. CASE FinishApproval(w) \/ FencedOut(w)
    BY <2>4, <1>6 DEF FinishApproval, FencedOut
  <2> QED
    BY <1>5, <1>7, <1>8, <2>1, <2>2, <2>3, <2>4 DEF Process
<1>9. ASSUME NEW w \in Workers, HeartbeatLost(w) \/ Crash(w) PROVE Owns(v)'
  BY <1>9, <1>6 DEF HeartbeatLost, Crash
<1>10. ASSUME TimeNext \/ HumanNext PROVE Owns(v)'
  BY <1>10, <1>4 DEF TimeNext, HumanNext, LeaseExpires, ApprovalLapses, ApprovalsDecided
<1>11. ASSUME NEW r \in Runs, Dispatch(r) PROVE Owns(v)'
  <2>1. pc[v] = "inEffect" /\ claim'[v] = claim[v]
    BY <1>11 DEF Dispatch
  <2>2. JobOf(v) \in Jobs /\ status[JobOf(v)] = "processing"
    BY <2>1 DEF EffectOwned, Owns
  <2>3. status'[JobOf(v)] = status[JobOf(v)]
    BY <1>11, <2>2 DEF Dispatch, Queueable
  <2> QED
    BY <1>1, <1>11, <2>1, <2>3 DEF Dispatch
<1> QED
  BY <1>2, <1>3, <1>4, <1>8, <1>9, <1>10, <1>11 DEF Next, WorkerNext, RunNext, Claim, vars

-----------------------------------------------------------------------------
(* What a step does to one row, one checkpoint and the receipts.           *)

RowMoves(j) ==
  \/ status'[j] = status[j] /\ owner'[j] = owner[j] /\ token'[j] = token[j]
  \/ \E w \in Workers : ClaimRow(w, j)
  \/ Sweepable(j) /\ status'[j] = "failed"
  \/ j \in Durable /\ Queueable(j) /\ status'[j] = "pending"
  \/ \E w \in Workers :
       /\ Holds(w) /\ JobOf(w) = j
       /\ status'[j] \in {"done", "failed", "pending"}
       /\ status'[j] = "done" => pc[w] = "ack" /\ UNCHANGED <<steps, receipts>>

\* A row changes only by a claim, a sweep, a dispatch or its holder's finalize.
LEMMA RowShape ==
  ASSUME TypeOK, [Next]_vars, NEW j \in Jobs
  PROVE  RowMoves(j)
<1> USE DEF RowMoves, TypeOK, rowVars, workerVars, runVars, approvalVars, effectVars
<1>1. ASSUME NEW w \in Workers, NEW i \in Jobs, ClaimRow(w, i) PROVE RowMoves(j)
  <2>1. CASE i = j
    BY <1>1, <2>1
  <2>2. CASE i # j
    BY <1>1, <2>2 DEF ClaimRow, SweptStatus, SweptOwner
  <2> QED BY <2>1, <2>2
<1>2. ASSUME NEW w \in Workers, ClaimNone(w) PROVE RowMoves(j)
  BY <1>2 DEF ClaimNone, SweptStatus, SweptOwner
<1>3. ASSUME NEW w \in Workers, Acknowledge(w) \/ Retry(w) PROVE RowMoves(j)
  BY <1>3 DEF Acknowledge, Retry, Finalize
<1>4. ASSUME NEW r \in Runs, Dispatch(r) PROVE RowMoves(j)
  BY <1>4 DEF Dispatch
<1>5. CASE UNCHANGED <<status, owner, token>>
  BY <1>5
<1>6. ASSUME NEW w \in Workers, Process(w) PROVE RowMoves(j)
  <2>1. CASE MarkRunRunning(w) \/ MarkStepRunning(w) \/ FailRun(w) \/ FailStep(w) \/ CommitStep(w)
    BY <2>1, <1>5 DEF MarkRunRunning, MarkStepRunning, FailRun, FailStep, CommitStep
  <2>2. CASE LoadPayload(w) \/ RefuseEffect(w) \/ BeginEffect(w)
    BY <2>2, <1>5 DEF LoadPayload, RefuseEffect, BeginEffect
  <2>3. CASE CommitEffect(w) \/ CommitUnanswered(w) \/ AbortEffect(w)
    BY <2>3, <1>5 DEF CommitEffect, CommitUnanswered, AbortEffect
  <2>4. CASE FinishApproval(w) \/ FencedOut(w)
    BY <2>4, <1>5 DEF FinishApproval, FencedOut
  <2> QED
    BY <1>3, <1>6, <2>1, <2>2, <2>3, <2>4 DEF Process
<1>7. ASSUME NEW w \in Workers, HeartbeatLost(w) \/ Crash(w) PROVE RowMoves(j)
  BY <1>7, <1>5 DEF HeartbeatLost, Crash
<1>8. ASSUME TimeNext \/ HumanNext PROVE RowMoves(j)
  BY <1>8, <1>5 DEF TimeNext, HumanNext, LeaseExpires, ApprovalLapses, ApprovalsDecided
<1> QED
  BY <1>1, <1>2, <1>4, <1>5, <1>6, <1>7, <1>8 DEF Next, WorkerNext, RunNext, Claim, vars

StepMoves(j) ==
  \/ steps'[j] = steps[j]
  \/ steps[j] = "absent" /\ steps'[j] = "pending"
  \/ \E w \in Workers :
       /\ Holds(w) /\ JobOf(w) = j /\ pc[w] # "idle"
       /\ steps'[j] = "committed" => pc[w] = "commitStep"
       /\ steps'[j] # "committed" => pc'[w] # "ack"

\* A checkpoint changes when it is created and by its job's holder.
LEMMA CheckpointShape ==
  ASSUME TypeOK, [Next]_vars, NEW j \in Durable
  PROVE  StepMoves(j)
<1> USE DEF StepMoves, TypeOK, rowVars, workerVars, runVars, approvalVars, effectVars
<1>1. ASSUME NEW w \in Workers, MarkStepRunning(w) \/ FailStep(w) \/ CommitStep(w)
      PROVE StepMoves(j)
  BY <1>1 DEF MarkStepRunning, FailStep, CommitStep, Goto
<1>2. ASSUME NEW r \in Runs, Dispatch(r) PROVE StepMoves(j)
  BY <1>2 DEF Dispatch
<1>3. CASE UNCHANGED steps
  BY <1>3
<1>4. ASSUME NEW w \in Workers, Claim(w) PROVE StepMoves(j)
  BY <1>4, <1>3 DEF Claim, ClaimRow, ClaimNone
<1>5. ASSUME NEW w \in Workers, Process(w) PROVE StepMoves(j)
  <2>1. CASE MarkRunRunning(w) \/ FailRun(w)
    BY <2>1, <1>3 DEF MarkRunRunning, FailRun
  <2>2. CASE LoadPayload(w) \/ RefuseEffect(w) \/ BeginEffect(w)
    BY <2>2, <1>3 DEF LoadPayload, RefuseEffect, BeginEffect
  <2>3. CASE CommitEffect(w) \/ CommitUnanswered(w) \/ AbortEffect(w)
    BY <2>3, <1>3 DEF CommitEffect, CommitUnanswered, AbortEffect
  <2>4. CASE FinishApproval(w) \/ FencedOut(w) \/ Acknowledge(w) \/ Retry(w)
    BY <2>4, <1>3 DEF FinishApproval, FencedOut, Acknowledge, Retry, Finalize
  <2> QED
    BY <1>1, <1>5, <2>1, <2>2, <2>3, <2>4 DEF Process
<1>6. ASSUME NEW w \in Workers, HeartbeatLost(w) \/ Crash(w) PROVE StepMoves(j)
  BY <1>6, <1>3 DEF HeartbeatLost, Crash
<1>7. ASSUME TimeNext \/ HumanNext PROVE StepMoves(j)
  BY <1>7, <1>3 DEF TimeNext, HumanNext, LeaseExpires, ApprovalLapses, ApprovalsDecided
<1> QED
  BY <1>2, <1>3, <1>4, <1>5, <1>6, <1>7 DEF Next, WorkerNext, RunNext, vars

\* Receipts and effects change only together, in the open effect transaction.
LEMMA EffectShape ==
  ASSUME [Next]_vars
  PROVE  \/ UNCHANGED effectVars
         \/ \E w \in Workers : pc[w] = "inEffect" /\ EffectOf(JobOf(w))
<1> DEFINE Goal == \/ UNCHANGED effectVars
                   \/ \E w \in Workers : pc[w] = "inEffect" /\ EffectOf(JobOf(w))
<1> USE DEF rowVars, workerVars, runVars, approvalVars, effectVars
<1>1. ASSUME NEW w \in Workers, Claim(w) PROVE Goal
  BY <1>1 DEF Claim, ClaimRow, ClaimNone
<1>2. ASSUME NEW w \in Workers, Process(w) PROVE Goal
  <2>1. CASE MarkRunRunning(w) \/ MarkStepRunning(w) \/ FailRun(w) \/ FailStep(w) \/ CommitStep(w)
    BY <2>1 DEF MarkRunRunning, MarkStepRunning, FailRun, FailStep, CommitStep
  <2>2. CASE LoadPayload(w) \/ RefuseEffect(w) \/ BeginEffect(w) \/ AbortEffect(w)
    BY <2>2 DEF LoadPayload, RefuseEffect, BeginEffect, AbortEffect
  <2>3. CASE CommitEffect(w) \/ CommitUnanswered(w)
    BY <2>3 DEF CommitEffect, CommitUnanswered
  <2>4. CASE FinishApproval(w) \/ FencedOut(w) \/ Acknowledge(w) \/ Retry(w)
    BY <2>4 DEF FinishApproval, FencedOut, Acknowledge, Retry, Finalize
  <2> QED
    BY <1>2, <2>1, <2>2, <2>3, <2>4 DEF Process
<1>3. ASSUME NEW w \in Workers, HeartbeatLost(w) \/ Crash(w) PROVE Goal
  BY <1>3 DEF HeartbeatLost, Crash
<1>4. ASSUME RunNext \/ TimeNext \/ HumanNext PROVE Goal
  BY <1>4 DEF RunNext, TimeNext, HumanNext, Dispatch, LeaseExpires, ApprovalLapses, ApprovalsDecided
<1> QED
  BY <1>1, <1>2, <1>3, <1>4 DEF Next, WorkerNext, vars

\* The effect commits with its receipt or not at all, and receipts stay.
LEMMA EffectStep ==
  TypeOK /\ ClaimsKnown /\ EffectAtMostOnce /\ [Next]_vars
    => EffectAtMostOnce' /\ receipts \subseteq receipts'
<1> SUFFICES ASSUME TypeOK, ClaimsKnown, EffectAtMostOnce, [Next]_vars
             PROVE EffectAtMostOnce' /\ receipts \subseteq receipts'
  OBVIOUS
<1>1. CASE UNCHANGED effectVars
  BY <1>1 DEF effectVars, EffectAtMostOnce
<1>2. ASSUME NEW w \in Workers, pc[w] = "inEffect", EffectOf(JobOf(w))
      PROVE EffectAtMostOnce' /\ receipts \subseteq receipts'
  <2>1. JobOf(w) \in Jobs
    BY <1>2 DEF ClaimsKnown
  <2> QED
    BY <1>2, <2>1 DEF EffectOf, EffectAtMostOnce, TypeOK, effectVars
<1> QED
  BY <1>1, <1>2, EffectShape

-----------------------------------------------------------------------------
(* Checkpoints and receipts.                                               *)

\* Nobody gains a row except by claiming it, and a claim outdates every token.
LEMMA OwnsBackward ==
  ASSUME TypeOK, ClaimsKnown, [Next]_vars, NEW v \in Workers,
         pc[v] # "idle", claim'[v] = claim[v], Owns(v)'
  PROVE  Owns(v)
<1> DEFINE j == JobOf(v)
<1>1. j \in Jobs /\ claim[v].token <= token[j] /\ JobOf(v)' = j /\ claim[v].token \in Nat
  BY DEF ClaimsKnown, JobOf, TypeOK, Claims
<1>2. status'[j] = "processing" /\ token'[j] = claim[v].token /\ owner'[j] = IdOf[v]
  BY <1>1 DEF Owns
<1>3. ASSUME NEW w \in Workers, ClaimRow(w, j) PROVE FALSE
  <2>1. token'[j] = token[j] + 1
    BY <1>1, <1>3 DEF ClaimRow, TypeOK
  <2> QED
    BY <1>1, <1>2, <2>1 DEF TypeOK
<1>4. RowMoves(j)
  BY <1>1, RowShape
<1>5. status'[j] = status[j] /\ owner'[j] = owner[j] /\ token'[j] = token[j]
  BY <1>2, <1>3, <1>4 DEF RowMoves
<1> QED
  BY <1>1, <1>2, <1>5 DEF Owns

\* ProcessOne acknowledges only after the receipt exists and, for a step of a
\* run, after the checkpoint is written; nobody undoes either while it owns the row.
LEMMA AfterEffectStep ==
  IInv /\ [Next]_vars => AfterEffect'
<1> SUFFICES ASSUME IInv, [Next]_vars PROVE AfterEffect'
  OBVIOUS
<1> USE DEF IInv
<1>1. receipts \subseteq receipts'
  BY EffectStep
<1>2. ASSUME NEW v \in Workers, claim'[v] = claim[v], pc[v] \in {"finishApproval", "commitStep", "ack"}
      PROVE  JobOf(v)' \in receipts'
  BY <1>1, <1>2 DEF AfterEffect, JobOf
<1>3. ASSUME NEW v \in Workers, claim'[v] = claim[v], pc[v] = "ack", pc'[v] = "ack",
             Owns(v)', JobOf(v) \in Durable
      PROVE  steps'[JobOf(v)'] = "committed"
  <2>1. Owns(v) /\ JobOf(v)' = JobOf(v)
    BY <1>3, OwnsBackward DEF JobOf
  <2>2. steps[JobOf(v)] = "committed"
    BY <1>3, <2>1 DEF AfterEffect
  <2>3. StepMoves(JobOf(v))
    BY <1>3, CheckpointShape
  <2>4. ASSUME NEW w \in Workers, Holds(w), JobOf(w) = JobOf(v), pc[w] # "idle" PROVE w = v
    BY <1>3, <2>1, <2>4, OwnerUnique DEF Holds
  <2> QED
    BY <1>3, <2>1, <2>2, <2>3, <2>4 DEF StepMoves
<1> DEFINE Safe(v) ==
      /\ pc'[v] \in {"finishApproval", "commitStep", "ack"} => JobOf(v)' \in receipts'
      /\ (pc'[v] = "ack" /\ Owns(v)' /\ JobOf(v)' \in Durable) => steps'[JobOf(v)'] = "committed"
<1>4. ASSUME NEW v \in Workers, UNCHANGED <<pc[v], claim[v]>> PROVE Safe(v)
  BY <1>2, <1>3, <1>4 DEF JobOf
<1>5. ASSUME NEW v \in Workers, pc'[v] \notin {"finishApproval", "commitStep", "ack"} PROVE Safe(v)
  BY <1>5
<1>6. ASSUME NEW w \in Workers, NEW label, Goto(w, label) \/ Return(w),
             label \notin {"finishApproval", "commitStep", "ack"}, NEW v \in Workers
      PROVE Safe(v)
  BY <1>4, <1>5, <1>6 DEF Goto, Return, TypeOK
<1>7. ASSUME NEW w \in Workers, FinishApproval(w), NEW v \in Workers PROVE Safe(v)
  <2>1. CASE v = w
    BY <1>2, <1>7, <2>1 DEF FinishApproval, Goto, JobOf, TypeOK
  <2>2. CASE v # w
    BY <1>4, <1>7, <2>2 DEF FinishApproval, Goto, TypeOK
  <2> QED BY <2>1, <2>2
<1>8. ASSUME NEW w \in Workers, CommitStep(w), NEW v \in Workers PROVE Safe(v)
  <2>1. CASE v = w
    BY <1>2, <1>8, <2>1 DEF CommitStep, Goto, JobOf, TypeOK, BranchesMatch
  <2>2. CASE v # w
    BY <1>4, <1>8, <2>2 DEF CommitStep, Goto, TypeOK
  <2> QED BY <2>1, <2>2
<1>9. ASSUME NEW w \in Workers, CommitEffect(w), NEW v \in Workers PROVE Safe(v)
  <2>1. CASE v = w
    BY <1>9, <2>1 DEF CommitEffect, Goto, JobOf, TypeOK, EffectOf, effectVars, SuccessLabel
  <2>2. CASE v # w
    BY <1>4, <1>9, <2>2 DEF CommitEffect, Goto, TypeOK
  <2> QED BY <2>1, <2>2
<1>10. ASSUME NEW w \in Workers, NEW j \in Jobs, ClaimRow(w, j), NEW v \in Workers PROVE Safe(v)
  BY <1>4, <1>5, <1>10 DEF ClaimRow, TypeOK
<1>11. ASSUME UNCHANGED <<pc, claim>>, NEW v \in Workers PROVE Safe(v)
  BY <1>4, <1>11
<1>12. ASSUME NEW w \in Workers, Process(w), NEW v \in Workers PROVE Safe(v)
  <2>1. CASE MarkRunRunning(w) \/ MarkStepRunning(w) \/ FailRun(w) \/ FailStep(w)
    BY <2>1, <1>6 DEF MarkRunRunning, MarkStepRunning, FailRun, FailStep
  <2>2. CASE LoadPayload(w) \/ RefuseEffect(w) \/ BeginEffect(w)
    BY <2>2, <1>6 DEF LoadPayload, RefuseEffect, BeginEffect, FailureLabel
  <2>3. CASE CommitUnanswered(w) \/ AbortEffect(w)
    BY <2>3, <1>6 DEF CommitUnanswered, AbortEffect, FailureLabel
  <2>4. CASE FencedOut(w) \/ Acknowledge(w) \/ Retry(w)
    <3>1. Return(w)
      BY <2>4 DEF FencedOut, Acknowledge, Retry, Finalize
    <3>2. "idle" \notin {"finishApproval", "commitStep", "ack"}
      OBVIOUS
    <3> QED BY <1>6, <3>1, <3>2
  <2> QED
    BY <1>7, <1>8, <1>9, <1>12, <2>1, <2>2, <2>3, <2>4 DEF Process
<1>13. ASSUME NEW w \in Workers, HeartbeatLost(w) \/ Crash(w), NEW v \in Workers PROVE Safe(v)
  <2>1. Return(w)
    BY <1>13 DEF HeartbeatLost, Crash
  <2>2. "idle" \notin {"finishApproval", "commitStep", "ack"}
    OBVIOUS
  <2> QED BY <1>6, <2>1, <2>2
<1>14. ASSUME NEW w \in Workers, ClaimNone(w), NEW v \in Workers PROVE Safe(v)
  BY <1>11, <1>14 DEF ClaimNone, workerVars
<1>15. ASSUME RunNext \/ TimeNext \/ HumanNext, NEW v \in Workers PROVE Safe(v)
  BY <1>11, <1>15 DEF RunNext, TimeNext, HumanNext, Dispatch, LeaseExpires, ApprovalLapses,
                      ApprovalsDecided, workerVars
<1>16. \A v \in Workers : Safe(v)
  BY <1>10, <1>11, <1>12, <1>13, <1>14, <1>15 DEF Next, WorkerNext, Claim, vars
<1> QED
  BY <1>16 DEF AfterEffect

\* A committed checkpoint has a receipt.
LEMMA CheckpointStep ==
  IInv /\ [Next]_vars => CommittedHasReceipt'
<1> SUFFICES ASSUME IInv, [Next]_vars, NEW j \in Durable, steps'[j] = "committed"
             PROVE j \in receipts'
  BY DEF CommittedHasReceipt
<1>1. receipts \subseteq receipts'
  BY EffectStep DEF IInv
<1>2. StepMoves(j)
  BY CheckpointShape DEF IInv
<1> QED
  BY <1>1, <1>2 DEF StepMoves, IInv, CommittedHasReceipt, AfterEffect

\* A done job keeps its receipt and its checkpoint.
LEMMA DoneStep ==
  IInv /\ [Next]_vars => DoneIsCheckpointed'
<1> SUFFICES ASSUME IInv, [Next]_vars, NEW j \in Jobs, status'[j] = "done"
             PROVE j \in receipts' /\ (j \in Durable => steps'[j] = "committed")
  BY DEF DoneIsCheckpointed
<1>1. receipts \subseteq receipts'
  BY EffectStep DEF IInv
<1>2. CASE status[j] = "done"
  <2>1. j \in receipts /\ (j \in Durable => steps[j] = "committed")
    BY <1>2 DEF IInv, DoneIsCheckpointed
  <2>2. \A w \in Workers : ~(Holds(w) /\ JobOf(w) = j)
    BY <1>2 DEF Holds, Owns
  <2>3. j \in Durable => StepMoves(j)
    BY CheckpointShape DEF IInv
  <2> QED
    BY <1>1, <2>1, <2>2, <2>3 DEF StepMoves
<1>3. CASE status[j] # "done"
  <2>1. \A w \in Workers : ~ClaimRow(w, j)
    BY DEF ClaimRow, SweptStatus
  <2>2. PICK w \in Workers : /\ Holds(w) /\ JobOf(w) = j
                             /\ pc[w] = "ack" /\ UNCHANGED <<steps, receipts>>
    BY <1>3, <2>1, RowShape DEF RowMoves, IInv
  <2> QED
    BY <2>2 DEF IInv, AfterEffect, Holds
<1> QED
  BY <1>2, <1>3

\* A step enters the queue only when its predecessor's receipt exists.
LEMMA OrderStep ==
  IInv /\ [Next]_vars => StepsInOrder'
<1> SUFFICES ASSUME IInv, [Next]_vars, NEW j \in Durable, Prev[j] # NoJob, status'[j] # "absent"
             PROVE Prev[j] \in receipts'
  BY DEF StepsInOrder
<1>1. receipts \subseteq receipts'
  BY EffectStep DEF IInv
<1>2. j \in Jobs
  BY JobFacts
<1>3. RowMoves(j)
  BY <1>2, RowShape DEF IInv
<1>4. CASE status[j] # "absent"
  BY <1>1, <1>4 DEF IInv, StepsInOrder
<1>5. CASE status[j] = "absent"
  <2>1. Queueable(j)
    BY <1>3, <1>5 DEF RowMoves, ClaimRow, Claimable, Sweepable, Holds, Owns
  <2> QED
    BY <1>1, <2>1 DEF Queueable, IInv, CommittedHasReceipt
<1> QED
  BY <1>4, <1>5

-----------------------------------------------------------------------------
(* The theorems.                                                           *)

\* The queue starts empty, so nothing is claimed and nothing has happened.
LEMMA InitInv == Init => IInv
<1> SUFFICES ASSUME Init PROVE IInv
  OBVIOUS
<1> USE JobFacts DEF Init
<1>1. TypeOK
  BY DEF TypeOK, JobStatus, StepStatus, RunStatus, ApprovalStatus, PCs, Claims, NoClaim
<1>2. ClaimsKnown /\ TokensUnique /\ BranchesMatch /\ EffectOwned /\ AfterEffect
  BY DEF ClaimsKnown, TokensUnique, BranchesMatch, EffectOwned, AfterEffect
<1>3. CommittedHasReceipt /\ EffectAtMostOnce /\ DoneIsCheckpointed
  BY DEF CommittedHasReceipt, EffectAtMostOnce, DoneIsCheckpointed
<1>4. StepsInOrder
  BY DEF StepsInOrder
<1> QED
  BY <1>1, <1>2, <1>3, <1>4 DEF IInv

\* Every transaction, crash and clock tick keeps the inductive invariant.
LEMMA StepInv == IInv /\ [Next]_vars => IInv'
<1> SUFFICES ASSUME IInv, [Next]_vars PROVE IInv'
  OBVIOUS
<1>1. TypeOK' /\ ClaimsKnown' /\ TokensUnique' /\ BranchesMatch' /\ EffectOwned' /\ EffectAtMostOnce'
  BY TypeStep, ClaimStep, BranchStep, EffectOwnedStep, EffectStep DEF IInv
<1>2. AfterEffect' /\ CommittedHasReceipt' /\ DoneIsCheckpointed' /\ StepsInOrder'
  BY AfterEffectStep, CheckpointStep, DoneStep, OrderStep
<1> QED
  BY <1>1, <1>2 DEF IInv

\* IInv holds in every reachable state of the queue.
THEOREM Invariance == Spec => []IInv
  BY InitInv, StepInv, PTL DEF Spec

\* Every variable keeps its type; in particular no row is delivered more than
\* max_attempts times (claim_capability_job's attempts < max_attempts).
THEOREM TypeCorrect == Spec => []TypeOK
<1>1. IInv => TypeOK
  BY DEF IInv
<1> QED BY <1>1, Invariance, PTL

\* For any number of workers and redeliveries, the business effect of a job
\* commits at most once and exactly with its receipt (executeWithFinalizer).
THEOREM AtMostOnce == Spec => []EffectAtMostOnce
<1>1. IInv => EffectAtMostOnce
  BY DEF IInv
<1> QED BY <1>1, Invariance, PTL

\* An open effect transaction belongs to the row's present fencing token and
\* is the only one of its job (requireSystemJobLease's lock and check).
THEOREM CurrentClaimOnly == Spec => []EffectByCurrentClaim
<1>1. IInv => EffectByCurrentClaim
  <2> SUFFICES ASSUME IInv, NEW v \in Workers, NEW w \in Workers, pc[w] = "inEffect"
               PROVE Owns(w) /\ ((pc[v] = "inEffect" /\ JobOf(v) = JobOf(w)) => v = w)
    BY DEF EffectByCurrentClaim
  <2>1. \A u \in Workers : pc[u] = "inEffect" => Owns(u)
    BY DEF IInv, EffectOwned
  <2> QED
    BY <2>1, OwnerUnique DEF IInv
<1> QED BY <1>1, Invariance, PTL

\* A job reported done has its receipt and its checkpoint (ProcessOne's order).
THEOREM DoneMeansCheckpointed == Spec => []DoneIsCheckpointed
<1>1. IInv => DoneIsCheckpointed
  BY DEF IInv
<1> QED BY <1>1, Invariance, PTL

\* No step of a run is queued before the step it follows had its effect
\* (CreateAndDispatch).
THEOREM OrderedSteps == Spec => []StepsInOrder
<1>1. IInv => StepsInOrder
  BY DEF IInv
<1> QED BY <1>1, Invariance, PTL

\* A worker that lost its claim writes nothing, whatever it was doing when it
\* lost it and whoever shares its id.
THEOREM StaleWorkersHarmless == Spec => StaleWorkerHarmless
<1> DEFINE Quiet == UNCHANGED <<rowVars, runVars, approvalVars, effectVars>>
           Harmless == \A w \in Workers : (pc[w] # "idle" /\ pc'[w] # pc[w] /\ ~Owns(w)) => Quiet
<1>1. ASSUME IInv, [Next]_vars PROVE Harmless
  <2> SUFFICES ASSUME NEW w \in Workers, pc[w] # "idle", pc'[w] # pc[w], ~Owns(w)
               PROVE Quiet
    OBVIOUS
  <2> USE <1>1 DEF IInv, TypeOK
  <2>1. ~Holds(w) /\ pc[w] # "inEffect"
    BY DEF Holds, EffectOwned
  <2>2. ASSUME NEW v \in Workers, Claim(v) PROVE FALSE
    BY <2>2 DEF Claim, ClaimRow, ClaimNone, workerVars
  <2>3. ASSUME NEW v \in Workers, Process(v) \/ HeartbeatLost(v) \/ Crash(v) PROVE v = w
    <3>1. WorkerMoves(v)
      <4>1. CASE HeartbeatLost(v) \/ Crash(v)
        BY <4>1 DEF HeartbeatLost, Crash, Return, WorkerMoves, rowVars
      <4>2. CASE Process(v)
        BY <4>2, ProcessMoves
      <4> QED BY <2>3, <4>1, <4>2
    <3> QED BY <3>1 DEF WorkerMoves
  <2>4. CASE Process(w)
    <3>1. ~CommitEffect(w) /\ ~CommitUnanswered(w) /\ ~AbortEffect(w)
      BY <2>1 DEF CommitEffect, CommitUnanswered, AbortEffect
    <3>2. ~MarkRunRunning(w) /\ ~MarkStepRunning(w) /\ ~FinishApproval(w) /\ ~CommitStep(w)
          /\ ~FailStep(w) /\ ~FailRun(w) /\ ~BeginEffect(w) /\ ~Acknowledge(w) /\ ~Retry(w)
      BY <2>1 DEF MarkRunRunning, MarkStepRunning, FinishApproval, CommitStep, FailStep, FailRun,
                  BeginEffect, Acknowledge, Retry, Finalize
    <3> QED
      BY <2>4, <3>1, <3>2 DEF Process, LoadPayload, RefuseEffect, FencedOut
  <2>5. CASE HeartbeatLost(w) \/ Crash(w)
    BY <2>1, <2>5 DEF HeartbeatLost, Crash, rowVars
  <2>6. CASE RunNext \/ TimeNext \/ HumanNext
    BY <2>6 DEF RunNext, TimeNext, HumanNext, Dispatch, LeaseExpires, ApprovalLapses,
                ApprovalsDecided, workerVars
  <2> QED
    BY <2>2, <2>3, <2>4, <2>5, <2>6 DEF Next, WorkerNext, vars
<1>2. IInv /\ [Next]_vars => [Harmless]_vars
  BY <1>1
<1>3. StaleWorkerHarmless <=> [][Harmless]_vars
  BY PTL DEF StaleWorkerHarmless
<1> QED
  BY <1>2, <1>3, Invariance, PTL DEF Spec

-----------------------------------------------------------------------------
(* The queue implements EffectOnce.                                        *)

\* What a step does to the abstract outcome when it touches no receipt.
LEMMA OutcomeKept ==
  ASSUME UNCHANGED <<status, effectVars>>
  PROVE  UNCHANGED Abstract!vars
  BY DEF Abstract!vars, Outcome, effectVars

\* A sweep gives up on exactly the rows it fails.
LEMMA SweepGivesUp ==
  ASSUME TypeOK, UNCHANGED effectVars, NEW i \in Jobs \cup {NoJob},
         i \in Jobs => Claimable(i),
         status' = [j \in Jobs |-> IF j = i THEN "processing" ELSE SweptStatus[j]]
  PROVE  Abstract!Next
<1> DEFINE S == {j \in Jobs : Sweepable(j)}
<1>1. \A j \in S : Outcome[j] = "open"
  BY DEF Sweepable, Outcome
<1>2. i \notin S
  <2>1. i \in Jobs => attempts[i] \in Nat /\ MaxAttempts \in Nat /\ attempts[i] < MaxAttempts
    BY JobFacts DEF Claimable, TypeOK
  <2> QED
    BY <2>1 DEF Sweepable
<1>3. Outcome' = [j \in Jobs |-> IF j \in S THEN "failed" ELSE Outcome[j]]
  <2>1. \A j \in Jobs : j \notin S /\ j # i => status'[j] = status[j]
    BY DEF SweptStatus
  <2>2. \A j \in S : status'[j] = "failed"
    BY <1>2 DEF SweptStatus
  <2>3. i \in Jobs => status'[i] = "processing" /\ status[i] \in {"pending", "processing"}
    BY DEF Claimable
  <2> QED
    BY <2>1, <2>2, <2>3 DEF Outcome
<1>4. Abstract!GiveUp(S)
  BY <1>1, <1>3 DEF Abstract!GiveUp, effectVars
<1> QED
  BY <1>4 DEF Abstract!Next

\* Every step of the queue is a step of EffectOnce or leaves it unchanged.
LEMMA RefinementStep ==
  IInv /\ [Next]_vars => [Abstract!Next]_(Abstract!vars)
<1> SUFFICES ASSUME IInv, [Next]_vars PROVE Abstract!Next \/ UNCHANGED Abstract!vars
  OBVIOUS
<1> USE DEF IInv, rowVars, workerVars, runVars, approvalVars
<1>1. ASSUME NEW w \in Workers, NEW j \in Jobs, ClaimRow(w, j) PROVE Abstract!Next
  <2>1. status' = [i \in Jobs |-> IF i = j THEN "processing" ELSE SweptStatus[i]]
    BY <1>1 DEF ClaimRow, SweptStatus
  <2> QED
    BY <1>1, <2>1, SweepGivesUp DEF ClaimRow
<1>2. ASSUME NEW w \in Workers, ClaimNone(w) PROVE Abstract!Next
  <2>1. status' = [i \in Jobs |-> IF i = NoJob THEN "processing" ELSE SweptStatus[i]]
    BY <1>2, JobFacts DEF ClaimNone, SweptStatus
  <2> QED
    BY <1>2, <2>1, SweepGivesUp, JobFacts DEF ClaimNone
<1>3. ASSUME NEW w \in Workers, CommitEffect(w) \/ CommitUnanswered(w)
      PROVE Abstract!Next \/ UNCHANGED Abstract!vars
  <2>1. /\ EffectOf(JobOf(w)) /\ UNCHANGED status
        /\ JobOf(w) \in Jobs /\ status[JobOf(w)] = "processing"
    BY <1>3 DEF CommitEffect, CommitUnanswered, EffectOwned, Owns
  <2>2. CASE JobOf(w) \in receipts
    BY <2>1, <2>2, OutcomeKept DEF EffectOf
  <2>3. CASE JobOf(w) \notin receipts
    <3>1. Outcome' = Outcome /\ Outcome[JobOf(w)] = "open"
      BY <2>1 DEF Outcome
    <3>2. Abstract!Fire(JobOf(w))
      BY <2>1, <2>3, <3>1 DEF EffectOf, Abstract!Fire
    <3> QED BY <2>1, <3>2 DEF Abstract!Next
  <2> QED BY <2>2, <2>3
<1>4. ASSUME NEW w \in Workers, Acknowledge(w) \/ Retry(w)
      PROVE Abstract!Next \/ UNCHANGED Abstract!vars
  <2> DEFINE j == JobOf(w)
  <2>1. j \in Jobs /\ status[j] = "processing" /\ Outcome[j] = "open"
    BY <1>4 DEF Acknowledge, Retry, Finalize, Holds, Owns, Outcome
  <2>2. CASE Acknowledge(w)
    <3>1. j \in receipts
      BY <2>2 DEF Acknowledge, AfterEffect
    <3>2. Outcome' = [Outcome EXCEPT ![j] = "done"]
      BY <2>1, <2>2 DEF Acknowledge, Finalize, Outcome, TypeOK
    <3>3. Abstract!Acknowledge(j)
      BY <2>1, <2>2, <3>1, <3>2 DEF Acknowledge, Finalize, Abstract!Acknowledge, effectVars
    <3> QED BY <2>1, <3>3 DEF Abstract!Next
  <2>3. CASE Retry(w) /\ Exhausted(w)
    <3>1. Outcome' = [i \in Jobs |-> IF i \in {j} THEN "failed" ELSE Outcome[i]]
      BY <2>1, <2>3 DEF Retry, Finalize, Outcome, TypeOK
    <3>2. Abstract!GiveUp({j})
      BY <2>1, <2>3, <3>1 DEF Retry, Finalize, Abstract!GiveUp, effectVars
    <3> QED BY <2>1, <3>2 DEF Abstract!Next
  <2>4. CASE Retry(w) /\ ~Exhausted(w)
    <3>1. Outcome' = Outcome
      BY <2>1, <2>4 DEF Retry, Finalize, Outcome, TypeOK
    <3> QED BY <2>4, <3>1 DEF Retry, Finalize, Abstract!vars, effectVars
  <2> QED BY <1>4, <2>2, <2>3, <2>4
<1>5. ASSUME NEW r \in Runs, Dispatch(r) PROVE UNCHANGED Abstract!vars
  <2>1. Outcome' = Outcome
    BY <1>5 DEF Dispatch, Queueable, Outcome, TypeOK
  <2> QED BY <1>5, <2>1 DEF Dispatch, Abstract!vars, effectVars
<1>6. ASSUME NEW w \in Workers, Process(w) PROVE Abstract!Next \/ UNCHANGED Abstract!vars
  <2>1. CASE MarkRunRunning(w) \/ MarkStepRunning(w) \/ FailRun(w) \/ FailStep(w) \/ CommitStep(w)
    BY <2>1, OutcomeKept DEF MarkRunRunning, MarkStepRunning, FailRun, FailStep, CommitStep
  <2>2. CASE LoadPayload(w) \/ RefuseEffect(w) \/ BeginEffect(w) \/ AbortEffect(w)
    BY <2>2, OutcomeKept DEF LoadPayload, RefuseEffect, BeginEffect, AbortEffect
  <2>3. CASE FinishApproval(w) \/ FencedOut(w)
    BY <2>3, OutcomeKept DEF FinishApproval, FencedOut
  <2> QED
    BY <1>3, <1>4, <1>6, <2>1, <2>2, <2>3 DEF Process
<1>7. ASSUME NEW w \in Workers, HeartbeatLost(w) \/ Crash(w) PROVE UNCHANGED Abstract!vars
  BY <1>7, OutcomeKept DEF HeartbeatLost, Crash
<1>8. ASSUME TimeNext \/ HumanNext PROVE UNCHANGED Abstract!vars
  BY <1>8, OutcomeKept DEF TimeNext, HumanNext, LeaseExpires, ApprovalLapses, ApprovalsDecided
<1>9. CASE UNCHANGED vars
  BY <1>9, OutcomeKept DEF vars, effectVars
<1> QED
  BY <1>1, <1>2, <1>5, <1>6, <1>7, <1>8, <1>9 DEF Next, WorkerNext, RunNext, Claim

\* The queue with its workers, leases, fencing tokens, sweeps and redeliveries
\* implements the at-most-once effect that its callers rely on.
THEOREM QueueImplementsEffectOnce == Spec => ImplementsEffectOnce
<1>1. Init => Abstract!Init
  BY JobFacts DEF Init, Abstract!Init, Outcome
<1>2. IInv /\ [Next]_vars => [Abstract!Next]_(Abstract!vars)
  BY RefinementStep
<1> QED
  BY <1>1, <1>2, Invariance, PTL DEF Spec, ImplementsEffectOnce, Abstract!Spec
=============================================================================
