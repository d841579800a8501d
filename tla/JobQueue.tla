------------------------------ MODULE JobQueue ------------------------------
(***************************************************************************)
(* The durable capability queue: the `jobs' table, the workers that claim  *)
(* rows under a lease and a fencing token (jobs/worker.go and the SQL      *)
(* function claim_capability_job), the effect transaction those workers    *)
(* run through the capability executor, and the durable agent runs whose   *)
(* steps are queued as jobs (jobs/durable_run_dispatcher.go).              *)
(*                                                                         *)
(* Every database transaction is one action, except the effect             *)
(* transaction, which is a begin and an end: it keeps the row lock on its  *)
(* job from the lease check to the commit, and other workers run meanwhile.*)
(* Time is abstracted to two facts: a job's lease is live or not, and an   *)
(* approval's expires_at has passed or not.                                *)
(***************************************************************************)
EXTENDS Naturals, FiniteSets

CONSTANTS
  Workers,      \* worker processes
  IdOf,         \* the configured worker id, which replicas may share
  Jobs,         \* ids a queue row may have
  Durable,      \* the jobs that run a step of an agent run
  Runs,         \* agent_runs ids
  Approvals,    \* approvals ids
  RunOf,        \* the run of a durable job
  Prev,         \* the job of the preceding step, NoJob for the first
  ApprovalOf,   \* approved_approval_id of a job, NoApproval when NULL
  MaxAttempts,  \* max_attempts of every row
  NoJob, NoOwner, NoApproval

ASSUME ConstantsAssumption ==
  /\ Durable \subseteq Jobs
  /\ RunOf \in [Durable -> Runs]
  /\ Prev \in [Durable -> Durable \cup {NoJob}]
  /\ ApprovalOf \in [Jobs -> Approvals \cup {NoApproval}]
  /\ MaxAttempts \in Nat \ {0}
  /\ NoJob \notin Jobs /\ NoApproval \notin Approvals
  /\ DOMAIN IdOf = Workers /\ \A w \in Workers : IdOf[w] # NoOwner

VARIABLES
  status,     \* jobs.status, "absent" before the row is inserted
  attempts,   \* jobs.attempts
  token,      \* jobs.fencing_token
  owner,      \* jobs.lease_owner
  live,       \* jobs.lease_expires_at > clock_timestamp()
  pc,         \* where each worker's ProcessOne stands
  claim,      \* the ClaimedJob each worker holds in memory
  steps,      \* agent_run_steps.status of the step a durable job runs
  runs,       \* agent_runs.status
  approvals,  \* approvals.status
  lapsed,     \* the approvals whose expires_at has passed
  receipts,   \* the intents (job ids) with an action_receipts row
  effects     \* how often each job's business effect has committed

rowVars      == <<status, attempts, token, owner, live>>
workerVars   == <<pc, claim>>
runVars      == <<steps, runs>>
approvalVars == <<approvals, lapsed>>
effectVars   == <<receipts, effects>>
vars == <<status, attempts, token, owner, live, pc, claim, steps, runs,
          approvals, lapsed, receipts, effects>>

-----------------------------------------------------------------------------
JobStatus      == {"absent", "pending", "processing", "done", "failed"}
StepStatus     == {"absent", "pending", "running", "committed", "failed"}
RunStatus      == {"absent", "pending", "running", "failed"}
ApprovalStatus == {"absent", "pending", "executing", "executed", "rejected",
                   "expired", "failed", "superseded"}
PCs == {"idle", "markRun", "markStep", "load", "execute", "inEffect",
        "finishApproval", "commitStep", "ack", "failStep", "failRun", "nack"}

Claims  == [job : Jobs \cup {NoJob}, token : Nat, attempts : Nat]
NoClaim == [job |-> NoJob, token |-> 0, attempts |-> 0]

Init ==
  /\ status = [j \in Jobs |-> IF j \in Durable THEN "absent" ELSE "pending"]
  /\ attempts = [j \in Jobs |-> 0]
  /\ token = [j \in Jobs |-> 0]
  /\ owner = [j \in Jobs |-> NoOwner]
  /\ live = [j \in Jobs |-> FALSE]
  /\ pc = [w \in Workers |-> "idle"]
  /\ claim = [w \in Workers |-> NoClaim]
  /\ steps = [j \in Durable |-> "absent"]
  /\ runs = [r \in Runs |-> "absent"]
  /\ approvals = [a \in Approvals |-> "absent"]
  /\ lapsed = {}
  /\ receipts = {}
  /\ effects = [j \in Jobs |-> 0]

-----------------------------------------------------------------------------
(* What the worker knows, and what the row lets it do.                     *)

JobOf(w) == claim[w].job

\* loadPayload's predicate: the row is mine, whether or not the lease ran out.
Owns(w) == /\ JobOf(w) \in Jobs
           /\ status[JobOf(w)] = "processing"
           /\ owner[JobOf(w)] = IdOf[w]
           /\ token[JobOf(w)] = claim[w].token

\* Mutant of Holds: the fence compares the worker id but not the token.
HoldsById(w) == /\ JobOf(w) \in Jobs
                /\ status[JobOf(w)] = "processing"
                /\ owner[JobOf(w)] = IdOf[w]
                /\ live[JobOf(w)]

\* The predicate of finalize, renewLease and both lease checks.
Holds(w) == Owns(w) /\ live[JobOf(w)]

\* The effect transaction of some worker holds the row lock on j.
Locked(j) == \E w \in Workers : pc[w] = "inEffect" /\ JobOf(w) = j

Gated(j) == ApprovalOf[j] # NoApproval

\* verifySystemApproval and validateDurableRunApproval: executing and unexpired.
Authorises(a) == approvals[a] = "executing" /\ a \notin lapsed

Exhausted(w) == claim[w].attempts >= MaxAttempts

\* ProcessOne returns: the claim in memory is gone.
Return(w) == /\ pc' = [pc EXCEPT ![w] = "idle"]
             /\ claim' = [claim EXCEPT ![w] = NoClaim]

Goto(w, label) == /\ pc' = [pc EXCEPT ![w] = label]
                  /\ UNCHANGED claim

-----------------------------------------------------------------------------
(* Claiming.                                                               *)

\* Mutant of Sweepable: the sweep does not wait for the row lock.
SweepableLocked(j) == /\ status[j] = "processing"
                      /\ ~live[j]
                      /\ attempts[j] >= MaxAttempts

Sweepable(j) == /\ status[j] = "processing"
                /\ ~live[j]
                /\ ~Locked(j)
                /\ attempts[j] >= MaxAttempts

\* Mutants of Claimable: no bound on attempts; no SKIP LOCKED; abandoned rows
\* are not picked up again.
ClaimableUnbounded(j) == /\ status[j] = "pending" \/ (status[j] = "processing" /\ ~live[j])
                         /\ ~Locked(j)
ClaimableLocked(j) == /\ status[j] = "pending" \/ (status[j] = "processing" /\ ~live[j])
                      /\ attempts[j] < MaxAttempts
ClaimablePending(j) == status[j] = "pending" /\ attempts[j] < MaxAttempts

Claimable(j) == /\ \/ status[j] = "pending"
                   \/ status[j] = "processing" /\ ~live[j]
                /\ ~Locked(j)
                /\ attempts[j] < MaxAttempts

SweptStatus == [j \in Jobs |-> IF Sweepable(j) THEN "failed" ELSE status[j]]
SweptOwner  == [j \in Jobs |-> IF Sweepable(j) THEN NoOwner ELSE owner[j]]

\* ClaimOne found a row: the sweep of exhausted expired rows and the claim of
\* one available row are the same transaction.
ClaimRow(w, j) ==
  /\ pc[w] = "idle"
  /\ Claimable(j)
  /\ status' = [SweptStatus EXCEPT ![j] = "processing"]
  /\ owner' = [SweptOwner EXCEPT ![j] = IdOf[w]]
  /\ live' = [live EXCEPT ![j] = TRUE]
  /\ attempts' = [attempts EXCEPT ![j] = @ + 1]
  /\ token' = [token EXCEPT ![j] = @ + 1]
  /\ claim' = [claim EXCEPT ![w] = [job |-> j, token |-> token[j] + 1,
                                    attempts |-> attempts[j] + 1]]
  /\ pc' = [pc EXCEPT ![w] = IF j \in Durable THEN "markRun" ELSE "load"]
  /\ UNCHANGED <<runVars, approvalVars, effectVars>>

\* No row is due (available_at of a waiting row may lie ahead): the sweep still
\* commits.
ClaimNone(w) ==
  /\ pc[w] = "idle"
  /\ \E j \in Jobs : Sweepable(j)
  /\ status' = SweptStatus
  /\ owner' = SweptOwner
  /\ UNCHANGED <<attempts, token, live, workerVars, runVars, approvalVars, effectVars>>

-----------------------------------------------------------------------------
(* ProcessOne, one transaction at a time.                                  *)

MarkRunRunning(w) ==
  /\ pc[w] = "markRun"
  /\ Holds(w)
  /\ runs' = [runs EXCEPT ![RunOf[JobOf(w)]] = "running"]
  /\ Goto(w, "markStep")
  /\ UNCHANGED <<rowVars, steps, approvalVars, effectVars>>

MarkStepRunning(w) ==
  /\ pc[w] = "markStep"
  /\ Holds(w)
  /\ steps' = [steps EXCEPT ![JobOf(w)] = "running"]
  /\ Goto(w, "load")
  /\ UNCHANGED <<rowVars, runs, approvalVars, effectVars>>

\* Where a failed attempt goes: an exhausted durable job first records the
\* failure on its step and its run.
FailureLabel(w) == IF JobOf(w) \in Durable /\ Exhausted(w) THEN "failStep" ELSE "nack"

LoadPayload(w) ==
  /\ pc[w] = "load"
  /\ Goto(w, IF Owns(w) THEN "execute" ELSE FailureLabel(w))
  /\ UNCHANGED <<rowVars, runVars, approvalVars, effectVars>>

\* Opens the effect transaction: requireSystemJobLease checks and extends the
\* lease and takes the row lock; a first delivery has its approval verified
\* here, without locking the approval; a redelivery finds its receipt first.
BeginEffect(w) ==
  /\ pc[w] = "execute"
  /\ Holds(w)
  /\ (Gated(JobOf(w)) /\ JobOf(w) \notin receipts) => Authorises(ApprovalOf[JobOf(w)])
  /\ Goto(w, "inEffect")
  /\ UNCHANGED <<rowVars, runVars, approvalVars, effectVars>>

\* The lease is gone, the payload or the approval does not verify, or the call
\* fails before it has an effect.
RefuseEffect(w) ==
  /\ pc[w] \in {"load", "execute"}
  /\ Goto(w, FailureLabel(w))
  /\ UNCHANGED <<rowVars, runVars, approvalVars, effectVars>>

\* Mutant of EffectOf: a redelivery does not look for its receipt.
EffectOfUnchecked(j) == /\ receipts' = receipts \cup {j}
                        /\ effects' = [effects EXCEPT ![j] = @ + 1]

\* The first delivery posts the business effect and its receipt together; a
\* redelivery finds the receipt of the job id and replays it.
EffectOf(j) ==
  IF j \in receipts
  THEN UNCHANGED effectVars
  ELSE /\ receipts' = receipts \cup {j}
       /\ effects' = [effects EXCEPT ![j] = @ + 1]

\* Mutant of SuccessLabel: the checkpoint is left out.
SuccessLabelUnsaved(j) == IF Gated(j) THEN "finishApproval" ELSE "ack"

SuccessLabel(j) == IF Gated(j) THEN "finishApproval"
                   ELSE IF j \in Durable THEN "commitStep" ELSE "ack"

CommitEffect(w) ==
  /\ pc[w] = "inEffect"
  /\ EffectOf(JobOf(w))
  /\ Goto(w, SuccessLabel(JobOf(w)))
  /\ UNCHANGED <<rowVars, runVars, approvalVars>>

\* The transaction commits but its answer is lost: the worker sees an error.
CommitUnanswered(w) ==
  /\ pc[w] = "inEffect"
  /\ EffectOf(JobOf(w))
  /\ Goto(w, FailureLabel(w))
  /\ UNCHANGED <<rowVars, runVars, approvalVars>>

\* Mutant of AbortEffect: the error of the effect is swallowed.
AbortEffectIgnored(w) ==
  /\ pc[w] = "inEffect"
  /\ Goto(w, SuccessLabel(JobOf(w)))
  /\ UNCHANGED <<rowVars, runVars, approvalVars, effectVars>>

\* The capability refuses its input, or an error or the effect timeout rolls the
\* transaction back, lease extension included: the lease is then what it was
\* before, and may have run out.
AbortEffect(w) ==
  /\ pc[w] = "inEffect"
  /\ \E still \in {live[JobOf(w)], FALSE} : live' = [live EXCEPT ![JobOf(w)] = still]
  /\ Goto(w, FailureLabel(w))
  /\ UNCHANGED <<status, attempts, token, owner, runVars, approvalVars, effectVars>>

\* An UPDATE ... WHERE status = 'executing' whose row count nobody looks at.
FinishApproval(w) ==
  /\ pc[w] = "finishApproval"
  /\ Holds(w)
  /\ approvals' = [approvals EXCEPT ![ApprovalOf[JobOf(w)]] =
                     IF @ = "executing" THEN "executed" ELSE @]
  /\ Goto(w, IF JobOf(w) \in Durable THEN "commitStep" ELSE "ack")
  /\ UNCHANGED <<rowVars, runVars, lapsed, effectVars>>

CommitStep(w) ==
  /\ pc[w] = "commitStep"
  /\ Holds(w)
  /\ steps' = [steps EXCEPT ![JobOf(w)] = "committed"]
  /\ Goto(w, "ack")
  /\ UNCHANGED <<rowVars, runs, approvalVars, effectVars>>

FailStep(w) ==
  /\ pc[w] = "failStep"
  /\ Holds(w)
  /\ steps' = [steps EXCEPT ![JobOf(w)] = "failed"]
  /\ Goto(w, "failRun")
  /\ UNCHANGED <<rowVars, runs, approvalVars, effectVars>>

FailRun(w) ==
  /\ pc[w] = "failRun"
  /\ Holds(w)
  /\ runs' = [runs EXCEPT ![RunOf[JobOf(w)]] = "failed"]
  /\ Goto(w, "nack")
  /\ UNCHANGED <<rowVars, steps, approvalVars, effectVars>>

\* finalize: clears the lease and sets the final or the retry status.
Finalize(w, final) ==
  /\ Holds(w)
  /\ status' = [status EXCEPT ![JobOf(w)] = final]
  /\ owner' = [owner EXCEPT ![JobOf(w)] = NoOwner]
  /\ live' = [live EXCEPT ![JobOf(w)] = FALSE]
  /\ Return(w)
  /\ UNCHANGED <<attempts, token, runVars, approvalVars, effectVars>>

Acknowledge(w) == pc[w] = "ack" /\ Finalize(w, "done")

Retry(w) == /\ pc[w] = "nack"
            /\ Finalize(w, IF Exhausted(w) THEN "failed" ELSE "pending")

\* Every fenced write of a worker whose lease is gone: nothing is written.
FencedOut(w) ==
  /\ pc[w] \in {"markRun", "markStep", "finishApproval", "commitStep",
                "failStep", "failRun", "ack", "nack"}
  /\ ~Holds(w)
  /\ Return(w)
  /\ UNCHANGED <<rowVars, runVars, approvalVars, effectVars>>

\* The heartbeat could not renew the lease, because it is gone or because the
\* renewal failed: processing is cancelled and the row is left as it is.  The
\* effect gate keeps the heartbeat silent while a transaction is in flight.
HeartbeatLost(w) ==
  /\ pc[w] \notin {"idle", "inEffect"}
  /\ Return(w)
  /\ UNCHANGED <<rowVars, runVars, approvalVars, effectVars>>

\* The process dies, or ProcessOne returns a database error, wherever it
\* stands; an open effect transaction rolls back as in AbortEffect.
Crash(w) ==
  /\ pc[w] # "idle"
  /\ \/ pc[w] # "inEffect" /\ UNCHANGED live
     \/ pc[w] = "inEffect" /\ \E still \in {live[JobOf(w)], FALSE} :
                                live' = [live EXCEPT ![JobOf(w)] = still]
  /\ Return(w)
  /\ UNCHANGED <<status, attempts, token, owner, runVars, approvalVars, effectVars>>

-----------------------------------------------------------------------------
(* The rest of the world.                                                  *)

\* clock_timestamp() passes lease_expires_at.
LeaseExpires(j) ==
  /\ status[j] = "processing"
  /\ live[j]
  /\ live' = [live EXCEPT ![j] = FALSE]
  /\ UNCHANGED <<status, attempts, token, owner, workerVars, runVars,
                 approvalVars, effectVars>>

ApprovalLapses(a) ==
  /\ a \notin lapsed
  /\ lapsed' = lapsed \cup {a}
  /\ UNCHANGED <<rowVars, workerVars, runVars, approvals, effectVars>>

\* What callers and deciders do to the approvals in one transaction, seen from
\* the queue; ApprovalGate models them in full.
DecisionMoves ==
  {<<"absent", "pending">>}
    \cup {"pending"} \X {"executing", "rejected", "expired", "superseded"}
    \cup {"executing"} \X {"pending", "executed", "failed"}

ApprovalsDecided(new) ==
  /\ \A a \in Approvals : new[a] = approvals[a] \/ <<approvals[a], new[a]>> \in DecisionMoves
  /\ approvals' = new
  /\ UNCHANGED <<rowVars, workerVars, runVars, lapsed, effectVars>>

StepsOf(r) == {j \in Durable : RunOf[j] = r}

Undone(j) == steps[j] \in {"absent", "pending"}

\* Mutant of Queueable: the previous step is not looked at.
QueueableEarly(j) == Undone(j) /\ status[j] = "absent"

\* A step is queued once, after its predecessor committed.
Queueable(j) == /\ Undone(j)
                /\ Prev[j] = NoJob \/ (Prev[j] \in Durable /\ steps[Prev[j]] = "committed")
                /\ status[j] = "absent"

\* CreateAndDispatch, first call or replay: the run row's lock makes the calls
\* for one run serial.  Every undone step needs its approval, queued or not.
Dispatch(r) ==
  /\ \A j \in StepsOf(r) : Undone(j) /\ Gated(j) => Authorises(ApprovalOf[j])
  /\ runs' = [runs EXCEPT ![r] = IF @ = "absent" THEN "pending" ELSE @]
  /\ steps' = [j \in Durable |-> IF j \in StepsOf(r) /\ steps[j] = "absent"
                                 THEN "pending" ELSE steps[j]]
  /\ status' = [j \in Jobs |-> IF j \in Durable /\ RunOf[j] = r /\ Queueable(j)
                               THEN "pending" ELSE status[j]]
  /\ UNCHANGED <<attempts, token, owner, live, workerVars, approvalVars, effectVars>>

-----------------------------------------------------------------------------
Claim(w) == ClaimNone(w) \/ \E j \in Jobs : ClaimRow(w, j)

\* The steps ProcessOne takes by itself once it has a claim.
Process(w) == \/ MarkRunRunning(w) \/ MarkStepRunning(w) \/ LoadPayload(w)
              \/ BeginEffect(w) \/ RefuseEffect(w)
              \/ CommitEffect(w) \/ CommitUnanswered(w) \/ AbortEffect(w)
              \/ FinishApproval(w) \/ CommitStep(w) \/ FailStep(w) \/ FailRun(w)
              \/ Acknowledge(w) \/ Retry(w) \/ FencedOut(w)

WorkerNext == \E w \in Workers : Claim(w) \/ Process(w) \/ HeartbeatLost(w) \/ Crash(w)
RunNext    == \E r \in Runs : Dispatch(r)
TimeNext   == \/ \E j \in Jobs : LeaseExpires(j)
              \/ \E a \in Approvals : ApprovalLapses(a)
HumanNext  == \E new \in [Approvals -> ApprovalStatus] : ApprovalsDecided(new)

Next == WorkerNext \/ RunNext \/ TimeNext \/ HumanNext

Spec == Init /\ [][Next]_vars

\* Workers keep polling and every transaction they start ends (each has a
\* timeout); the clock moves on.  Crashes, dispatches and decisions are not fair.
Fairness == /\ \A w \in Workers : WF_vars(Claim(w)) /\ WF_vars(Process(w))
            /\ \A j \in Jobs : WF_vars(LeaseExpires(j))

FairSpec == Spec /\ Fairness

-----------------------------------------------------------------------------
(* Properties.                                                             *)

TypeOK ==
  /\ status \in [Jobs -> JobStatus]
  /\ attempts \in [Jobs -> 0..MaxAttempts]
  /\ token \in [Jobs -> Nat]
  /\ DOMAIN owner = Jobs
  /\ live \in [Jobs -> BOOLEAN]
  /\ pc \in [Workers -> PCs]
  /\ claim \in [Workers -> Claims]
  /\ steps \in [Durable -> StepStatus]
  /\ runs \in [Runs -> RunStatus]
  /\ approvals \in [Approvals -> ApprovalStatus]
  /\ lapsed \subseteq Approvals
  /\ receipts \subseteq Jobs
  /\ effects \in [Jobs -> Nat]

\* However often a job is redelivered, reclaimed or answered late, its business
\* effect commits at most once, and exactly when its receipt does
\* (executeWithFinalizer's receipt lookup and insert).
EffectAtMostOnce == \A j \in Jobs : effects[j] = IF j \in receipts THEN 1 ELSE 0

\* Effect transactions of one job never overlap, and the one that is open
\* belongs to the row's present fencing token, even if its lease runs out
\* meanwhile (requireSystemJobLease's row lock against SKIP LOCKED claims).
EffectByCurrentClaim ==
  \A v, w \in Workers :
    pc[w] = "inEffect" => /\ Owns(w)
                          /\ (pc[v] = "inEffect" /\ JobOf(v) = JobOf(w)) => v = w

\* A job the queue reports done has its receipt, and if it ran a step of an
\* agent run the checkpoint says committed (the order of ProcessOne's writes).
DoneIsCheckpointed ==
  \A j \in Jobs : status[j] = "done" =>
    j \in receipts /\ (j \in Durable => steps[j] = "committed")

\* A step of a run is queued, and has an effect, only after the effect of the
\* step before it committed, although checkpoints may fall back to running on
\* a redelivery (CreateAndDispatch's test of the previous step).
StepsInOrder ==
  \A j \in Durable : (Prev[j] # NoJob /\ status[j] # "absent") => Prev[j] \in receipts

\* A worker whose claim has been taken over, or whose row was swept, changes
\* nothing any more: every write it still makes is fenced by owner and token.
StaleWorkerHarmless ==
  [][\A w \in Workers :
       (pc[w] # "idle" /\ pc'[w] # pc[w] /\ ~Owns(w))
         => UNCHANGED <<rowVars, runVars, approvalVars, effectVars>>]_vars

\* Every job that enters the queue is eventually done or failed, whatever
\* workers crash: an abandoned row is reclaimed until its attempts run out,
\* then swept (claim_capability_job).
JobsSettle ==
  \A j \in Jobs : (status[j] \in {"pending", "processing"}) ~> (status[j] \in {"done", "failed"})

-----------------------------------------------------------------------------
(* The inductive invariant behind these properties.                        *)

\* A worker in the middle of ProcessOne has a claim no younger than the row.
ClaimsKnown ==
  \A w \in Workers : pc[w] # "idle" =>
    JobOf(w) \in Jobs /\ claim[w].token <= token[JobOf(w)]

\* No two workers hold the same fencing token of a job.
TokensUnique ==
  \A v, w \in Workers :
    (/\ pc[v] # "idle" /\ pc[w] # "idle"
     /\ JobOf(v) = JobOf(w) /\ claim[v].token = claim[w].token) => v = w

\* The branches of ProcessOne a job without a run or an approval never takes.
BranchesMatch ==
  \A w \in Workers :
    /\ pc[w] \in {"markRun", "markStep", "commitStep", "failStep", "failRun"}
         => JobOf(w) \in Durable
    /\ pc[w] = "finishApproval" => ApprovalOf[JobOf(w)] \in Approvals

\* An open effect transaction keeps its row: the row lock stops every claim.
EffectOwned == \A w \in Workers : pc[w] = "inEffect" => Owns(w)

\* After the effect, ProcessOne works for a job that has its receipt; when it
\* is about to acknowledge and still owns the row, the checkpoint is written.
AfterEffect ==
  \A w \in Workers :
    /\ pc[w] \in {"finishApproval", "commitStep", "ack"} => JobOf(w) \in receipts
    /\ (pc[w] = "ack" /\ Owns(w) /\ JobOf(w) \in Durable) => steps[JobOf(w)] = "committed"

CommittedHasReceipt == \A j \in Durable : steps[j] = "committed" => j \in receipts

IInv == /\ TypeOK
        /\ ClaimsKnown
        /\ TokensUnique
        /\ BranchesMatch
        /\ EffectOwned
        /\ AfterEffect
        /\ CommittedHasReceipt
        /\ EffectAtMostOnce
        /\ DoneIsCheckpointed
        /\ StepsInOrder

-----------------------------------------------------------------------------
(* JobQueue implements EffectOnce.                                         *)

Outcome == [j \in Jobs |-> IF status[j] \in {"done", "failed"} THEN status[j] ELSE "open"]

Abstract == INSTANCE EffectOnce WITH outcome <- Outcome

\* The queue with workers, leases, sweeps and redeliveries is an at-most-once
\* effect that is acknowledged only after it happened and settled only once.
ImplementsEffectOnce == Abstract!Spec
=============================================================================
