------------------------- MODULE GovernedWorkProofs -------------------------
(***************************************************************************)
(* Proofs about GovernedWork: queue and approval gate beside each other,   *)
(* for any number of workers, jobs, runs, requests and Decide calls.       *)
(*                                                                         *)
(* The gate's own invariant does not survive the composition, because      *)
(* workers finish approvals too.  What survives, GateInv, is enough to     *)
(* show that the gate only makes the moves the queue has reckoned with, so *)
(* that the composition implements JobQueue; the theorems of               *)
(* JobQueueProofs then hold of it, and say why an executed approval has    *)
(* had its effect.                                                         *)
(***************************************************************************)
EXTENDS GovernedWork, FiniteSetTheorems, TLAPS

\* The components again, with what is proved of them.
QueueP == INSTANCE JobQueueProofs WITH Approvals <- Requests, NoApproval <- NoRequest,
                                       approvals <- gate
GateP  == INSTANCE ApprovalGateProofs

\* The queue that GovernedWork composes and the queue that JobQueueProofs speaks
\* of are one specification under two names.
LEMMA SameQueue ==
  /\ Queue!Init <=> QueueP!Init
  /\ Queue!Next <=> QueueP!Next
  /\ Queue!vars = QueueP!vars
  /\ Queue!ConstantsAssumption <=> QueueP!ConstantsAssumption
  BY Zenon DEF
    Queue!rowVars, Queue!workerVars, Queue!runVars, Queue!approvalVars,
    Queue!effectVars, Queue!vars, Queue!JobStatus, Queue!StepStatus,
    Queue!RunStatus, Queue!ApprovalStatus, Queue!PCs, Queue!Claims,
    Queue!NoClaim, Queue!JobOf, Queue!Owns, Queue!Holds, Queue!Locked,
    Queue!Gated, Queue!Authorises, Queue!Exhausted, Queue!Return,
    Queue!Goto, Queue!Sweepable, Queue!Claimable, Queue!SweptStatus,
    Queue!SweptOwner, Queue!ClaimRow, Queue!ClaimNone, Queue!MarkRunRunning,
    Queue!MarkStepRunning, Queue!FailureLabel, Queue!LoadPayload,
    Queue!BeginEffect, Queue!RefuseEffect, Queue!EffectOf,
    Queue!SuccessLabel, Queue!CommitEffect, Queue!CommitUnanswered,
    Queue!AbortEffect, Queue!FinishApproval, Queue!CommitStep,
    Queue!FailStep, Queue!FailRun, Queue!Finalize, Queue!Acknowledge,
    Queue!Retry, Queue!FencedOut, Queue!HeartbeatLost, Queue!Crash,
    Queue!LeaseExpires, Queue!ApprovalLapses, Queue!DecisionMoves,
    Queue!ApprovalsDecided, Queue!StepsOf, Queue!Undone, Queue!Queueable,
    Queue!Dispatch, Queue!Claim, Queue!Process, Queue!WorkerNext,
    Queue!RunNext, Queue!TimeNext, Queue!HumanNext, Queue!Init, Queue!Next,
    Queue!ConstantsAssumption, QueueP!rowVars, QueueP!workerVars,
    QueueP!runVars, QueueP!approvalVars, QueueP!effectVars, QueueP!vars,
    QueueP!JobStatus, QueueP!StepStatus, QueueP!RunStatus,
    QueueP!ApprovalStatus, QueueP!PCs, QueueP!Claims, QueueP!NoClaim,
    QueueP!JobOf, QueueP!Owns, QueueP!Holds, QueueP!Locked, QueueP!Gated,
    QueueP!Authorises, QueueP!Exhausted, QueueP!Return, QueueP!Goto,
    QueueP!Sweepable, QueueP!Claimable, QueueP!SweptStatus,
    QueueP!SweptOwner, QueueP!ClaimRow, QueueP!ClaimNone,
    QueueP!MarkRunRunning, QueueP!MarkStepRunning, QueueP!FailureLabel,
    QueueP!LoadPayload, QueueP!BeginEffect, QueueP!RefuseEffect,
    QueueP!EffectOf, QueueP!SuccessLabel, QueueP!CommitEffect,
    QueueP!CommitUnanswered, QueueP!AbortEffect, QueueP!FinishApproval,
    QueueP!CommitStep, QueueP!FailStep, QueueP!FailRun, QueueP!Finalize,
    QueueP!Acknowledge, QueueP!Retry, QueueP!FencedOut,
    QueueP!HeartbeatLost, QueueP!Crash, QueueP!LeaseExpires,
    QueueP!ApprovalLapses, QueueP!DecisionMoves, QueueP!ApprovalsDecided,
    QueueP!StepsOf, QueueP!Undone, QueueP!Queueable, QueueP!Dispatch,
    QueueP!Claim, QueueP!Process, QueueP!WorkerNext, QueueP!RunNext,
    QueueP!TimeNext, QueueP!HumanNext, QueueP!Init, QueueP!Next,
    QueueP!ConstantsAssumption

\* So a step of the one is a step of the other.
LEMMA SameQueueStep == [Queue!Next]_Queue!vars => [QueueP!Next]_QueueP!vars
<1>1. UNCHANGED Queue!vars => UNCHANGED QueueP!vars
  BY DEF Queue!vars, QueueP!vars
<1> QED
  BY <1>1, SameQueue

\* The same for the gate and ApprovalGateProofs.
LEMMA SameGate ==
  /\ Gate!Next <=> GateP!Next
  /\ Gate!vars = GateP!vars
  /\ Gate!GateAssumption <=> GateP!GateAssumption
  BY Zenon DEF
    Gate!gateVars, Gate!deciderVars, Gate!effectVars, Gate!vars,
    Gate!SameIntent, Gate!Fresh, Gate!RowLocked, Gate!SupersededBy,
    Gate!ExecuteDirect, Gate!RequestApproval, Gate!RequestCommits,
    Gate!Lapse, Gate!Leave, Gate!Proceed, Gate!DecideRead,
    Gate!MoveIfPending, Gate!MoveIfExecuting, Gate!DecideRefuse,
    Gate!DecideClaim, Gate!ExecuteApproved, Gate!DecideExecute,
    Gate!DecideUnanswered, Gate!DecideUnverified, Gate!DecideFails,
    Gate!DecideSettle, Gate!DecideCrash, Gate!CallerNext, Gate!DecideStep,
    Gate!DeciderNext, Gate!Next, Gate!GateAssumption, GateP!gateVars,
    GateP!deciderVars, GateP!effectVars, GateP!vars, GateP!SameIntent,
    GateP!Fresh, GateP!RowLocked, GateP!SupersededBy, GateP!ExecuteDirect,
    GateP!RequestApproval, GateP!RequestCommits, GateP!Lapse, GateP!Leave,
    GateP!Proceed, GateP!DecideRead, GateP!MoveIfPending,
    GateP!MoveIfExecuting, GateP!DecideRefuse, GateP!DecideClaim,
    GateP!ExecuteApproved, GateP!DecideExecute, GateP!DecideUnanswered,
    GateP!DecideUnverified, GateP!DecideFails, GateP!DecideSettle,
    GateP!DecideCrash, GateP!CallerNext, GateP!DecideStep,
    GateP!DeciderNext, GateP!Next, GateP!GateAssumption

-----------------------------------------------------------------------------
(* What the composition keeps of the gate.                                 *)

\* An approval that is not decided, or was refused, has not fired.
UnexecutedUnfired ==
  \A r \in Requests : gate[r] \notin {"absent", "executed"} => fired[r] = 0

GateInv == /\ Gate!TypeOK /\ Gate!DecidesKnown /\ Gate!OpenIsNew
           /\ Gate!IntentTaken /\ Gate!FiredOnce /\ UnexecutedUnfired

\* A worker that finishes an approval is all of the queue the gate notices.
LEMMA QueueFinishes ==
  ASSUME QueueNext
  PROVE  UNCHANGED <<gate, lapsed>> \/ \E w \in Workers : Queue!FinishApproval(w)
<1> USE DEF Queue!approvalVars
<1>1. ASSUME NEW w \in Workers, Queue!Claim(w) \/ Queue!HeartbeatLost(w) \/ Queue!Crash(w)
      PROVE  UNCHANGED <<gate, lapsed>>
  BY <1>1 DEF Queue!Claim, Queue!ClaimNone, Queue!ClaimRow, Queue!HeartbeatLost, Queue!Crash
<1>2. ASSUME NEW w \in Workers, Queue!Process(w), ~Queue!FinishApproval(w)
      PROVE  UNCHANGED <<gate, lapsed>>
  BY <1>2 DEF Queue!Process, Queue!MarkRunRunning, Queue!MarkStepRunning, Queue!LoadPayload,
              Queue!BeginEffect, Queue!RefuseEffect, Queue!CommitEffect, Queue!CommitUnanswered,
              Queue!AbortEffect, Queue!CommitStep, Queue!FailStep, Queue!FailRun,
              Queue!Acknowledge, Queue!Retry, Queue!Finalize, Queue!FencedOut
<1>3. ASSUME NEW r \in Runs, Queue!Dispatch(r) PROVE UNCHANGED <<gate, lapsed>>
  BY <1>3 DEF Queue!Dispatch
<1>4. ASSUME NEW j \in Jobs, Queue!LeaseExpires(j) PROVE UNCHANGED <<gate, lapsed>>
  BY <1>4 DEF Queue!LeaseExpires
<1> QED
  BY <1>1, <1>2, <1>3, <1>4 DEF QueueNext, Queue!WorkerNext, Queue!RunNext

\* A worker of the queue moves an approval from executing to executed, or not
\* at all.
LEMMA QueueTouchesGate ==
  ASSUME QueueNext, GateInv
  PROVE  /\ lapsed' = lapsed /\ gate' \in [Requests -> Gate!GateStatus]
         /\ \A r \in Requests : \/ gate'[r] = gate[r]
                                \/ gate[r] = "executing" /\ gate'[r] = "executed"
<1>1. gate \in [Requests -> Gate!GateStatus]
  BY DEF GateInv, Gate!TypeOK
<1>2. CASE UNCHANGED <<gate, lapsed>>
  BY <1>1, <1>2
<1>3. ASSUME NEW w \in Workers, Queue!FinishApproval(w)
      PROVE  /\ lapsed' = lapsed /\ gate' \in [Requests -> Gate!GateStatus]
             /\ \A r \in Requests : \/ gate'[r] = gate[r]
                                    \/ gate[r] = "executing" /\ gate'[r] = "executed"
  BY <1>1, <1>3 DEF Queue!FinishApproval, Gate!GateStatus
<1> QED
  BY <1>2, <1>3, QueueFinishes

\* A step of the queue keeps GateInv.
LEMMA QueueKeepsGate ==
  ASSUME GateInv, QueueNext, UNCHANGED gateVars
  PROVE  GateInv'
<1>1. /\ lapsed' = lapsed /\ gate' \in [Requests -> Gate!GateStatus]
      /\ \A r \in Requests : \/ gate'[r] = gate[r]
                             \/ gate[r] = "executing" /\ gate'[r] = "executed"
  BY QueueTouchesGate
<1> USE DEF GateInv, gateVars
<1>2. Gate!TypeOK'
  BY <1>1 DEF Gate!TypeOK
<1>3. Gate!DecidesKnown' /\ Gate!FiredOnce'
  BY DEF Gate!DecidesKnown, Gate!FiredOnce
<1>4. Gate!OpenIsNew'
  BY <1>1 DEF Gate!OpenIsNew, Gate!TypeOK
<1>5. Gate!IntentTaken'
  BY <1>1 DEF Gate!IntentTaken, Gate!Active
<1>6. UnexecutedUnfired'
  BY <1>1 DEF UnexecutedUnfired
<1> QED
  BY <1>2, <1>3, <1>4, <1>5, <1>6

\* The statuses a Decide call can move a row between.
RowMoves == {"pending"} \X {"executing", "rejected", "expired"}
              \cup {"executing"} \X {"pending", "failed"}

\* Every step of the gate, seen from its rows and effects.
GateShape ==
  \/ UNCHANGED <<gate, lapsed, open, fired>>
  \/ \E r \in Requests : Gate!ExecuteDirect(r)
  \/ \E r \in Requests : Gate!RequestApproval(r)
  \/ \E r \in Requests : Gate!RequestCommits(r)
  \/ \E r \in Requests : Gate!Lapse(r)
  \/ \E r \in Requests, to \in Gate!GateStatus :
       /\ <<gate[r], to>> \in RowMoves /\ gate' = [gate EXCEPT ![r] = to]
       /\ UNCHANGED <<lapsed, open, fired>>
  \/ \E r \in Requests : Gate!ExecuteApproved(r) /\ UNCHANGED <<lapsed, open>>

\* Each of the gate's own steps is one of the shapes GateInv must survive.
LEMMA GateStepShape ==
  ASSUME GateInv, Gate!Next
  PROVE  GateShape
<1> DEFINE Quiet == UNCHANGED <<gate, lapsed, open, fired>>
           Moved == \E r \in Requests, to \in Gate!GateStatus :
                      /\ <<gate[r], to>> \in RowMoves /\ gate' = [gate EXCEPT ![r] = to]
                      /\ UNCHANGED <<lapsed, open, fired>>
           Executed == \E r \in Requests : Gate!ExecuteApproved(r) /\ UNCHANGED <<lapsed, open>>
<1> USE DEF Gate!gateVars, Gate!effectVars
<1>1. ASSUME NEW d \in Deciders, NEW to \in {"executing", "rejected", "expired"},
             dpc[d] # "idle", Gate!MoveIfPending(deciding[d], to), UNCHANGED <<lapsed, open, fired>>
      PROVE  Quiet \/ Moved
  <2>1. deciding[d] \in Requests /\ to \in Gate!GateStatus
    BY <1>1 DEF GateInv, Gate!DecidesKnown, Gate!GateStatus
  <2>2. CASE gate[deciding[d]] = "pending"
    BY <1>1, <2>1, <2>2 DEF Gate!MoveIfPending, RowMoves
  <2>3. CASE gate[deciding[d]] # "pending"
    BY <1>1, <2>1, <2>3 DEF Gate!MoveIfPending, GateInv, Gate!TypeOK
  <2> QED
    BY <2>2, <2>3
<1>2. ASSUME NEW d \in Deciders, Gate!DecideRefuse(d) \/ Gate!DecideClaim(d) PROVE Quiet \/ Moved
  BY <1>1, <1>2 DEF Gate!DecideRefuse, Gate!DecideClaim
<1>3. ASSUME NEW d \in Deciders, Gate!DecideSettle(d) PROVE Quiet \/ Moved
  <2> DEFINE to == IF dpc[d] = "failing" THEN "failed" ELSE "pending"
  <2>1. deciding[d] \in Requests /\ to \in Gate!GateStatus
    BY <1>3 DEF Gate!DecideSettle, GateInv, Gate!DecidesKnown, Gate!GateStatus
  <2>2. CASE gate[deciding[d]] = "executing"
    <3>1. gate' = [gate EXCEPT ![deciding[d]] = to]
      BY <1>3, <2>1, <2>2 DEF Gate!DecideSettle, Gate!MoveIfExecuting
    <3>2. <<gate[deciding[d]], to>> \in RowMoves
      BY <2>2 DEF RowMoves
    <3> QED
      BY <1>3, <2>1, <3>1, <3>2 DEF Gate!DecideSettle
  <2>3. CASE gate[deciding[d]] # "executing"
    BY <1>3, <2>1, <2>3 DEF Gate!DecideSettle, Gate!MoveIfExecuting, GateInv, Gate!TypeOK
  <2> QED
    BY <2>2, <2>3
<1>4. ASSUME NEW d \in Deciders, Gate!DecideExecute(d) \/ Gate!DecideUnanswered(d) PROVE Executed
  BY <1>4 DEF Gate!DecideExecute, Gate!DecideUnanswered, GateInv, Gate!DecidesKnown
<1>5. ASSUME NEW d \in Deciders,
             \/ Gate!DecideUnverified(d) \/ Gate!DecideFails(d) \/ Gate!DecideCrash(d)
             \/ \E r \in Requests, decision \in {"approve", "reject"} : Gate!DecideRead(d, r, decision)
      PROVE  Quiet
  BY <1>5 DEF Gate!DecideUnverified, Gate!DecideFails, Gate!DecideCrash, Gate!DecideRead
<1> HIDE DEF Quiet, Moved, Executed
<1>6. \/ Quiet \/ Moved \/ Executed
      \/ \E r \in Requests : \/ Gate!ExecuteDirect(r) \/ Gate!RequestApproval(r)
                             \/ Gate!RequestCommits(r) \/ Gate!Lapse(r)
  BY <1>2, <1>3, <1>4, <1>5 DEF Gate!Next, Gate!CallerNext, Gate!DeciderNext, Gate!DecideStep
<1> QED
  BY <1>6 DEF GateShape, Quiet, Moved, Executed

\* A step of the gate keeps GateInv.
LEMMA GateKeepsGate ==
  ASSUME GateInv, Gate!Next
  PROVE  GateInv'
<1>1. Gate!TypeOK'
  <2>1. GateP!TypeOK /\ GateP!DecidesKnown /\ [GateP!Next]_GateP!vars => GateP!TypeOK'
    BY WorkAssumption, SameGate, GateP!TypeStep
  <2>2. GateP!TypeOK /\ GateP!DecidesKnown /\ GateP!Next
    BY SameGate DEF GateInv, Gate!TypeOK, GateP!TypeOK, Gate!DecidesKnown, GateP!DecidesKnown,
         Gate!GateStatus, GateP!GateStatus, Gate!DPCs, GateP!DPCs
  <2> QED
    BY <2>1, <2>2 DEF Gate!TypeOK, GateP!TypeOK, Gate!GateStatus, GateP!GateStatus,
         Gate!DPCs, GateP!DPCs
<1>2. Gate!DecidesKnown'
  <2> USE DEF GateInv, Gate!TypeOK, Gate!DecidesKnown, Gate!Leave, Gate!Proceed,
              Gate!deciderVars
  <2>1. ASSUME NEW r \in Requests, \/ Gate!ExecuteDirect(r) \/ Gate!RequestApproval(r)
                                   \/ Gate!RequestCommits(r) \/ Gate!Lapse(r)
        PROVE  Gate!DecidesKnown'
    BY <2>1 DEF Gate!ExecuteDirect, Gate!RequestApproval, Gate!RequestCommits, Gate!Lapse
  <2>2. ASSUME NEW d \in Deciders, NEW r \in Requests, NEW decision \in {"approve", "reject"},
               Gate!DecideRead(d, r, decision)
        PROVE  Gate!DecidesKnown'
    BY <2>2 DEF Gate!DecideRead
  <2>3. ASSUME NEW d \in Deciders, Gate!DecideStep(d) \/ Gate!DecideCrash(d)
        PROVE  Gate!DecidesKnown'
    BY <2>3 DEF Gate!DecideStep, Gate!DecideRefuse, Gate!DecideClaim, Gate!DecideExecute,
         Gate!DecideUnanswered, Gate!DecideUnverified, Gate!DecideFails, Gate!DecideSettle,
         Gate!DecideCrash
  <2> QED
    BY <2>1, <2>2, <2>3 DEF Gate!Next, Gate!CallerNext, Gate!DeciderNext
<1> DEFINE Rest == Gate!OpenIsNew' /\ Gate!IntentTaken' /\ Gate!FiredOnce' /\ UnexecutedUnfired'
<1> USE DEF GateInv, Gate!TypeOK
<1>3. ASSUME NEW r \in Requests, Gate!Fresh(r), gate' = gate,
             \/ fired' = [fired EXCEPT ![r] = @ + 1] /\ open' = open
             \/ fired' = fired /\ open' = open \cup {r}
      PROVE  Rest
  <2>1. r \notin open /\ gate[r] = "absent" /\ fired[r] = 0
    BY <1>3 DEF Gate!Fresh, Gate!SameIntent
  <2>2. Gate!OpenIsNew' /\ Gate!FiredOnce' /\ UnexecutedUnfired'
    BY <1>3, <2>1 DEF Gate!OpenIsNew, Gate!FiredOnce, UnexecutedUnfired
  <2>3. \A s \in Requests \ {r} : Gate!Active(s)' => Gate!Active(s)
    BY <1>3 DEF Gate!Active
  <2>4. \A s \in Requests : Gate!SameIntent(r, s) => ~Gate!Active(s)
    BY <1>3 DEF Gate!Fresh, Gate!Active
  <2>5. \A s, t \in Requests : Gate!SameIntent(s, t) => Gate!SameIntent(t, s)
    BY DEF Gate!SameIntent
  <2>6. Gate!IntentTaken'
    BY <2>3, <2>4, <2>5 DEF Gate!IntentTaken
  <2> QED
    BY <2>2, <2>6
<1>4. ASSUME NEW r \in Requests, Gate!ExecuteDirect(r) \/ Gate!RequestApproval(r) PROVE Rest
  BY <1>3, <1>4 DEF Gate!ExecuteDirect, Gate!RequestApproval, Gate!gateVars, Gate!effectVars
<1>5. ASSUME NEW r \in Requests, Gate!RequestCommits(r) PROVE Rest
  <2> USE <1>5 DEF Gate!RequestCommits, Gate!effectVars
  <2>1. gate[r] = "absent" /\ fired[r] = 0
    BY DEF Gate!OpenIsNew
  <2>2. \A s \in Requests : s # r =>
          gate'[s] = gate[s] \/ (gate[s] = "pending" /\ gate'[s] = "superseded")
    OBVIOUS
  <2>3. Gate!OpenIsNew' /\ Gate!FiredOnce' /\ UnexecutedUnfired'
    BY <2>1, <2>2 DEF Gate!OpenIsNew, Gate!FiredOnce, UnexecutedUnfired
  <2>4. \A s \in Requests : Gate!Active(s)' => Gate!Active(s)
    BY <2>2 DEF Gate!Active
  <2>5. Gate!IntentTaken'
    BY <2>4 DEF Gate!IntentTaken
  <2> QED
    BY <2>3, <2>5
<1>6. ASSUME UNCHANGED <<gate, open, fired>> PROVE Rest
  BY <1>6 DEF Gate!OpenIsNew, Gate!FiredOnce, UnexecutedUnfired, Gate!IntentTaken, Gate!Active
<1>7. ASSUME NEW r \in Requests, NEW to \in Gate!GateStatus, <<gate[r], to>> \in RowMoves,
             gate' = [gate EXCEPT ![r] = to], UNCHANGED <<open, fired>>
      PROVE  Rest
  <2>1. gate[r] \notin {"absent", "executed"} /\ to \notin {"absent", "executed"}
    BY <1>7 DEF RowMoves
  <2> QED
    BY <1>7, <2>1 DEF Gate!OpenIsNew, Gate!FiredOnce, UnexecutedUnfired, Gate!IntentTaken, Gate!Active
<1>8. ASSUME NEW r \in Requests, Gate!ExecuteApproved(r), UNCHANGED open PROVE Rest
  <2>1. gate[r] = "executing" /\ fired[r] = 0
    BY <1>8 DEF Gate!ExecuteApproved, UnexecutedUnfired
  <2>2. Gate!OpenIsNew' /\ Gate!FiredOnce' /\ UnexecutedUnfired'
    BY <1>8, <2>1 DEF Gate!ExecuteApproved, Gate!OpenIsNew, Gate!FiredOnce, UnexecutedUnfired
  <2>3. \A s \in Requests : Gate!Active(s)' => Gate!Active(s)
    BY <1>8, <2>1 DEF Gate!ExecuteApproved, Gate!Active
  <2>4. Gate!IntentTaken'
    BY <2>3 DEF Gate!IntentTaken
  <2> QED
    BY <2>2, <2>4
<1> HIDE DEF Rest
<1>9. Rest
  BY <1>4, <1>5, <1>6, <1>7, <1>8, GateStepShape DEF GateShape, Gate!Lapse, Gate!effectVars
<1> QED
  BY <1>1, <1>2, <1>9 DEF Rest

\* Whoever steps, the queue or the gate, GateInv is kept.
LEMMA GateInvStep == GateInv /\ [Next]_vars => GateInv'
<1> SUFFICES ASSUME GateInv, [Next]_vars PROVE GateInv'
  OBVIOUS
<1>1. CASE QueueNext /\ UNCHANGED gateVars
  BY <1>1, QueueKeepsGate
<1>2. CASE Gate!Next
  BY <1>2, GateKeepsGate
<1>3. CASE UNCHANGED vars
  BY <1>3 DEF vars, queueVars, gateVars, GateInv, Gate!TypeOK, Gate!DecidesKnown, Gate!OpenIsNew,
        Gate!IntentTaken, Gate!Active, Gate!FiredOnce, UnexecutedUnfired
<1> QED
  BY <1>1, <1>2, <1>3 DEF Next

\* An empty gate beside an empty queue.
LEMMA GateInvInit == Init => GateInv
<1> SUFFICES ASSUME Init PROVE GateInv
  OBVIOUS
<1> USE DEF Init, Gate!Init
<1>1. Gate!TypeOK
  BY WorkAssumption DEF Gate!TypeOK, Gate!GateStatus, Gate!DPCs, Gate!GateAssumption
<1>2. Gate!DecidesKnown /\ Gate!OpenIsNew /\ Gate!IntentTaken /\ Gate!FiredOnce /\ UnexecutedUnfired
  BY DEF Gate!DecidesKnown, Gate!OpenIsNew, Gate!IntentTaken, Gate!Active, Gate!FiredOnce,
         UnexecutedUnfired
<1> QED
  BY <1>1, <1>2 DEF GateInv

\* GateInv holds of every reachable state of the composition.
LEMMA GateInvAlways == Spec => []GateInv
  BY GateInvInit, GateInvStep, PTL DEF Spec

-----------------------------------------------------------------------------
(* The composition implements the queue.                                   *)

\* What the gate does, the queue allows humans and time to do.
LEMMA GateStepRefines ==
  ASSUME GateInv, GateInv', Gate!Next, UNCHANGED queueVars
  PROVE  [Queue!Next]_Queue!vars
<1> USE DEF queueVars, Queue!rowVars, Queue!workerVars, Queue!runVars, Queue!effectVars
<1>1. ASSUME UNCHANGED <<gate, lapsed>> PROVE UNCHANGED Queue!vars
  BY <1>1 DEF Queue!vars
<1>2. ASSUME NEW r \in Requests, Gate!Lapse(r) PROVE Queue!Next
  BY <1>2 DEF Gate!Lapse, Queue!Next, Queue!TimeNext, Queue!ApprovalLapses
<1>3. ASSUME lapsed' = lapsed,
             \A r \in Requests : gate'[r] = gate[r] \/ <<gate[r], gate'[r]>> \in Queue!DecisionMoves
      PROVE  Queue!Next
  <2>1. gate' \in [Requests -> Queue!ApprovalStatus]
    BY DEF GateInv, Gate!TypeOK, Gate!GateStatus, Queue!ApprovalStatus
  <2>2. Queue!ApprovalsDecided(gate')
    BY <1>3 DEF Queue!ApprovalsDecided
  <2> QED
    BY <2>1, <2>2 DEF Queue!Next, Queue!HumanNext
<1> USE DEF GateInv, Gate!TypeOK, Queue!DecisionMoves
<1>4. ASSUME NEW r \in Requests, Gate!RequestCommits(r) PROVE Queue!Next
  <2>1. gate[r] = "absent"
    BY <1>4 DEF Gate!RequestCommits, Gate!OpenIsNew
  <2> QED
    BY <1>3, <1>4, <2>1 DEF Gate!RequestCommits
<1>5. ASSUME NEW r \in Requests, NEW to \in Gate!GateStatus, <<gate[r], to>> \in RowMoves,
             gate' = [gate EXCEPT ![r] = to], UNCHANGED lapsed
      PROVE  Queue!Next
  BY <1>3, <1>5 DEF RowMoves
<1>6. ASSUME NEW r \in Requests, Gate!ExecuteApproved(r), UNCHANGED lapsed PROVE Queue!Next
  BY <1>3, <1>6 DEF Gate!ExecuteApproved
<1>7. ASSUME NEW r \in Requests, Gate!ExecuteDirect(r) \/ Gate!RequestApproval(r)
      PROVE UNCHANGED Queue!vars
  BY <1>1, <1>7 DEF Gate!ExecuteDirect, Gate!RequestApproval, Gate!gateVars
<1> QED
  BY <1>1, <1>2, <1>4, <1>5, <1>6, <1>7, GateStepShape DEF GateShape

\* Every step of the composition is a step of the queue or leaves it alone.
LEMMA StepRefines == GateInv /\ GateInv' /\ [Next]_vars => [Queue!Next]_Queue!vars
<1> SUFFICES ASSUME GateInv, GateInv', [Next]_vars PROVE [Queue!Next]_Queue!vars
  OBVIOUS
<1>1. CASE QueueNext
  BY <1>1 DEF QueueNext, Queue!Next, Queue!TimeNext
<1>2. CASE Gate!Next /\ UNCHANGED queueVars
  BY <1>2, GateStepRefines
<1>3. CASE UNCHANGED vars
  BY <1>3 DEF vars, queueVars, Queue!vars
<1> QED
  BY <1>1, <1>2, <1>3 DEF Next

\* Seen from its own tables, the queue beside the gate behaves as JobQueue says
\* it does: no caller, approver or clock surprises it (the status predicates of
\* every UPDATE of approvals).
THEOREM GovernedQueueRefined == Spec => QueueRefined
<1>1. Init => Queue!Init
  BY DEF Init
<1> QED
  BY <1>1, GateInvAlways, StepRefines, PTL DEF Spec, QueueRefined, Queue!Spec

\* Hence what JobQueueProofs shows of the queue holds beside the gate.
LEMMA QueueInvAlways == Spec => []QueueP!IInv
<1>1. QueueP!ConstantsAssumption
  BY WorkAssumption, SameQueue
<1>2. QueueP!Spec => []QueueP!IInv
  BY <1>1, QueueP!Invariance
<1>3. Queue!Init => QueueP!Init
  BY SameQueue
<1>4. Queue!Spec => QueueP!Spec
  BY <1>3, SameQueueStep, PTL DEF Queue!Spec, QueueP!Spec
<1> QED
  BY <1>2, <1>4, GovernedQueueRefined, PTL DEF QueueRefined

\* Whatever the gate does meanwhile, a job has its business effect at most
\* once, and exactly with its receipt (executeWithFinalizer).
THEOREM GovernedEffectOnce == Spec => []Queue!EffectAtMostOnce
<1>1. QueueP!IInv => Queue!EffectAtMostOnce
  BY DEF QueueP!IInv, QueueP!EffectAtMostOnce, Queue!EffectAtMostOnce
<1> QED
  BY <1>1, QueueInvAlways, PTL

\* Whatever workers do meanwhile, of the requests of one action intent at most
\* one has its effect under the gate, and that one only once
\* (executeWithFinalizer's intent section, Decide).
THEOREM GovernedIntentFiresOnce == Spec => []Gate!IntentFiresOnce
<1>1. GateInv => Gate!IntentFiresOnce
  <2> SUFFICES ASSUME GateInv, NEW r \in Requests, NEW s \in Requests, Gate!SameIntent(r, s)
               PROVE  IF r = s THEN fired[r] <= 1 ELSE fired[r] + fired[s] <= 1
    BY DEF Gate!IntentFiresOnce
  <2>1. fired[r] \in Nat /\ fired[s] \in Nat /\ fired[r] <= 1 /\ fired[s] <= 1
    BY DEF GateInv, Gate!TypeOK, Gate!FiredOnce
  <2>2. r # s => fired[r] = 0 \/ fired[s] = 0
    BY <2>1 DEF GateInv, Gate!IntentTaken, Gate!Active
  <2> QED
    BY <2>1, <2>2
<1> QED
  BY <1>1, GateInvAlways, PTL

-----------------------------------------------------------------------------
(* An executed approval had its effect.                                    *)

\* Executed by the gate, or finished by a worker whose job had its effect.
Accounted ==
  \A a \in Requests : gate[a] = "executed" =>
    fired[a] > 0 \/ \E j \in Jobs : ApprovalOf[j] = a /\ effects[j] > 0

\* No effect is ever taken back.
LEMMA EffectsKept ==
  ASSUME GateInv, GateInv', QueueP!IInv, QueueP!IInv', [Next]_vars
  PROVE  /\ \A j \in Jobs : effects[j] > 0 => effects'[j] > 0
         /\ \A a \in Requests : fired[a] > 0 => fired'[a] > 0
<1>1. \A j \in Jobs : effects[j] > 0 => effects'[j] > 0
  <2>1. QueueP!ConstantsAssumption
    BY WorkAssumption, SameQueue
  <2>2. QueueP!TypeOK /\ QueueP!ClaimsKnown /\ QueueP!EffectAtMostOnce /\ QueueP!EffectAtMostOnce'
    BY DEF QueueP!IInv
  <2>3. [QueueP!Next]_QueueP!vars
    BY StepRefines, SameQueueStep
  <2>4. receipts \subseteq receipts'
    BY <2>1, <2>2, <2>3, QueueP!EffectStep
  <2> QED
    BY <2>2, <2>4 DEF QueueP!EffectAtMostOnce
<1>2. \A a \in Requests : fired[a] > 0 => fired'[a] > 0
  <2>1. CASE QueueNext /\ UNCHANGED gateVars
    BY <2>1 DEF gateVars
  <2>2. CASE UNCHANGED vars
    BY <2>2 DEF vars, gateVars
  <2>3. CASE Gate!Next
    <3> USE DEF GateInv, Gate!TypeOK
    <3>1. \/ fired' = fired
          \/ \E r \in Requests : fired' = [fired EXCEPT ![r] = @ + 1]
      BY <2>3, GateStepShape DEF GateShape, Gate!ExecuteDirect, Gate!RequestApproval,
           Gate!RequestCommits, Gate!Lapse, Gate!ExecuteApproved, Gate!effectVars
    <3> QED
      BY <3>1
  <2> QED
    BY <2>1, <2>2, <2>3 DEF Next
<1> QED
  BY <1>1, <1>2

\* A worker reaches finishApproval only for a job of that approval that has
\* its effect behind it.
LEMMA WorkerAccounts ==
  ASSUME QueueP!IInv, NEW w \in Workers, Queue!FinishApproval(w)
  PROVE  \E j \in Jobs : /\ ApprovalOf[j] \in Requests /\ effects[j] > 0
                         /\ gate' = [gate EXCEPT ![ApprovalOf[j]] =
                                        IF @ = "executing" THEN "executed" ELSE @]
<1> DEFINE j == claim[w].job
<1>1. pc[w] = "finishApproval"
  BY DEF Queue!FinishApproval
<1>2. j \in Jobs /\ j \in receipts /\ ApprovalOf[j] \in Requests
  BY <1>1 DEF QueueP!IInv, QueueP!ClaimsKnown, QueueP!AfterEffect, QueueP!BranchesMatch, QueueP!JobOf
<1>3. effects[j] > 0
  BY <1>2 DEF QueueP!IInv, QueueP!EffectAtMostOnce
<1> QED
  BY <1>2, <1>3 DEF Queue!FinishApproval, Queue!JobOf

\* An approval becomes executed only with its effect behind it, and the effect stays.
LEMMA AccountedStep ==
  ASSUME GateInv, GateInv', QueueP!IInv, QueueP!IInv', Accounted, [Next]_vars
  PROVE  Accounted'
<1> SUFFICES ASSUME NEW a \in Requests, gate'[a] = "executed"
             PROVE  fired'[a] > 0 \/ \E j \in Jobs : ApprovalOf[j] = a /\ effects'[j] > 0
  BY DEF Accounted
<1>1. ASSUME gate[a] = "executed"
      PROVE  fired'[a] > 0 \/ \E j \in Jobs : ApprovalOf[j] = a /\ effects'[j] > 0
  BY <1>1, EffectsKept DEF Accounted
<1>2. ASSUME gate[a] # "executed", QueueNext
      PROVE  \E j \in Jobs : ApprovalOf[j] = a /\ effects'[j] > 0
  <2>1. PICK w \in Workers : Queue!FinishApproval(w)
    BY <1>2, QueueFinishes
  <2>2. PICK j \in Jobs : /\ ApprovalOf[j] \in Requests /\ effects[j] > 0
                         /\ gate' = [gate EXCEPT ![ApprovalOf[j]] =
                                        IF @ = "executing" THEN "executed" ELSE @]
    BY <2>1, WorkerAccounts
  <2>3. ApprovalOf[j] = a
    BY <1>2, <2>2 DEF GateInv, Gate!TypeOK
  <2> QED
    BY <2>2, <2>3, EffectsKept
<1>3. ASSUME gate[a] # "executed", Gate!Next
      PROVE  fired'[a] > 0
  <2> USE DEF GateInv, Gate!TypeOK
  <2>1. PICK r \in Requests : Gate!ExecuteApproved(r) /\ a = r
    BY <1>3, GateStepShape DEF GateShape, RowMoves, Gate!ExecuteDirect, Gate!RequestApproval,
         Gate!RequestCommits, Gate!Lapse, Gate!ExecuteApproved, Gate!gateVars
  <2> QED
    BY <2>1 DEF Gate!ExecuteApproved
<1>4. ASSUME gate[a] # "executed" PROVE ~UNCHANGED vars
  BY <1>4 DEF vars
<1> QED
  BY <1>1, <1>2, <1>3, <1>4 DEF Next

\* An approval recorded executed had its effect, under the decision or under a
\* job that carries it (finishTx, finishApproval).
THEOREM GovernedExecutedHasEffect == Spec => []ExecutedHasEffect
<1>1. Init => Accounted
  BY DEF Init, Gate!Init, Accounted
<1>2. GateInv /\ GateInv' /\ QueueP!IInv /\ QueueP!IInv' /\ Accounted /\ [Next]_vars => Accounted'
  BY AccountedStep
<1>3. GateInv /\ QueueP!IInv /\ Accounted => ExecutedHasEffect
  <2> SUFFICES ASSUME GateInv, QueueP!IInv, Accounted, NEW a \in Requests, gate[a] = "executed"
               PROVE  Uses(a) >= 1
    BY DEF ExecutedHasEffect
  <2> DEFINE done == {j \in JobsUnder(a) : effects[j] > 0}
  <2>1. IsFiniteSet(done)
    <3>1. done \subseteq Jobs
      BY DEF JobsUnder
    <3> QED
      BY <3>1, WorkAssumption, FS_Subset
  <2>2. Cardinality(done) \in Nat
    BY <2>1, FS_CardinalityType
  <2>3. done # {} => Cardinality(done) # 0
    BY <2>1, FS_EmptySet
  <2>4. fired[a] \in Nat
    BY DEF GateInv, Gate!TypeOK
  <2>5. fired[a] > 0 \/ done # {}
    BY DEF Accounted, JobsUnder
  <2> HIDE DEF done
  <2>6. fired[a] + Cardinality(done) >= 1
    BY <2>2, <2>3, <2>4, <2>5
  <2> QED
    BY <2>6 DEF Uses, done
<1> QED
  BY <1>1, <1>2, <1>3, GateInvAlways, QueueInvAlways, PTL DEF Spec
=============================================================================
