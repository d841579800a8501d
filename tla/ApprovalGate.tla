---------------------------- MODULE ApprovalGate ----------------------------
(***************************************************************************)
(* The approval gate of the capability executor: callers submit actions    *)
(* under an action intent (executeWithFinalizer and requestApproval in     *)
(* capability/executor.go) and humans decide the approvals this creates    *)
(* (Decide in capability/approval.go).                                     *)
(*                                                                         *)
(* A request stands for one action a caller wants, with its intent and its *)
(* payload; the approval row it may create is named after it.  Each        *)
(* database transaction is one action, except the one that requests an     *)
(* approval: under READ COMMITTED the proposals it supersedes are read     *)
(* before its own row can be seen.                                         *)
(***************************************************************************)
EXTENDS Naturals, FiniteSets

CONSTANTS
  Requests,   \* actions callers submit
  Deciders,   \* Decide calls that may be in flight at a time
  Users,      \* requesters
  Intents,    \* action intents
  UserOf,     \* the requester of a request
  IntentOf,   \* its intent, NoIntent when the caller gave none
  Versioned,  \* requests for one capability whose proposals are versioned
  MaxCrashes, \* bound: how many Decide calls may die
  NoIntent, NoRequest

ASSUME GateAssumption ==
  /\ UserOf \in [Requests -> Users]
  /\ IntentOf \in [Requests -> Intents \cup {NoIntent}]
  /\ Versioned \subseteq Requests
  /\ MaxCrashes \in Nat
  /\ NoIntent \notin Intents /\ NoRequest \notin Requests

VARIABLES
  gate,       \* approvals.status of the row of a request, "absent" without one
  lapsed,     \* the approvals whose expires_at has passed
  open,       \* requests whose requestApproval transaction has not committed
  replaces,   \* the pending proposals an open request has marked superseded
  dpc,        \* where each Decide call stands
  deciding,   \* the approval it decides
  answered,   \* the requests whose intent has an action_receipts row
  fired,      \* how often the business effect of a request has committed
  crashes     \* Decide calls that died so far

gateVars   == <<gate, lapsed, open, replaces>>
deciderVars == <<dpc, deciding, crashes>>
effectVars == <<answered, fired>>
vars == <<gate, lapsed, open, replaces, dpc, deciding, answered, fired, crashes>>

GateStatus == {"absent", "pending", "executing", "executed", "rejected",
               "expired", "failed", "superseded"}
DPCs == {"idle", "approve", "reject", "expire", "claimed", "failing", "restoring"}

Init == /\ gate = [r \in Requests |-> "absent"]
        /\ lapsed = {}
        /\ open = {}
        /\ replaces = [r \in Requests |-> {}]
        /\ dpc = [d \in Deciders |-> "idle"]
        /\ deciding = [d \in Deciders |-> NoRequest]
        /\ answered = {}
        /\ fired = [r \in Requests |-> 0]
        /\ crashes = 0

-----------------------------------------------------------------------------
(* Submitting an action.                                                   *)

SameIntent(r, s) == r = s \/ (IntentOf[r] # NoIntent /\ IntentOf[s] = IntentOf[r])

\* Mutant of Fresh: the receipts are looked up, the approvals are not.
FreshUnanswered(r) == \A s \in Requests : SameIntent(r, s) =>
                        s \notin open /\ s \notin answered /\ (s = r => gate[s] = "absent")

\* The advisory lock of the intent is free, and neither loadReceipt nor
\* loadApprovalByIntent finds a row: the call is the first of its intent.  Any
\* other call is answered from those rows and changes nothing.
Fresh(r) == \A s \in Requests : SameIntent(r, s) =>
              s \notin open /\ s \notin answered /\ gate[s] = "absent" /\ fired[s] = 0

\* The UPDATE of an open requestApproval holds the row until it commits.
RowLocked(r) == \E s \in open : r \in replaces[s]

SupersededBy(r) == IF r \in Versioned
                   THEN {s \in Versioned : UserOf[s] = UserOf[r] /\ gate[s] = "pending"}
                   ELSE {}

\* Policy lets the action run at once: effect and receipt, in one transaction.
ExecuteDirect(r) ==
  /\ Fresh(r)
  /\ fired' = [fired EXCEPT ![r] = @ + 1]
  /\ answered' = IF IntentOf[r] = NoIntent THEN answered ELSE answered \cup {r}
  /\ UNCHANGED <<gateVars, deciderVars>>

\* Policy asks for a human: the older proposals are marked, not yet committed.
RequestApproval(r) ==
  /\ Fresh(r)
  /\ open' = open \cup {r}
  /\ replaces' = [replaces EXCEPT ![r] = SupersededBy(r)]
  /\ UNCHANGED <<gate, lapsed, deciderVars, effectVars>>

\* Of the proposals it marked, those another request superseded first no
\* longer match; its own row appears.
RequestCommits(r) ==
  /\ r \in open
  /\ gate' = [s \in Requests |->
                IF s = r THEN "pending"
                ELSE IF s \in replaces[r] /\ gate[s] = "pending" THEN "superseded" ELSE gate[s]]
  /\ open' = open \ {r}
  /\ replaces' = [replaces EXCEPT ![r] = {}]
  /\ UNCHANGED <<lapsed, deciderVars, effectVars>>

\* The seven days of approvalTTL pass.
Lapse(r) ==
  /\ gate[r] \in {"pending", "executing"}
  /\ r \notin lapsed
  /\ lapsed' = lapsed \cup {r}
  /\ UNCHANGED <<gate, open, replaces, deciderVars, effectVars>>

-----------------------------------------------------------------------------
(* Deciding.                                                               *)

Leave(d) == /\ dpc' = [dpc EXCEPT ![d] = "idle"]
            /\ deciding' = [deciding EXCEPT ![d] = NoRequest]

Proceed(d, label) == /\ dpc' = [dpc EXCEPT ![d] = label]
                     /\ UNCHANGED deciding

\* The first statements of Decide's transaction: the row is read, without a
\* lock.  A row that is not pending is answered 409 and nothing happens.
DecideRead(d, r, decision) ==
  /\ dpc[d] = "idle"
  /\ gate[r] = "pending"
  /\ dpc' = [dpc EXCEPT ![d] = IF r \in lapsed THEN "expire" ELSE decision]
  /\ deciding' = [deciding EXCEPT ![d] = r]
  /\ UNCHANGED <<gateVars, effectVars, crashes>>

\* Mutants of the two guarded UPDATEs: the status predicate is missing.
MovePending(r, to) == gate' = [gate EXCEPT ![r] = to]
MoveExecuting(r, to) == gate' = [gate EXCEPT ![r] = to]

\* UPDATE ... WHERE status = 'pending': the row moves if it still is pending.
MoveIfPending(r, to) ==
  gate' = [gate EXCEPT ![r] = IF @ = "pending" THEN to ELSE @]

\* UPDATE ... WHERE status = 'executing'.
MoveIfExecuting(r, to) ==
  gate' = [gate EXCEPT ![r] = IF @ = "executing" THEN to ELSE @]

\* Mutant of DecideRefuse: the decision is stored in place of the status.
DecideRefuseVerbatim(d) ==
  /\ dpc[d] \in {"reject", "expire"}
  /\ ~RowLocked(deciding[d])
  /\ MoveIfPending(deciding[d], dpc[d])
  /\ Leave(d)
  /\ UNCHANGED <<lapsed, open, replaces, effectVars, crashes>>

\* Reject, or expire a row that was found past its expires_at.
DecideRefuse(d) ==
  /\ dpc[d] \in {"reject", "expire"}
  /\ ~RowLocked(deciding[d])
  /\ MoveIfPending(deciding[d], IF dpc[d] = "reject" THEN "rejected" ELSE "expired")
  /\ Leave(d)
  /\ UNCHANGED <<lapsed, open, replaces, effectVars, crashes>>

\* Mutant of DecideClaim: the row count of the claim is not looked at.
DecideClaimUncounted(d) ==
  /\ dpc[d] = "approve"
  /\ ~RowLocked(deciding[d])
  /\ MoveIfPending(deciding[d], "executing")
  /\ Proceed(d, "claimed")
  /\ UNCHANGED <<lapsed, open, replaces, effectVars, crashes>>

\* Approve: the claim commits before anything is executed.
DecideClaim(d) ==
  /\ dpc[d] = "approve"
  /\ ~RowLocked(deciding[d])
  /\ MoveIfPending(deciding[d], "executing")
  /\ IF gate[deciding[d]] = "pending" THEN Proceed(d, "claimed") ELSE Leave(d)
  /\ UNCHANGED <<lapsed, open, replaces, effectVars, crashes>>

\* ExecuteWithApprovalFinalizer: effect, receipt and finishTx in one
\* transaction, which rolls back if the row is no longer executing.
ExecuteApproved(r) ==
  /\ gate[r] = "executing"
  /\ r \notin answered
  /\ gate' = [gate EXCEPT ![r] = "executed"]
  /\ fired' = [fired EXCEPT ![r] = @ + 1]
  /\ answered' = IF IntentOf[r] = NoIntent THEN answered ELSE answered \cup {r}

DecideExecute(d) ==
  /\ dpc[d] = "claimed"
  /\ ExecuteApproved(deciding[d])
  /\ Leave(d)
  /\ UNCHANGED <<lapsed, open, replaces, crashes>>

\* The same, but the answer to the commit is lost: Decide sees an error.
DecideUnanswered(d) ==
  /\ dpc[d] = "claimed"
  /\ ExecuteApproved(deciding[d])
  /\ Proceed(d, "restoring")
  /\ UNCHANGED <<lapsed, open, replaces, crashes>>

\* The stored payload does not verify.
DecideUnverified(d) ==
  /\ dpc[d] = "claimed"
  /\ Proceed(d, "failing")
  /\ UNCHANGED <<gateVars, effectVars, crashes>>

\* The capability refuses (and nothing was written), or an error or a lost claim
\* rolls the effect back.
DecideFails(d) ==
  /\ dpc[d] = "claimed"
  /\ \E label \in {"failing", "restoring"} : Proceed(d, label)
  /\ UNCHANGED <<gateVars, effectVars, crashes>>

\* Mutant of DecideSettle: a failed execution does not restore the row.
DecideSettleForgets(d) ==
  /\ dpc[d] \in {"failing", "restoring"}
  /\ IF dpc[d] = "failing" THEN MoveIfExecuting(deciding[d], "failed") ELSE UNCHANGED gate
  /\ Leave(d)
  /\ UNCHANGED <<lapsed, open, replaces, effectVars, crashes>>

\* finish(... "failed") and restorePending, in transactions of their own.
DecideSettle(d) ==
  /\ dpc[d] \in {"failing", "restoring"}
  /\ MoveIfExecuting(deciding[d], IF dpc[d] = "failing" THEN "failed" ELSE "pending")
  /\ Leave(d)
  /\ UNCHANGED <<lapsed, open, replaces, effectVars, crashes>>

\* The process dies: an approval it had claimed stays executing.
DecideCrash(d) ==
  /\ dpc[d] # "idle"
  /\ crashes < MaxCrashes
  /\ crashes' = crashes + 1
  /\ Leave(d)
  /\ UNCHANGED <<gateVars, effectVars>>

-----------------------------------------------------------------------------
CallerNext == \E r \in Requests : \/ ExecuteDirect(r) \/ RequestApproval(r)
                                  \/ RequestCommits(r) \/ Lapse(r)

DecideStep(d) == \/ DecideRefuse(d) \/ DecideClaim(d) \/ DecideExecute(d)
                 \/ DecideUnanswered(d) \/ DecideUnverified(d) \/ DecideFails(d)
                 \/ DecideSettle(d)

DeciderNext == \E d \in Deciders :
                 \/ \E r \in Requests, decision \in {"approve", "reject"} : DecideRead(d, r, decision)
                 \/ DecideStep(d)
                 \/ DecideCrash(d)

Next == CallerNext \/ DeciderNext

Spec == Init /\ [][Next]_vars

\* A Decide call that has started goes on, and so does a request's transaction.
Fairness == /\ \A d \in Deciders : WF_vars(DecideStep(d))
            /\ \A r \in Requests : WF_vars(RequestCommits(r))

FairSpec == Spec /\ Fairness

-----------------------------------------------------------------------------
(* Properties.                                                             *)

TypeOK == /\ gate \in [Requests -> GateStatus]
          /\ lapsed \subseteq Requests
          /\ open \subseteq Requests
          /\ replaces \in [Requests -> SUBSET Requests]
          /\ dpc \in [Deciders -> DPCs]
          /\ deciding \in [Deciders -> Requests \cup {NoRequest}]
          /\ answered \subseteq Requests
          /\ fired \in [Requests -> Nat]
          /\ crashes \in 0..MaxCrashes

\* Of all the requests of one action intent, at most one has its business
\* effect, and that one only once: retries, a second approver, a lost answer
\* and a restored approval included (executeWithFinalizer's intent section).
IntentFiresOnce ==
  \A r, s \in Requests :
    SameIntent(r, s) => IF r = s THEN fired[r] <= 1 ELSE fired[r] + fired[s] <= 1

\* An approval is recorded executed exactly when the action it gates has had
\* its effect: never for a rejected, expired, failed or superseded one, and
\* never without the record (Decide's claim, finalizer and recovery).
ExecutedIffFired ==
  \A r \in Requests : gate[r] # "absent" => (gate[r] = "executed" <=> fired[r] = 1)

\* Only one Decide call at a time works on an approval it has claimed, and as
\* long as it has not committed the row still says executing
\* (UPDATE ... WHERE status = 'pending' against concurrent approvers).
OneClaimant ==
  \A d, e \in Deciders :
    (dpc[d] \in {"claimed", "failing"}) =>
      /\ gate[deciding[d]] = "executing"
      /\ (dpc[e] \in {"claimed", "failing", "restoring"} /\ deciding[e] = deciding[d]) => d = e

(* What makes the properties inductive (see ApprovalGateProofs).           *)

\* A Decide call that still has to settle the row it has claimed.
Holding(d) == dpc[d] \in {"claimed", "failing", "restoring"}

\* The request's call has left a trace its intent can be answered from.
Active(r) == r \in open \/ gate[r] # "absent" \/ fired[r] > 0

DecidesKnown == \A d \in Deciders : dpc[d] # "idle" => deciding[d] \in Requests

\* A claimed row is executing, or executed by a commit whose answer was lost.
ClaimHeld ==
  \A d \in Deciders : Holding(d) =>
    \/ gate[deciding[d]] = "executing"
    \/ dpc[d] = "restoring" /\ gate[deciding[d]] = "executed"

ClaimAlone ==
  \A d, e \in Deciders : Holding(d) /\ Holding(e) /\ deciding[d] = deciding[e] => d = e

OpenIsNew == \A r \in open : gate[r] = "absent" /\ fired[r] = 0

IntentTaken == \A r, s \in Requests : SameIntent(r, s) /\ Active(r) /\ Active(s) => r = s

FiredOnce == \A r \in Requests : fired[r] <= 1

IInv == /\ TypeOK /\ DecidesKnown /\ ClaimHeld /\ ClaimAlone
        /\ OpenIsNew /\ IntentTaken /\ FiredOnce /\ ExecutedIffFired

\* A decision is final: no late approver, retry or newer proposal takes an
\* approval out of a decided status (the status predicates of every UPDATE).
Decided == {"executed", "rejected", "expired", "failed", "superseded"}
DecisionsAreFinal ==
  [][\A r \in Requests : gate[r] \in Decided => gate'[r] = gate[r]]_vars

\* Without a crash no approval stays executing: whatever the execution answers,
\* Decide moves the row on (finish, finishTx, restorePending).
ClaimsResolve ==
  \A r \in Requests :
    (gate[r] = "executing" /\ crashes = 0) ~> (gate[r] # "executing" \/ crashes > 0)

\* ADR 0089: "A revised purchase proposal invalidates the earlier approval
\* instead of leaving two executable versions."
OneExecutableVersion ==
  \A r, s \in Versioned :
    (UserOf[r] = UserOf[s] /\ gate[r] = "pending" /\ gate[s] = "pending") => r = s
=============================================================================
