---------------------------- MODULE GovernedWork ----------------------------
(***************************************************************************)
(* The queue and the approval gate together: workers run queued            *)
(* capabilities under approvals that humans are deciding at the same time. *)
(* The two meet in the approvals table only: JobQueue reads a row when it  *)
(* dispatches a run and when it opens an effect transaction, and finishes  *)
(* it after the effect; ApprovalGate does everything else to it.           *)
(***************************************************************************)
EXTENDS Naturals, FiniteSets

CONSTANTS
  Workers, IdOf, Jobs, Durable, Runs, RunOf, Prev, ApprovalOf, MaxAttempts,
  NoJob, NoOwner,
  Requests, Deciders, Users, Intents, UserOf, IntentOf, Versioned, MaxCrashes,
  NoIntent, NoRequest

VARIABLES
  gate, lapsed,                                              \* shared
  status, attempts, token, owner, live, pc, claim, steps, runs,
  receipts, effects,                                         \* the queue's
  open, replaces, dpc, deciding, answered, fired, crashes    \* the gate's

queueVars  == <<status, attempts, token, owner, live, pc, claim, steps, runs,
                receipts, effects>>
gateVars   == <<open, replaces, dpc, deciding, answered, fired, crashes>>
vars == <<gate, lapsed, queueVars, gateVars>>

Queue == INSTANCE JobQueue WITH Approvals <- Requests, NoApproval <- NoRequest,
                                approvals <- gate
Gate  == INSTANCE ApprovalGate

ASSUME WorkAssumption ==
  /\ Queue!ConstantsAssumption
  /\ Gate!GateAssumption
  /\ IsFiniteSet(Jobs)

Init == Queue!Init /\ Gate!Init

QueueNext == \/ Queue!WorkerNext
             \/ Queue!RunNext
             \/ \E j \in Jobs : Queue!LeaseExpires(j)

Next == \/ QueueNext /\ UNCHANGED gateVars
        \/ Gate!Next /\ UNCHANGED queueVars

Spec == Init /\ [][Next]_vars

-----------------------------------------------------------------------------
\* How often the action an approval authorises has happened: under the
\* decision itself, and under jobs that carry the approval.
JobsUnder(a) == {j \in Jobs : ApprovalOf[j] = a}
Uses(a) == fired[a] + Cardinality({j \in JobsUnder(a) : effects[j] > 0})

\* An approval the records call executed did have its effect, through Decide or
\* through a job, although either side may write the row without looking at
\* what the other did (finishTx, finishApproval).
ExecutedHasEffect == \A a \in Requests : gate[a] = "executed" => Uses(a) >= 1

\* Everything callers and deciders do, the queue has reckoned with: seen from
\* its own tables the composition is a behaviour of JobQueue, so what is proved
\* of the queue holds beside the gate (the status predicates of every UPDATE of
\* approvals, in Decide and in requestApproval).
QueueRefined == Queue!Spec

\* ADR 0020: "A crash between claim and finalize leaves `executing`, which is
\* visible state to re-drive, never silent double-fire."
ApprovalFiresOnce == \A a \in Requests : Uses(a) <= 1
=============================================================================
