----------------------------- MODULE EffectOnce -----------------------------
(***************************************************************************)
(* What the durable queue promises of a queued capability, said without    *)
(* workers, leases or fencing tokens: the governed effect of a job commits *)
(* at most once, together with its receipt, and only while the job is      *)
(* open; a job is acknowledged `done' only after its effect; a settled job *)
(* is never touched again.  JobQueue implements this specification.        *)
(***************************************************************************)
EXTENDS Naturals

CONSTANT Jobs

VARIABLES receipts,  \* the jobs whose intent has a stored receipt
          effects,   \* how many times each job's business effect committed
          outcome    \* what the queue has told the outside about each job

vars == <<receipts, effects, outcome>>

Outcomes == {"open", "done", "failed"}

Init == /\ receipts = {}
        /\ effects = [j \in Jobs |-> 0]
        /\ outcome = [j \in Jobs |-> "open"]

\* The effect and its receipt become visible together.
Fire(j) == /\ outcome[j] = "open"
           /\ j \notin receipts
           /\ receipts' = receipts \cup {j}
           /\ effects' = [effects EXCEPT ![j] = @ + 1]
           /\ UNCHANGED outcome

Acknowledge(j) == /\ outcome[j] = "open"
                  /\ j \in receipts
                  /\ outcome' = [outcome EXCEPT ![j] = "done"]
                  /\ UNCHANGED <<receipts, effects>>

\* One sweep of the queue may give up on several jobs.
GiveUp(S) == /\ \A j \in S : outcome[j] = "open"
             /\ outcome' = [j \in Jobs |-> IF j \in S THEN "failed" ELSE outcome[j]]
             /\ UNCHANGED <<receipts, effects>>

Next == \/ \E j \in Jobs : Fire(j) \/ Acknowledge(j)
        \/ \E S \in SUBSET Jobs : GiveUp(S)

Spec == Init /\ [][Next]_vars
=============================================================================
