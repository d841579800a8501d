------------------------- MODULE ApprovalGateProofs -------------------------
(***************************************************************************)
(* Proofs about ApprovalGate, for any requests, requesters, intents and    *)
(* number of Decide calls and crashes.                                     *)
(*                                                                         *)
(* The invariant IInv follows a row from its request to its decision: an   *)
(* intent is taken by one request only, a claimed row belongs to one       *)
(* Decide call, and only that call can fire its effect.                    *)
(***************************************************************************)
EXTENDS ApprovalGate, TLAPS

\* What the invariants need of the constants.
LEMMA GateFacts ==
  /\ NoRequest \notin Requests
  /\ MaxCrashes \in Nat
  BY GateAssumption

\* The ways a Decide call moves keep its types.
LEMMA MoveTypes ==
  ASSUME TypeOK, NEW d \in Deciders, NEW label \in DPCs, Proceed(d, label) \/ Leave(d)
  PROVE  dpc' \in [Deciders -> DPCs] /\ deciding' \in [Deciders -> Requests \cup {NoRequest}]
<1>1. "idle" \in DPCs
  BY DEF DPCs
<1> QED
  BY <1>1 DEF TypeOK, Proceed, Leave

\* Types are kept by every transaction of a caller and of Decide.
LEMMA TypeStep == TypeOK /\ DecidesKnown /\ [Next]_vars => TypeOK'
<1> SUFFICES ASSUME TypeOK, DecidesKnown, [Next]_vars PROVE TypeOK'
  OBVIOUS
<1> USE GateFacts DEF TypeOK, gateVars, deciderVars, effectVars
<1> DEFINE Memory == /\ dpc' \in [Deciders -> DPCs]
                     /\ deciding' \in [Deciders -> Requests \cup {NoRequest}]
<1>1. ASSUME NEW r \in Requests, ExecuteDirect(r) PROVE TypeOK'
  BY <1>1 DEF ExecuteDirect
<1>2. ASSUME NEW r \in Requests, RequestApproval(r) PROVE TypeOK'
  BY <1>2, GateAssumption DEF RequestApproval, SupersededBy
<1>3. ASSUME NEW r \in Requests, RequestCommits(r) PROVE TypeOK'
  BY <1>3 DEF RequestCommits, GateStatus
<1>4. ASSUME NEW r \in Requests, Lapse(r) PROVE TypeOK'
  BY <1>4 DEF Lapse
<1>5. ASSUME NEW d \in Deciders, NEW r \in Requests, NEW decision \in {"approve", "reject"},
             DecideRead(d, r, decision)
      PROVE TypeOK'
  BY <1>5 DEF DecideRead, DPCs
<1>6. ASSUME NEW d \in Deciders, DecideRefuse(d) PROVE TypeOK'
  <2>1. Memory
    BY <1>6, MoveTypes DEF DecideRefuse, DPCs
  <2> QED
    BY <1>6, <2>1 DEF DecideRefuse, MoveIfPending, GateStatus
<1>7. ASSUME NEW d \in Deciders, DecideClaim(d) PROVE TypeOK'
  <2>1. Memory
    BY <1>7, MoveTypes DEF DecideClaim, DPCs
  <2> QED
    BY <1>7, <2>1 DEF DecideClaim, MoveIfPending, GateStatus
<1>8. ASSUME NEW d \in Deciders, DecideExecute(d) \/ DecideUnanswered(d) PROVE TypeOK'
  <2>1. Memory
    BY <1>8, MoveTypes DEF DecideExecute, DecideUnanswered, DPCs
  <2>2. deciding[d] \in Requests
    BY <1>8 DEF DecideExecute, DecideUnanswered, DecidesKnown
  <2> QED
    BY <1>8, <2>1, <2>2 DEF DecideExecute, DecideUnanswered, ExecuteApproved, GateStatus
<1>9. ASSUME NEW d \in Deciders, DecideUnverified(d) \/ DecideFails(d) PROVE TypeOK'
  <2>1. Memory
    BY <1>9, MoveTypes DEF DecideUnverified, DecideFails, DPCs
  <2> QED
    BY <1>9, <2>1 DEF DecideUnverified, DecideFails
<1>10. ASSUME NEW d \in Deciders, DecideSettle(d) PROVE TypeOK'
  <2>1. Memory
    BY <1>10, MoveTypes DEF DecideSettle, DPCs
  <2> QED
    BY <1>10, <2>1 DEF DecideSettle, MoveIfExecuting, GateStatus
<1>11. ASSUME NEW d \in Deciders, DecideCrash(d) PROVE TypeOK'
  <2>1. Memory
    BY <1>11, MoveTypes DEF DecideCrash, DPCs
  <2> QED
    BY <1>11, <2>1 DEF DecideCrash
<1>12. CASE UNCHANGED vars
  BY <1>12 DEF vars
<1> QED
  BY <1>1, <1>2, <1>3, <1>4, <1>5, <1>6, <1>7, <1>8, <1>9, <1>10, <1>11, <1>12
     DEF Next, CallerNext, DeciderNext, DecideStep

\* A step that moves no row, opens no request and fires nothing, and in which
\* no Decide call takes a claim, keeps everything but the types.
LEMMA QuietStep ==
  ASSUME IInv, UNCHANGED <<gate, fired>>, open' = open,
         NEW d \in Deciders,
         \A e \in Deciders \ {d} : dpc'[e] = dpc[e] /\ deciding'[e] = deciding[e],
         \/ dpc'[d] = "idle"
         \/ Holding(d) /\ Holding(d)' /\ deciding'[d] = deciding[d]
            /\ (dpc'[d] = "restoring" \/ dpc[d] = "claimed")
         \/ dpc'[d] \in {"approve", "reject", "expire"} /\ deciding'[d] \in Requests
  PROVE  /\ DecidesKnown' /\ ClaimHeld' /\ ClaimAlone'
         /\ OpenIsNew' /\ IntentTaken' /\ FiredOnce' /\ ExecutedIffFired'
<1> USE DEF IInv
<1>1. DecidesKnown'
  BY DEF DecidesKnown, Holding
<1>2. \A e \in Deciders : Holding(e)' => Holding(e) /\ deciding'[e] = deciding[e]
  BY DEF Holding
<1>3. ClaimHeld'
  BY <1>2 DEF ClaimHeld, Holding
<1>4. ClaimAlone'
  BY <1>2 DEF ClaimAlone
<1>5. OpenIsNew' /\ FiredOnce' /\ ExecutedIffFired'
  BY DEF OpenIsNew, FiredOnce, ExecutedIffFired
<1>6. IntentTaken'
  BY DEF IntentTaken, Active
<1> QED
  BY <1>1, <1>3, <1>4, <1>5, <1>6

\* One Decide call leaves, and the row it decided may move: from pending to a
\* refusal, or, claimed, to failed or back to pending.
LEMMA LeaveStep ==
  ASSUME IInv, NEW d \in Deciders, dpc[d] # "idle", Leave(d),
         UNCHANGED <<fired, open>>,
         NEW to \in GateStatus \ {"absent", "executing", "executed"},
         \/ gate' = gate
         \/ gate[deciding[d]] = "pending" /\ gate' = [gate EXCEPT ![deciding[d]] = to]
         \/ Holding(d) /\ gate[deciding[d]] = "executing"
            /\ gate' = [gate EXCEPT ![deciding[d]] = to]
  PROVE  /\ DecidesKnown' /\ ClaimHeld' /\ ClaimAlone'
         /\ OpenIsNew' /\ IntentTaken' /\ FiredOnce' /\ ExecutedIffFired'
<1> USE DEF IInv, TypeOK
<1>1. deciding[d] \in Requests
  BY DEF DecidesKnown
<1>2. DecidesKnown'
  BY DEF Leave, DecidesKnown
<1>3. \A e \in Deciders : Holding(e)' => e # d /\ Holding(e) /\ deciding'[e] = deciding[e]
  BY DEF Leave, Holding
<1>4. \A e \in Deciders : Holding(e)' => gate'[deciding[e]] = gate[deciding[e]]
  BY <1>1, <1>3 DEF ClaimHeld, ClaimAlone, DecidesKnown, Holding
<1>5. ClaimHeld'
  BY <1>3, <1>4 DEF ClaimHeld, Holding, Leave
<1>6. ClaimAlone'
  BY <1>3 DEF ClaimAlone
<1>7. OpenIsNew'
  BY <1>1 DEF OpenIsNew
<1>8. IntentTaken'
  BY <1>1 DEF IntentTaken, Active
<1>9. FiredOnce' /\ ExecutedIffFired'
  BY <1>1 DEF FiredOnce, ExecutedIffFired
<1> QED
  BY <1>2, <1>5, <1>6, <1>7, <1>8, <1>9

\* The approved effect commits: the row was claimed by this call alone and had
\* not fired, whether the answer to the commit arrives or not.
LEMMA ExecuteStep ==
  ASSUME IInv, NEW d \in Deciders, dpc[d] = "claimed", ExecuteApproved(deciding[d]),
         Leave(d) \/ Proceed(d, "restoring"), open' = open
  PROVE  /\ DecidesKnown' /\ ClaimHeld' /\ ClaimAlone'
         /\ OpenIsNew' /\ IntentTaken' /\ FiredOnce' /\ ExecutedIffFired'
<1> USE DEF IInv, TypeOK
<1>1. deciding[d] \in Requests /\ Holding(d)
  BY DEF DecidesKnown, Holding
<1>2. fired[deciding[d]] = 0
  BY <1>1 DEF ExecuteApproved, ExecutedIffFired, FiredOnce
<1>3. DecidesKnown'
  BY DEF Leave, Proceed, DecidesKnown
<1>4. \A e \in Deciders : Holding(e)' =>
        /\ Holding(e) /\ deciding'[e] = deciding[e]
        /\ (e = d => dpc'[e] = "restoring")
  BY <1>1 DEF Leave, Proceed, Holding
<1>5. ClaimHeld'
  <2> SUFFICES ASSUME NEW e \in Deciders, Holding(e)'
               PROVE  \/ gate'[deciding'[e]] = "executing"
                      \/ dpc'[e] = "restoring" /\ gate'[deciding'[e]] = "executed"
    BY DEF ClaimHeld
  <2>1. CASE e = d
    BY <2>1, <1>1, <1>4 DEF ExecuteApproved
  <2>2. CASE e # d
    <3>1. deciding[e] # deciding[d]
      BY <2>2, <1>1, <1>4 DEF ClaimAlone
    <3>2. gate'[deciding[e]] = gate[deciding[e]] /\ dpc'[e] = dpc[e]
      BY <3>1, <2>2, <1>4 DEF ExecuteApproved, DecidesKnown, Holding, Leave, Proceed
    <3> QED
      BY <3>2, <1>4 DEF ClaimHeld
  <2> QED
    BY <2>1, <2>2
<1>6. ClaimAlone'
  BY <1>4 DEF ClaimAlone
<1>7. OpenIsNew'
  BY <1>1 DEF OpenIsNew, ExecuteApproved
<1>8. IntentTaken'
  <2>1. \A r \in Requests : Active(r)' => Active(r)
    BY <1>1 DEF Active, ExecuteApproved
  <2> QED
    BY <2>1 DEF IntentTaken
<1>9. FiredOnce' /\ ExecutedIffFired'
  BY <1>1, <1>2 DEF FiredOnce, ExecutedIffFired, ExecuteApproved
<1> QED
  BY <1>3, <1>5, <1>6, <1>7, <1>8, <1>9

\* A call that finds its intent free takes it: no other request of the intent
\* is active, so it stays the only one.
LEMMA FreshTakes ==
  ASSUME IntentTaken, NEW r \in Requests, Fresh(r),
         \A s \in Requests \ {r} : Active(s)' => Active(s)
  PROVE  IntentTaken'
<1>1. \A s, t \in Requests : SameIntent(s, t) => SameIntent(t, s)
  BY DEF SameIntent
<1>2. \A s \in Requests : SameIntent(r, s) => ~Active(s)
  BY DEF Fresh, Active
<1> QED
  BY <1>1, <1>2 DEF IntentTaken

\* The inductive step: one case per action.
LEMMA InvStep == IInv /\ [Next]_vars => IInv'
<1> SUFFICES ASSUME IInv, [Next]_vars PROVE IInv'
  OBVIOUS
<1>0. TypeOK'
  BY TypeStep DEF IInv
<1> DEFINE Rest == /\ DecidesKnown' /\ ClaimHeld' /\ ClaimAlone'
                   /\ OpenIsNew' /\ IntentTaken' /\ FiredOnce' /\ ExecutedIffFired'
<1> USE DEF gateVars, deciderVars, effectVars
<1>1. ASSUME NEW r \in Requests, ExecuteDirect(r) PROVE Rest
  <2> USE <1>1 DEF ExecuteDirect
  <2>1. r \notin open /\ gate[r] = "absent" /\ fired[r] = 0
    BY DEF Fresh, SameIntent
  <2>2. DecidesKnown' /\ ClaimHeld' /\ ClaimAlone'
    BY DEF IInv, DecidesKnown, ClaimHeld, ClaimAlone, Holding
  <2>3. OpenIsNew' /\ FiredOnce' /\ ExecutedIffFired'
    BY <2>1 DEF IInv, TypeOK, OpenIsNew, FiredOnce, ExecutedIffFired
  <2>4. \A s \in Requests \ {r} : Active(s)' => Active(s)
    BY DEF Active, IInv, TypeOK
  <2>5. IntentTaken'
    BY <2>4, FreshTakes DEF IInv
  <2> QED
    BY <2>2, <2>3, <2>5
<1>2. ASSUME NEW r \in Requests, RequestApproval(r) PROVE Rest
  <2> USE <1>2 DEF RequestApproval
  <2>1. r \notin open /\ gate[r] = "absent" /\ fired[r] = 0
    BY DEF Fresh, SameIntent
  <2>2. DecidesKnown' /\ ClaimHeld' /\ ClaimAlone'
    BY DEF IInv, DecidesKnown, ClaimHeld, ClaimAlone, Holding
  <2>3. OpenIsNew' /\ FiredOnce' /\ ExecutedIffFired'
    BY <2>1 DEF IInv, OpenIsNew, FiredOnce, ExecutedIffFired
  <2>4. \A s \in Requests \ {r} : Active(s)' => Active(s)
    BY DEF Active
  <2>5. IntentTaken'
    BY <2>4, FreshTakes DEF IInv
  <2> QED
    BY <2>2, <2>3, <2>5
<1>3. ASSUME NEW r \in Requests, RequestCommits(r) PROVE Rest
  <2> USE <1>3 DEF RequestCommits
  <2>1. gate[r] = "absent" /\ fired[r] = 0
    BY DEF IInv, OpenIsNew
  <2>2. \A s \in Requests : s # r =>
          gate'[s] = gate[s] \/ (gate[s] = "pending" /\ gate'[s] = "superseded")
    BY DEF IInv, TypeOK
  <2>3. \A e \in Deciders : Holding(e) =>
          deciding[e] \in Requests /\ gate'[deciding[e]] = gate[deciding[e]]
    BY <2>1, <2>2 DEF IInv, ClaimHeld, DecidesKnown, Holding
  <2>4. DecidesKnown' /\ ClaimHeld' /\ ClaimAlone'
    BY <2>3 DEF IInv, DecidesKnown, ClaimHeld, ClaimAlone, Holding
  <2>5. OpenIsNew'
    BY <2>2 DEF IInv, OpenIsNew, TypeOK
  <2>6. FiredOnce' /\ ExecutedIffFired'
    BY <2>1, <2>2 DEF IInv, TypeOK, FiredOnce, ExecutedIffFired
  <2>7. \A s \in Requests : Active(s)' => Active(s)
    BY <2>2 DEF Active, IInv, TypeOK
  <2>8. IntentTaken'
    BY <2>7 DEF IInv, IntentTaken
  <2> QED
    BY <2>4, <2>5, <2>6, <2>8
<1>4. ASSUME NEW r \in Requests, Lapse(r) PROVE Rest
  BY <1>4 DEF Lapse, IInv, DecidesKnown, ClaimHeld, ClaimAlone, Holding, OpenIsNew,
             IntentTaken, Active, FiredOnce, ExecutedIffFired
<1>5. ASSUME NEW d \in Deciders, NEW r \in Requests, NEW decision \in {"approve", "reject"},
             DecideRead(d, r, decision)
      PROVE Rest
  <2>1. dpc'[d] \in {"approve", "reject", "expire"} /\ deciding'[d] = r
    BY <1>5 DEF DecideRead, IInv, TypeOK
  <2> QED
    BY <1>5, <2>1, QuietStep DEF DecideRead, IInv, TypeOK
<1>6. ASSUME NEW d \in Deciders, DecideRefuse(d) PROVE Rest
  <2> DEFINE to == IF dpc[d] = "reject" THEN "rejected" ELSE "expired"
  <2>1. to \in GateStatus \ {"absent", "executing", "executed"}
    BY DEF GateStatus
  <2>2. deciding[d] \in Requests
    BY <1>6 DEF DecideRefuse, IInv, DecidesKnown
  <2>3. gate' = gate \/ (gate[deciding[d]] = "pending" /\ gate' = [gate EXCEPT ![deciding[d]] = to])
    BY <1>6, <2>2 DEF DecideRefuse, MoveIfPending, IInv, TypeOK
  <2> HIDE DEF to
  <2> QED
    BY <1>6, <2>1, <2>3, LeaveStep DEF DecideRefuse
<1>7. ASSUME NEW d \in Deciders, DecideClaim(d) PROVE Rest
  <2>1. CASE gate[deciding[d]] # "pending"
    <3>1. gate' = gate
      BY <1>7, <2>1 DEF DecideClaim, MoveIfPending, IInv, TypeOK
    <3>2. dpc'[d] = "idle" /\ \A e \in Deciders \ {d} : dpc'[e] = dpc[e] /\ deciding'[e] = deciding[e]
      BY <1>7, <2>1 DEF DecideClaim, Leave, IInv, TypeOK
    <3> QED
      BY <1>7, <3>1, <3>2, QuietStep DEF DecideClaim
  <2>2. CASE gate[deciding[d]] = "pending"
    <3> USE <1>7, <2>2 DEF DecideClaim, IInv, TypeOK
    <3>1. deciding[d] \in Requests
      BY DEF DecidesKnown
    <3>2. gate' = [gate EXCEPT ![deciding[d]] = "executing"]
      BY <3>1 DEF MoveIfPending
    <3>3. dpc' = [dpc EXCEPT ![d] = "claimed"] /\ deciding' = deciding
      BY DEF Proceed
    <3>4. \A e \in Deciders : Holding(e) => deciding[e] # deciding[d]
      BY DEF ClaimHeld
    <3>5. \A e \in Deciders : Holding(e)' => e = d \/ Holding(e)
      BY <3>3 DEF Holding
    <3>6. DecidesKnown'
      BY <3>3 DEF DecidesKnown
    <3>7. ClaimHeld'
      BY <3>1, <3>2, <3>3, <3>4, <3>5 DEF ClaimHeld, Holding, DecidesKnown
    <3>8. ClaimAlone'
      BY <3>3, <3>4, <3>5 DEF ClaimAlone
    <3>9. OpenIsNew'
      BY <3>1, <3>2 DEF OpenIsNew
    <3>10. IntentTaken'
      BY <3>1, <3>2 DEF IntentTaken, Active
    <3>11. FiredOnce' /\ ExecutedIffFired'
      BY <3>1, <3>2 DEF FiredOnce, ExecutedIffFired
    <3> QED
      BY <3>6, <3>7, <3>8, <3>9, <3>10, <3>11
  <2> QED
    BY <2>1, <2>2
<1>8. ASSUME NEW d \in Deciders, DecideExecute(d) \/ DecideUnanswered(d) PROVE Rest
  BY <1>8, ExecuteStep DEF DecideExecute, DecideUnanswered
<1>9. ASSUME NEW d \in Deciders, DecideUnverified(d) \/ DecideFails(d) PROVE Rest
  <2>1. /\ Holding(d) /\ dpc[d] = "claimed" /\ dpc'[d] \in {"failing", "restoring"}
        /\ deciding' = deciding /\ \A e \in Deciders \ {d} : dpc'[e] = dpc[e]
    BY <1>9 DEF DecideUnverified, DecideFails, Proceed, Holding, IInv, TypeOK
  <2>2. Holding(d)'
    BY <2>1 DEF Holding
  <2> QED
    BY <1>9, <2>1, <2>2, QuietStep DEF DecideUnverified, DecideFails
<1>10. ASSUME NEW d \in Deciders, DecideSettle(d) PROVE Rest
  <2> DEFINE to == IF dpc[d] = "failing" THEN "failed" ELSE "pending"
  <2>1. to \in GateStatus \ {"absent", "executing", "executed"}
    BY DEF GateStatus
  <2>2. deciding[d] \in Requests /\ Holding(d)
    BY <1>10 DEF DecideSettle, IInv, DecidesKnown, Holding
  <2>3. gate' = gate \/ (gate[deciding[d]] = "executing" /\ gate' = [gate EXCEPT ![deciding[d]] = to])
    BY <1>10, <2>2 DEF DecideSettle, MoveIfExecuting, IInv, TypeOK
  <2> HIDE DEF to
  <2> QED
    BY <1>10, <2>1, <2>2, <2>3, LeaveStep DEF DecideSettle
<1>11. ASSUME NEW d \in Deciders, DecideCrash(d) PROVE Rest
  <2>1. dpc'[d] = "idle" /\ \A e \in Deciders \ {d} : dpc'[e] = dpc[e] /\ deciding'[e] = deciding[e]
    BY <1>11 DEF DecideCrash, Leave, IInv, TypeOK
  <2> QED
    BY <1>11, <2>1, QuietStep DEF DecideCrash
<1>12. ASSUME UNCHANGED vars PROVE Rest
  BY <1>12 DEF vars, IInv, DecidesKnown, ClaimHeld, ClaimAlone, Holding, OpenIsNew,
              IntentTaken, Active, FiredOnce, ExecutedIffFired
<1> HIDE DEF Rest
<1>13. Rest
  BY <1>1, <1>2, <1>3, <1>4, <1>5, <1>6, <1>7, <1>8, <1>9, <1>10, <1>11, <1>12
     DEF Next, CallerNext, DeciderNext, DecideStep
<1> QED
  BY <1>0, <1>13 DEF IInv, Rest

\* An empty gate: nothing requested, claimed or fired.
LEMMA InvInit == Init => IInv
<1> SUFFICES ASSUME Init PROVE IInv
  OBVIOUS
<1>1. TypeOK
  BY GateFacts DEF Init, TypeOK, GateStatus, DPCs
<1>2. DecidesKnown /\ ClaimHeld /\ ClaimAlone
  BY DEF Init, DecidesKnown, ClaimHeld, ClaimAlone, Holding
<1>3. OpenIsNew /\ IntentTaken /\ FiredOnce /\ ExecutedIffFired
  BY DEF Init, OpenIsNew, IntentTaken, Active, FiredOnce, ExecutedIffFired
<1> QED
  BY <1>1, <1>2, <1>3 DEF IInv

\* The invariant holds of every reachable state of the gate.
LEMMA InvAlways == Spec => []IInv
  BY InvInit, InvStep, PTL DEF Spec

-----------------------------------------------------------------------------

\* Every row, decision and counter of the approval gate keeps its type.
THEOREM GateTypeCorrect == Spec => []TypeOK
<1>1. IInv => TypeOK
  BY DEF IInv
<1> QED
  BY InvAlways, <1>1, PTL

\* However many callers retry and however many humans decide, at most one
\* request of an action intent has its business effect, and only once.
THEOREM GateFiresOnce == Spec => []IntentFiresOnce
<1>1. IInv => IntentFiresOnce
  <2> SUFFICES ASSUME IInv, NEW r \in Requests, NEW s \in Requests, SameIntent(r, s)
               PROVE  IF r = s THEN fired[r] <= 1 ELSE fired[r] + fired[s] <= 1
    BY DEF IntentFiresOnce
  <2>1. fired[r] \in Nat /\ fired[s] \in Nat /\ fired[r] <= 1 /\ fired[s] <= 1
    BY DEF IInv, TypeOK, FiredOnce
  <2>2. r # s => ~(fired[r] > 0 /\ fired[s] > 0)
    BY DEF IInv, IntentTaken, Active
  <2> QED
    BY <2>1, <2>2
<1> QED
  BY InvAlways, <1>1, PTL

\* An approval says executed exactly when its action has had its effect, also
\* after a lost answer, a restore, a crash and a second approver.
THEOREM GateExecutedIffFired == Spec => []ExecutedIffFired
<1>1. IInv => ExecutedIffFired
  BY DEF IInv
<1> QED
  BY InvAlways, <1>1, PTL

\* Of any number of concurrent Decide calls one holds the claim of a row, and
\* the row stays executing until that call settles it.
THEOREM GateOneClaimant == Spec => []OneClaimant
<1>1. IInv => OneClaimant
  BY DEF IInv, OneClaimant, ClaimHeld, ClaimAlone, Holding
<1> QED
  BY InvAlways, <1>1, PTL

\* No step takes an approval out of executed, rejected, expired, failed or
\* superseded.
THEOREM GateDecisionsAreFinal == Spec => DecisionsAreFinal
<1> DEFINE Final == \A r \in Requests : gate[r] \in Decided => gate'[r] = gate[r]
<1>1. ASSUME IInv, [Next]_vars PROVE [Final]_vars
  <2> SUFFICES ASSUME Next PROVE Final
    BY <1>1
  <2> USE <1>1 DEF IInv, TypeOK, Decided, gateVars, deciderVars, effectVars
  <2>1. ASSUME NEW r \in Requests, RequestCommits(r) PROVE Final
    BY <2>1 DEF RequestCommits, OpenIsNew
  <2>2. ASSUME NEW r \in Requests, ExecuteDirect(r) \/ RequestApproval(r) \/ Lapse(r) PROVE Final
    BY <2>2 DEF ExecuteDirect, RequestApproval, Lapse
  <2>3. ASSUME NEW d \in Deciders, DecideRefuse(d) \/ DecideClaim(d) PROVE Final
    BY <2>3 DEF DecideRefuse, DecideClaim, MoveIfPending
  <2>4. ASSUME NEW d \in Deciders, DecideExecute(d) \/ DecideUnanswered(d) PROVE Final
    BY <2>4 DEF DecideExecute, DecideUnanswered, ExecuteApproved
  <2>5. ASSUME NEW d \in Deciders, DecideSettle(d) PROVE Final
    BY <2>5 DEF DecideSettle, MoveIfExecuting
  <2>6. ASSUME NEW d \in Deciders, DecideUnverified(d) \/ DecideFails(d) \/ DecideCrash(d)
        PROVE Final
    BY <2>6 DEF DecideUnverified, DecideFails, DecideCrash
  <2>7. ASSUME NEW d \in Deciders, NEW r \in Requests, NEW decision \in {"approve", "reject"},
               DecideRead(d, r, decision)
        PROVE Final
    BY <2>7 DEF DecideRead
  <2> HIDE DEF Final
  <2> QED
    BY <2>1, <2>2, <2>3, <2>4, <2>5, <2>6, <2>7 DEF Next, CallerNext, DeciderNext, DecideStep
<1> QED
  BY InvAlways, <1>1, PTL DEF Spec, DecisionsAreFinal
=============================================================================
