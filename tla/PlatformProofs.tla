--------------------------- MODULE PlatformProofs ----------------------------
(***************************************************************************)
(* Proofs about the platform, for all values of the constants of Outbox,   *)
(* of LedgerChain, of Creator and of Access.                               *)
(*                                                                         *)
(* The outbox and the ledger are proved about here, Creator and Access in  *)
(* modules of their own.  The run checks the platform in scenes: a         *)
(* behaviour that starts in a scene is a behaviour of the scene's          *)
(* component and stays in it, so what is proved of the component holds in  *)
(* the scene, and with it the properties that the run checks.  The         *)
(* constants of a scene need not even be distinct.                         *)
(***************************************************************************)
EXTENDS Platform, TLAPS

-----------------------------------------------------------------------------
(* The outbox, for any messages, dispatchers of either kind, shared or     *)
(* distinct worker ids.  Leases run out and dispatchers come late, but a   *)
(* claimed row returns to pending only by the acknowledgement of the       *)
(* dispatcher that claimed it last.  So a dispatcher at work has the       *)
(* newest claim of its row, alone, and what it is about to write is what   *)
(* the provider did.                                                       *)

\* A dispatcher drops its claim and touches no row.
LEMMA LeaveKeeps ==
  ASSUME IInv, NEW w \in Workers, NEW label \in {"idle", "stopped"}, Leave(w, label),
         UNCHANGED <<rowVars, delivered, resent, reconciled>>
  PROVE  IInv'
<1> USE DEF IInv, TypeOK, Leave, rowVars
<1>1. TypeOK'
  BY DEF NoClaim, PCs, MessageStatus
<1>2. \A v \in Workers : Busy(v)' => v # w /\ Busy(v) /\ pc'[v] = pc[v] /\ claim'[v] = claim[v]
                                     /\ verdict'[v] = verdict[v]
  BY DEF Busy
<1>3. BusyIsNewest' /\ BusyAlone'
  BY <1>2 DEF BusyIsNewest, BusyAlone, MessageOf
<1>4. VerdictIsTrue'
  BY <1>2 DEF VerdictIsTrue, Sending, MessageOf
<1>5. WaitingIsUnsent' /\ SettledIsClosed' /\ DeliveredAtMostOnce'
  BY DEF WaitingIsUnsent, SettledIsClosed, DeliveredAtMostOnce
<1>6. StatusIsTrue'
  <2>1. \A v \in Workers : Sending(v)' => Sending(v) /\ claim'[v] = claim[v]
    BY <1>2 DEF Busy, Sending
  <2> QED
    BY <2>1 DEF StatusIsTrue, Sending, MessageOf
<1> QED
  BY <1>1, <1>3, <1>4, <1>5, <1>6

\* A dispatcher that has read its row goes on to send it, or to close it as
\* unknown, or as failed before anything was sent.
LEMMA ReadKeeps ==
  ASSUME IInv, NEW w \in Workers, pc[w] = "read", Holds(w),
         NEW label \in {"send", "close", "ack"}, NEW result \in {"unknown", "failed"},
         Proceed(w, label, result), UNCHANGED <<rowVars, delivered, resent, reconciled>>
  PROVE  IInv'
<1> USE DEF IInv, TypeOK, Proceed, rowVars
<1>1. TypeOK'
  BY DEF PCs, MessageStatus
<1>2. Busy(w) /\ delivered[MessageOf(w)] <= resent[MessageOf(w)] /\ status[MessageOf(w)] = "processing"
  BY DEF Busy, VerdictIsTrue, Holds
<1>3. \A v \in Workers : Busy(v)' => Busy(v) /\ claim'[v] = claim[v]
  BY <1>2 DEF Busy
<1>4. BusyIsNewest' /\ BusyAlone'
  BY <1>3 DEF BusyIsNewest, BusyAlone, MessageOf
<1>5. VerdictIsTrue'
  <2> SUFFICES ASSUME NEW v \in Workers, Busy(v)'
               PROVE  /\ pc'[v] = "read" \/ Sending(v)' \/ verdict'[v] \in {"pending", "failed"}
                           => delivered'[MessageOf(v)'] <= resent'[MessageOf(v)']
                      /\ pc'[v] \in {"close", "ack"} /\ verdict'[v] = "sent" /\ resent'[MessageOf(v)'] = 0
                           => delivered'[MessageOf(v)'] = 1
                      /\ pc'[v] = "follow" => resent'[MessageOf(v)'] > 0
                      /\ pc'[v] \in {"close", "ack"}
                           => verdict'[v] \in {"pending", "sent", "failed", "unknown"}
    BY DEF VerdictIsTrue, Sending
  <2>1. CASE v = w
    BY <2>1, <1>2 DEF MessageOf, Sending
  <2>2. CASE v # w
    BY <2>2, <1>3 DEF MessageOf, VerdictIsTrue, Sending
  <2> QED
    BY <2>1, <2>2
<1>6. WaitingIsUnsent' /\ SettledIsClosed' /\ DeliveredAtMostOnce'
  BY DEF WaitingIsUnsent, SettledIsClosed, DeliveredAtMostOnce
<1>7. StatusIsTrue'
  BY <1>2 DEF StatusIsTrue, Sending, MessageOf
<1> QED
  BY <1>1, <1>4, <1>5, <1>6, <1>7

\* The provider acts at most once on the last copy of what a dispatcher sends,
\* and the verdict says sent only if it did and pending or failed only if it did
\* not.
LEMMA SendKeeps ==
  ASSUME IInv, NEW w \in Workers, NEW answer \in Answers(w), Send(w, answer)
  PROVE  IInv'
<1> USE DEF IInv, TypeOK, Send, rowVars
<1> DEFINE m == MessageOf(w)
           acted == pc[w] = "send" /\ answer \in {"accepted", "actedButLost"}
<1>1. Busy(w) /\ m \in Messages /\ delivered[m] <= resent[m]
      /\ status[m] \notin {"absent", "pending"} /\ (pc[w] = "follow" => resent[m] > 0)
  BY DEF Busy, Sending, BusyIsNewest, VerdictIsTrue
<1>2. /\ Verdict(w, answer) \in {"pending", "sent", "failed", "unknown"}
      /\ Verdict(w, answer) = "sent" => acted \/ pc[w] = "follow"
      /\ Verdict(w, answer) \in {"pending", "failed"} => ~acted
  BY DEF Answers, Verdict
<1>3. delivered' = (IF acted THEN [delivered EXCEPT ![m] = @ + 1] ELSE delivered) /\ resent' = resent
  OBVIOUS
<1>4. pc' = [pc EXCEPT ![w] = "ack"] /\ verdict' = [verdict EXCEPT ![w] = Verdict(w, answer)]
      /\ claim' = claim
  BY DEF Proceed
<1>5. TypeOK'
  BY <1>1, <1>2, <1>3, <1>4 DEF PCs, MessageStatus
<1>6. \A v \in Workers : (Busy(v)' => Busy(v)) /\ MessageOf(v)' = MessageOf(v)
  BY <1>1, <1>4 DEF Busy, MessageOf
<1>7. BusyIsNewest' /\ BusyAlone'
  BY <1>4, <1>6 DEF BusyIsNewest, BusyAlone, MessageOf
<1>8. VerdictIsTrue'
  <2> SUFFICES ASSUME NEW v \in Workers, Busy(v)'
               PROVE  /\ pc'[v] = "read" \/ Sending(v)' \/ verdict'[v] \in {"pending", "failed"}
                           => delivered'[MessageOf(v)] <= resent'[MessageOf(v)]
                      /\ pc'[v] \in {"close", "ack"} /\ verdict'[v] = "sent" /\ resent'[MessageOf(v)] = 0
                           => delivered'[MessageOf(v)] = 1
                      /\ pc'[v] = "follow" => resent'[MessageOf(v)] > 0
                      /\ pc'[v] \in {"close", "ack"}
                           => verdict'[v] \in {"pending", "sent", "failed", "unknown"}
    BY <1>6 DEF VerdictIsTrue
  <2>1. CASE v = w
    BY <2>1, <1>1, <1>2, <1>3, <1>4 DEF Sending
  <2>2. CASE v # w
    <3>1. Busy(v) /\ MessageOf(v) # m /\ MessageOf(v) \in Messages
      BY <2>2, <1>1, <1>6 DEF BusyAlone, BusyIsNewest
    <3> QED
      BY <2>2, <3>1, <1>3, <1>4 DEF VerdictIsTrue, Sending
  <2> QED
    BY <2>1, <2>2
<1>9. WaitingIsUnsent' /\ SettledIsClosed' /\ DeliveredAtMostOnce'
  BY <1>1, <1>3 DEF WaitingIsUnsent, SettledIsClosed, DeliveredAtMostOnce
<1>10. StatusIsTrue'
  <2>1. m \notin reconciled => status[m] \in {"processing", "unknown"}
    BY <1>1 DEF BusyIsNewest
  <2> QED
    BY <2>1, <1>1, <1>3, <1>4 DEF StatusIsTrue, Sending, MessageOf
<1> QED
  BY <1>5, <1>7, <1>8, <1>9, <1>10

\* What the client puts on the wire again may have been acted on before; the
\* count of what it sent again rises with it.
LEMMA ResendKeeps ==
  ASSUME IInv, NEW w \in Workers, NEW acted \in BOOLEAN,
         Resend(w, acted) \/ Redirect(w, acted)
  PROVE  IInv'
<1> USE DEF IInv, TypeOK, rowVars
<1> DEFINE m == MessageOf(w)
<1>1. pc[w] = "send" /\ Busy(w) /\ m \in Messages /\ delivered[m] <= resent[m]
      /\ status[m] \notin {"absent", "pending"}
  BY DEF Resend, Redirect, Busy, Sending, BusyIsNewest, VerdictIsTrue
<1>2. /\ resent' = [resent EXCEPT ![m] = @ + 1]
      /\ delivered' = [delivered EXCEPT ![m] = @ + (IF acted THEN 1 ELSE 0)]
      /\ UNCHANGED <<rowVars, claim, verdict, reconciled>>
      /\ pc' = pc \/ pc' = [pc EXCEPT ![w] = "follow"]
  BY DEF Resend, Redirect, Proceed, memVars
<1>3. /\ resent'[m] = resent[m] + 1 /\ delivered'[m] <= delivered[m] + 1
      /\ \A n \in Messages \ {m} : resent'[n] = resent[n] /\ delivered'[n] = delivered[n]
      /\ delivered' \in [Messages -> Nat] /\ resent' \in [Messages -> Nat]
  BY <1>1, <1>2
<1>4. TypeOK'
  BY <1>2, <1>3 DEF PCs
<1>5. \A v \in Workers : /\ Busy(v)' => Busy(v)
                         /\ Sending(v)' => Sending(v)
                         /\ MessageOf(v)' = MessageOf(v)
                         /\ v # w => pc'[v] = pc[v]
  <2>1. CASE pc' = pc
    BY <2>1, <1>2 DEF Busy, Sending, MessageOf
  <2>2. CASE pc' = [pc EXCEPT ![w] = "follow"]
    BY <2>2, <1>1, <1>2 DEF Busy, Sending, MessageOf
  <2> QED
    BY <2>1, <2>2, <1>2
<1>6. BusyIsNewest' /\ BusyAlone'
  BY <1>2, <1>5 DEF BusyIsNewest, BusyAlone
<1>7. VerdictIsTrue'
  <2> SUFFICES ASSUME NEW v \in Workers, Busy(v)'
               PROVE  /\ pc'[v] = "read" \/ Sending(v)' \/ verdict'[v] \in {"pending", "failed"}
                           => delivered'[MessageOf(v)] <= resent'[MessageOf(v)]
                      /\ pc'[v] \in {"close", "ack"} /\ verdict'[v] = "sent" /\ resent'[MessageOf(v)] = 0
                           => delivered'[MessageOf(v)] = 1
                      /\ pc'[v] = "follow" => resent'[MessageOf(v)] > 0
                      /\ pc'[v] \in {"close", "ack"}
                           => verdict'[v] \in {"pending", "sent", "failed", "unknown"}
    BY <1>5 DEF VerdictIsTrue
  <2>1. CASE v = w
    BY <2>1, <1>1, <1>2, <1>3
  <2>2. CASE v # w
    <3>1. Busy(v) /\ MessageOf(v) # m /\ MessageOf(v) \in Messages
      BY <2>2, <1>1, <1>5 DEF BusyAlone, BusyIsNewest
    <3> QED
      BY <2>2, <3>1, <1>2, <1>3, <1>5 DEF VerdictIsTrue, Sending
  <2> QED
    BY <2>1, <2>2
<1>8. WaitingIsUnsent' /\ SettledIsClosed' /\ DeliveredAtMostOnce'
  BY <1>1, <1>2, <1>3 DEF WaitingIsUnsent, SettledIsClosed, DeliveredAtMostOnce
<1>9. StatusIsTrue'
  <2>1. m \notin reconciled => status[m] \in {"processing", "unknown"}
    BY <1>1 DEF BusyIsNewest
  <2> QED
    BY <2>1, <1>2, <1>3, <1>5 DEF StatusIsTrue
<1> QED
  BY <1>4, <1>6, <1>7, <1>8, <1>9

\* The fenced acknowledgement stores the verdict of the only dispatcher at work
\* on the row.
LEMMA FinalizeKeeps ==
  ASSUME IInv, NEW w \in Workers, Finalize(w)
  PROVE  IInv'
<1> USE DEF IInv, TypeOK, Finalize
<1> DEFINE m == MessageOf(w)
<1>1. Busy(w) /\ m \in Messages /\ status[m] = "processing"
  BY DEF Busy, Holds
<1>2. m \notin reconciled
  BY <1>1 DEF SettledIsClosed
<1>3. /\ verdict[w] \in {"pending", "sent", "failed", "unknown"}
      /\ verdict[w] = "sent" /\ resent[m] = 0 => delivered[m] = 1
      /\ verdict[w] \in {"pending", "failed"} => delivered[m] <= resent[m]
  BY <1>1 DEF VerdictIsTrue, Sending
<1>4. status' = [status EXCEPT ![m] = verdict[w]]
  OBVIOUS
<1>5. TypeOK'
  BY <1>1, <1>3 DEF Leave, NoClaim, PCs, MessageStatus
<1>6. \A v \in Workers : Busy(v)' =>
        /\ v # w /\ Busy(v) /\ pc'[v] = pc[v] /\ claim'[v] = claim[v] /\ verdict'[v] = verdict[v]
        /\ MessageOf(v) # m /\ MessageOf(v) \in Messages
        /\ status'[MessageOf(v)] = status[MessageOf(v)]
  <2>1. \A v \in Workers : Busy(v)' =>
          v # w /\ Busy(v) /\ pc'[v] = pc[v] /\ claim'[v] = claim[v] /\ verdict'[v] = verdict[v]
    BY DEF Leave, Busy
  <2> QED
    BY <2>1, <1>1, <1>4 DEF BusyAlone, BusyIsNewest
<1>7. BusyIsNewest' /\ BusyAlone'
  BY <1>6 DEF BusyIsNewest, BusyAlone, MessageOf
<1>8. VerdictIsTrue'
  BY <1>6 DEF VerdictIsTrue, Sending, MessageOf
<1>9. WaitingIsUnsent' /\ SettledIsClosed' /\ DeliveredAtMostOnce'
  BY <1>1, <1>2, <1>3, <1>4 DEF WaitingIsUnsent, SettledIsClosed, DeliveredAtMostOnce
<1>10. StatusIsTrue'
  <2>1. \A v \in Workers : Sending(v)' => Sending(v) /\ claim'[v] = claim[v] /\ MessageOf(v) # m
    BY <1>6 DEF Busy, Sending
  <2> QED
    BY <2>1, <1>1, <1>2, <1>3, <1>4 DEF StatusIsTrue, Sending, MessageOf
<1> QED
  BY <1>5, <1>7, <1>8, <1>9, <1>10

\* Rows that nobody waits for any more are closed as unknown by the sweep.
LEMMA SweepKeeps ==
  ASSUME IInv, NEW w \in Workers, NEW m \in Messages
  PROVE  /\ SweptStatus(w)[m] \in MessageStatus
         /\ \/ SweptStatus(w)[m] = status[m]
            \/ status[m] = "processing" /\ SweptStatus(w)[m] = "unknown"
<1>1. SweptStatus(w)[m] = IF Expired(w, m) THEN "unknown" ELSE status[m]
  BY DEF SweptStatus
<1>2. Expired(w, m) => status[m] = "processing"
  BY DEF Expired
<1> QED
  BY <1>1, <1>2 DEF IInv, TypeOK, MessageStatus

\* Claiming: a pending row has no dispatcher at work and was never delivered.
LEMMA ClaimKeeps ==
  ASSUME IInv, NEW w \in Workers, NEW m \in Messages, ClaimRow(w, m)
  PROVE  IInv'
<1> USE DEF IInv, TypeOK, ClaimRow
<1>1. \A v \in Workers : Busy(v) => MessageOf(v) # m
  BY DEF BusyIsNewest
<1>2. ~Busy(w) /\ delivered[m] <= resent[m] /\ m \notin reconciled
  BY DEF Busy, WaitingIsUnsent, SettledIsClosed
<1>3. /\ status' \in [Messages -> MessageStatus] /\ status'[m] = "processing"
      /\ \A n \in Messages \ {m} : \/ status'[n] = status[n]
                                   \/ status[n] = "processing" /\ status'[n] = "unknown"
  <2>1. status' = [SweptStatus(w) EXCEPT ![m] = "processing"] /\ DOMAIN SweptStatus(w) = Messages
    BY DEF SweptStatus
  <2>2. \A n \in Messages : /\ SweptStatus(w)[n] \in MessageStatus
                            /\ \/ SweptStatus(w)[n] = status[n]
                               \/ status[n] = "processing" /\ SweptStatus(w)[n] = "unknown"
    BY SweepKeeps
  <2>3. SweptStatus(w) \in [Messages -> MessageStatus]
    BY <2>2 DEF SweptStatus
  <2> QED
    BY <2>1, <2>2, <2>3 DEF MessageStatus
<1>4. DOMAIN owner' = Messages
  BY DEF SweptOwner
<1>5. /\ pc' = [pc EXCEPT ![w] = "read"]
      /\ claim' = [claim EXCEPT ![w] = [message |-> m, token |-> token[m] + 1, attempts |-> attempts[m] + 1]]
      /\ token' = [token EXCEPT ![m] = @ + 1]
  OBVIOUS
<1>6. TypeOK'
  <2>1. attempts' \in [Messages -> 0..MaxAttempts] /\ token' \in [Messages -> Nat]
    BY MaxAttemptsAssumption
  <2>2. claim' \in [Workers -> [message : Messages \cup {NoMessage}, token : Nat, attempts : Nat]]
    <3>1. [message |-> m, token |-> token[m] + 1, attempts |-> attempts[m] + 1]
            \in [message : Messages \cup {NoMessage}, token : Nat, attempts : Nat]
      OBVIOUS
    <3> QED
      BY <3>1, <1>5
  <2>3. pc' \in [Workers -> PCs] /\ live' \in [Messages -> BOOLEAN]
    BY DEF PCs
  <2> QED
    BY <2>1, <2>2, <2>3, <1>3, <1>4
<1>7. \A v \in Workers : Busy(v)' =>
        \/ v = w /\ MessageOf(v)' = m /\ claim'[v].token = token'[m]
        \/ v # w /\ Busy(v) /\ pc'[v] = pc[v] /\ claim'[v] = claim[v] /\ MessageOf(v)' = MessageOf(v)
  BY <1>5 DEF Busy, MessageOf
<1>8. BusyIsNewest'
  <2> SUFFICES ASSUME NEW v \in Workers, Busy(v)'
               PROVE  /\ MessageOf(v)' \in Messages
                      /\ claim'[v].token = token'[MessageOf(v)']
                      /\ status'[MessageOf(v)'] \notin {"absent", "pending"}
                      /\ MessageOf(v)' \notin reconciled'
                           => status'[MessageOf(v)'] \in {"processing", "unknown"}
    BY DEF BusyIsNewest
  <2>1. CASE v = w
    BY <2>1, <1>3, <1>7
  <2>2. CASE v # w
    BY <2>2, <1>1, <1>3, <1>5, <1>7 DEF BusyIsNewest
  <2> QED
    BY <2>1, <2>2
<1>9. BusyAlone'
  BY <1>1, <1>7 DEF BusyAlone
<1>10. VerdictIsTrue'
  <2> SUFFICES ASSUME NEW v \in Workers, Busy(v)'
               PROVE  /\ pc'[v] = "read" \/ Sending(v)' \/ verdict'[v] \in {"pending", "failed"}
                           => delivered'[MessageOf(v)'] <= resent'[MessageOf(v)']
                      /\ pc'[v] \in {"close", "ack"} /\ verdict'[v] = "sent" /\ resent'[MessageOf(v)'] = 0
                           => delivered'[MessageOf(v)'] = 1
                      /\ pc'[v] = "follow" => resent'[MessageOf(v)'] > 0
                      /\ pc'[v] \in {"close", "ack"}
                           => verdict'[v] \in {"pending", "sent", "failed", "unknown"}
    BY DEF VerdictIsTrue, Sending
  <2>1. CASE v = w
    BY <2>1, <1>2, <1>5, <1>7
  <2>2. CASE v # w
    BY <2>2, <1>7 DEF VerdictIsTrue, Sending
  <2> QED
    BY <2>1, <2>2
<1>11. WaitingIsUnsent' /\ SettledIsClosed' /\ DeliveredAtMostOnce'
  BY <1>2, <1>3 DEF WaitingIsUnsent, SettledIsClosed, DeliveredAtMostOnce
<1>12. StatusIsTrue'
  <2>1. \A v \in Workers : Sending(v)' => v # w /\ Sending(v) /\ MessageOf(v)' = MessageOf(v)
    BY <1>5, <1>7 DEF Sending, Busy
  <2> QED
    BY <2>1, <1>3 DEF StatusIsTrue
<1> QED
  BY <1>6, <1>8, <1>9, <1>10, <1>11, <1>12

\* What a step does to the rows when no dispatcher moves.
LEMMA RowsKeep ==
  ASSUME IInv, UNCHANGED <<memVars, delivered, resent, token>>,
         TypeOK', reconciled \subseteq reconciled',
         \A m \in Messages :
           \/ status'[m] = status[m] /\ (m \in reconciled' <=> m \in reconciled)
           \/ status[m] = "absent" /\ status'[m] = "pending" /\ m \notin reconciled'
           \/ status[m] = "processing" /\ status'[m] = "unknown" /\ m \notin reconciled'
           \/ status[m] = "unknown" /\ status'[m] \in {"sent", "failed"} /\ m \in reconciled'
  PROVE  IInv'
<1> USE DEF IInv, TypeOK, memVars
<1>1. BusyIsNewest' /\ BusyAlone'
  BY DEF BusyIsNewest, BusyAlone, Busy, MessageOf
<1>2. VerdictIsTrue'
  BY DEF VerdictIsTrue, Busy, Sending, MessageOf
<1>3. WaitingIsUnsent' /\ SettledIsClosed' /\ DeliveredAtMostOnce'
  BY DEF WaitingIsUnsent, SettledIsClosed, DeliveredAtMostOnce
<1>4. StatusIsTrue'
  <2>1. ASSUME NEW m \in Messages \ reconciled', status'[m] \in {"pending", "failed"}
        PROVE  delivered[m] <= resent[m] /\ \A w \in Workers : ~(Sending(w) /\ MessageOf(w) = m)
    BY <2>1 DEF StatusIsTrue, WaitingIsUnsent, BusyIsNewest, Busy, Sending
  <2>2. ASSUME NEW m \in Messages \ reconciled', status'[m] = "sent", resent[m] = 0
        PROVE  delivered[m] = 1
    BY <2>2 DEF StatusIsTrue
  <2> QED
    BY <2>1, <2>2 DEF StatusIsTrue, Sending, MessageOf
<1> QED
  BY <1>1, <1>2, <1>3, <1>4

\* The inductive step: one case per action.
LEMMA OutboxInvStep == IInv /\ [Next]_vars => IInv'
<1> SUFFICES ASSUME IInv, [Next]_vars PROVE IInv'
  OBVIOUS
<1>1. ASSUME NEW w \in Workers, NEW m \in Messages, ClaimRow(w, m) PROVE IInv'
  BY <1>1, ClaimKeeps
<1>2. ASSUME NEW w \in Workers, ClaimNone(w) PROVE IInv'
  <2>1. status' = SweptStatus(w) /\ owner' = SweptOwner(w)
        /\ UNCHANGED <<attempts, token, live, memVars, delivered, resent, reconciled>>
    BY <1>2 DEF ClaimNone
  <2>2. TypeOK'
    BY <2>1, SweepKeeps DEF IInv, TypeOK, memVars, SweptStatus, SweptOwner
  <2>3. \A m \in Messages : \/ status'[m] = status[m]
                            \/ status[m] = "processing" /\ status'[m] = "unknown" /\ m \notin reconciled
    BY <2>1, SweepKeeps DEF IInv, SettledIsClosed
  <2> QED
    BY <2>1, <2>2, <2>3, RowsKeep
<1>3. ASSUME NEW w \in Workers, ReadPayload(w) \/ RefuseWebhook(w) \/ RefuseEmail(w) PROVE IInv'
  BY <1>3, ReadKeeps DEF ReadPayload, RefuseWebhook, RefuseEmail
<1>4. ASSUME NEW w \in Workers, ReadNothing(w) \/ FencedOut(w) \/ HeartbeatLost(w)
                                \/ Stop(w) \/ Restart(w)
      PROVE IInv'
  <2>1. UNCHANGED <<rowVars, delivered, resent, reconciled>>
        /\ (Leave(w, "idle") \/ Leave(w, "stopped"))
    BY <1>4 DEF ReadNothing, FencedOut, HeartbeatLost, Stop, Restart
  <2> QED
    BY <2>1, LeaveKeeps
<1>5. ASSUME NEW w \in Workers, NEW answer \in Answers(w), Send(w, answer) PROVE IInv'
  BY <1>5, SendKeeps
<1>6. ASSUME NEW w \in Workers, Finalize(w) PROVE IInv'
  BY <1>6, FinalizeKeeps
<1>7. ASSUME NEW m \in Messages, Enqueue(m) PROVE IInv'
  <2>1. TypeOK'
    BY <1>7 DEF Enqueue, IInv, TypeOK, memVars, MessageStatus
  <2>2. m \notin reconciled
    BY <1>7 DEF Enqueue, IInv, SettledIsClosed
  <2> QED
    BY <1>7, <2>1, <2>2, RowsKeep DEF Enqueue, IInv, TypeOK
<1>8. ASSUME NEW m \in Messages, LeaseExpires(m) PROVE IInv'
  <2>1. TypeOK'
    BY <1>8 DEF LeaseExpires, IInv, TypeOK, memVars
  <2> QED
    BY <1>8, <2>1, RowsKeep DEF LeaseExpires
<1>9. ASSUME NEW m \in Messages, NEW to \in {"sent", "failed"}, Reconcile(m, to) PROVE IInv'
  <2>1. TypeOK'
    BY <1>9 DEF Reconcile, IInv, TypeOK, memVars, MessageStatus
  <2> QED
    BY <1>9, <2>1, RowsKeep DEF Reconcile, IInv, TypeOK
<1>10. CASE UNCHANGED vars
  <2>1. TypeOK'
    BY <1>10 DEF vars, IInv, TypeOK
  <2> QED
    BY <1>10, <2>1, RowsKeep DEF vars, memVars
<1>11. ASSUME NEW w \in Workers, NEW acted \in BOOLEAN, Resend(w, acted) \/ Redirect(w, acted)
       PROVE IInv'
  BY <1>11, ResendKeeps
<1> QED
  BY <1>1, <1>2, <1>3, <1>4, <1>5, <1>6, <1>7, <1>8, <1>9, <1>10, <1>11 DEF Next, Claim, Process

\* Rows start pending, unclaimed and undelivered.
LEMMA OutboxInvInit == Init => IInv
<1> SUFFICES ASSUME Init PROVE IInv
  OBVIOUS
<1>1. TypeOK
  <2>1. NoClaim \in [message : Messages \cup {NoMessage}, token : Nat, attempts : Nat]
    BY DEF NoClaim
  <2> QED
    BY <2>1, MaxAttemptsAssumption DEF Init, TypeOK, MessageStatus, PCs
<1>2. BusyIsNewest /\ BusyAlone /\ VerdictIsTrue
  BY DEF Init, BusyIsNewest, BusyAlone, VerdictIsTrue, Busy
<1>3. WaitingIsUnsent /\ SettledIsClosed /\ DeliveredAtMostOnce /\ StatusIsTrue
  BY DEF Init, WaitingIsUnsent, SettledIsClosed, DeliveredAtMostOnce, StatusIsTrue
<1> QED
  BY <1>1, <1>2, <1>3 DEF IInv

\* The invariant holds of every reachable state of the outbox.
LEMMA OutboxInvAlways == Spec => []IInv
<1>1. Init => IInv
  BY OutboxInvInit
<1>2. IInv /\ [Next]_vars => IInv'
  BY OutboxInvStep
<1> QED
  BY <1>1, <1>2, PTL DEF Spec


\* A provider acts at most once more than the HTTP client itself sent the row
\* again, for any number of dispatchers, leases that run out, crashes and late
\* answers: once on an email, and on a webhook whose first copy is answered.
THEOREM OutboxDeliversOnce == Spec => []DeliveredAtMostOnce
<1>1. Spec => []IInv
  BY OutboxInvAlways
<1>2. IInv => DeliveredAtMostOnce
  BY DEF IInv
<1> QED
  BY <1>1, <1>2, PTL

\* Until an operator settles a row, a message that went out in one copy was acted
\* on if it is sent and not if it is pending or failed; a pending or failed one
\* was acted on no more often than the HTTP client sent it again, and no
\* dispatcher is about to send it.
THEOREM OutboxStatusIsTrue == Spec => []StatusIsTrue
<1>1. Spec => []IInv
  BY OutboxInvAlways
<1>2. IInv => StatusIsTrue
  BY DEF IInv
<1> QED
  BY <1>1, <1>2, PTL

\* Sent and failed are final, and only an operator takes a row out of unknown:
\* a late acknowledgement is fenced off.
THEOREM OutboxClosedStaysClosed == Spec => [][ClosedStaysClosed]_vars
<1>1. Spec => []IInv
  BY OutboxInvAlways
<1>2. ASSUME IInv, [Next]_vars PROVE [ClosedStaysClosed]_vars
  <2> SUFFICES ASSUME Next PROVE ClosedStaysClosed
    BY <1>2
  <2> USE <1>2 DEF rowVars, memVars
  <2>1. ASSUME NEW w \in Workers, NEW m \in Messages, ClaimRow(w, m) PROVE ClosedStaysClosed
    BY <2>1 DEF ClosedStaysClosed, ClaimRow, SweptStatus, Expired
  <2>2. ASSUME NEW w \in Workers, ClaimNone(w) PROVE ClosedStaysClosed
    BY <2>2 DEF ClosedStaysClosed, ClaimNone, SweptStatus, Expired
  <2>3. ASSUME NEW w \in Workers, Finalize(w) PROVE ClosedStaysClosed
    BY <2>3 DEF ClosedStaysClosed, Finalize, Holds, IInv, TypeOK
  <2>4. ASSUME NEW w \in Workers,
               \/ ReadPayload(w) \/ RefuseWebhook(w) \/ RefuseEmail(w) \/ ReadNothing(w)
               \/ \E answer \in Answers(w) : Send(w, answer)
               \/ \E acted \in BOOLEAN : Resend(w, acted) \/ Redirect(w, acted)
               \/ FencedOut(w) \/ HeartbeatLost(w) \/ Stop(w) \/ Restart(w)
        PROVE  ClosedStaysClosed
    BY <2>4 DEF ClosedStaysClosed, ReadPayload, RefuseWebhook, RefuseEmail, ReadNothing, Send,
               Resend, Redirect, FencedOut, HeartbeatLost, Stop, Restart
  <2>5. ASSUME NEW m \in Messages, Enqueue(m) \/ LeaseExpires(m) PROVE ClosedStaysClosed
    BY <2>5 DEF ClosedStaysClosed, Enqueue, LeaseExpires, IInv, TypeOK
  <2>6. ASSUME NEW m \in Messages, NEW to \in {"sent", "failed"}, Reconcile(m, to)
        PROVE  ClosedStaysClosed
    BY <2>6 DEF ClosedStaysClosed, Reconcile, IInv, TypeOK, SettledIsClosed
  <2> QED
    BY <2>1, <2>2, <2>3, <2>4, <2>5, <2>6 DEF Next, Claim, Process
<1> QED
  BY <1>1, <1>2, PTL DEF Spec

-----------------------------------------------------------------------------
(* The event ledger, for any transactions, rows and number of appends.     *)
(* Whoever has appended holds the advisory lock until its transaction      *)
(* ends, so while it reads the head and inserts, nobody else adds to what  *)
(* it sees.                                                                *)

\* A chain grows by an event that is numbered after all of it and names its end.
LEMMA LinearGrows ==
  ASSUME NEW E, NEW n, NEW k \in Nat,
         Ledger!Linear(E),
         \A e \in E : e.seq \in Nat /\ e.seq <= k,
         n.seq = k + 1,
         n.prev = IF E = {} THEN Ledger!Genesis ELSE Ledger!Latest(E).hash
  PROVE  Ledger!Linear(E \cup {n})
<1> DEFINE Before(F, e) == {f \in F : f.seq < e.seq}
<1>1. ASSUME NEW e \in E
      PROVE  Before(E \cup {n}, e) = Before(E, e)
  <2>1. ~(n.seq < e.seq)
    OBVIOUS
  <2> QED
    BY <2>1
<1>2. Before(E \cup {n}, n) = E
  <2>1. \A e \in E : e.seq < n.seq
    OBVIOUS
  <2>2. ~(n.seq < n.seq)
    OBVIOUS
  <2> QED
    BY <2>1, <2>2
<1>3. ASSUME NEW e \in E \cup {n}
      PROVE  e.prev = IF Before(E \cup {n}, e) = {} THEN Ledger!Genesis
               ELSE Ledger!Latest(Before(E \cup {n}, e)).hash
  <2>1. CASE e \in E
    <3>1. e.prev = IF Before(E, e) = {} THEN Ledger!Genesis
            ELSE Ledger!Latest(Before(E, e)).hash
      BY <2>1 DEF Ledger!Linear
    <3> QED
      BY <3>1, <1>1, <2>1
  <2>2. CASE e = n
    BY <2>2, <1>2
  <2> QED
    BY <2>1, <2>2
<1> QED
  BY <1>3 DEF Ledger!Linear

\* The empty table is a chain.
LEMMA LinearEmpty == Ledger!Linear({})
  BY DEF Ledger!Linear

\* Two live transactions do not both see events of their own.
LEMMA OneAppender ==
  ASSUME Ledger!IInv, NEW s \in Txs, NEW t \in Txs, s # t,
         Chain \in held[s], phase[t] # "ended"
  PROVE  mine[t] = {} /\ phase[t] \notin {"locked", "read"}
           /\ Ledger!Visible(t) = committed
<1>1. Chain \notin held[t]
  BY DEF Ledger!IInv, Ledger!LocksExclude
<1>2. mine[t] = {} /\ phase[t] \notin {"locked", "read"}
  BY <1>1 DEF Ledger!IInv, Ledger!AppendsLocked, Ledger!OutsideIsClean, Ledger!Shapes,
              Ledger!Phases
<1> QED
  BY <1>2 DEF Ledger!Visible

\* A transaction that ends, by commit or rollback, gives up its locks.
LEMMA ReleaseKeeps ==
  ASSUME Ledger!IInv, NEW t \in Txs, Ledger!Release(t),
         \A s \in Txs \ {t} : mine'[s] = mine[s],
         mine'[t] \subseteq committed', committed \subseteq committed',
         DOMAIN mine' = Txs, head' = head
  PROVE  Ledger!Shapes' /\ Ledger!LocksExclude' /\ Ledger!AppendsLocked'
           /\ Ledger!OutsideIsClean'
<1> USE DEF Ledger!IInv, Ledger!Shapes, Ledger!Release
<1>1. Ledger!Shapes'
  BY DEF Ledger!Phases
<1>2. Ledger!LocksExclude'
  BY DEF Ledger!LocksExclude
<1>3. Ledger!AppendsLocked'
  BY DEF Ledger!AppendsLocked
<1>4. Ledger!OutsideIsClean'
  BY DEF Ledger!OutsideIsClean
<1> QED
  BY <1>1, <1>2, <1>3, <1>4

\* The inductive step: one case per action.
LEMMA ChainInvStep == Ledger!IInv /\ [Ledger!Next]_Ledger!vars => Ledger!IInv'
<1> SUFFICES ASSUME Ledger!IInv, [Ledger!Next]_Ledger!vars PROVE Ledger!IInv'
  OBVIOUS
<1>1. ASSUME NEW t \in Txs, Ledger!Begin(t) PROVE Ledger!IInv'
  <2> USE <1>1 DEF Ledger!Begin, Ledger!IInv, Ledger!Shapes
  <2>1. Ledger!Shapes' /\ Ledger!LocksExclude' /\ Ledger!AppendsLocked'
          /\ Ledger!OutsideIsClean'
    BY DEF Ledger!LocksExclude, Ledger!AppendsLocked, Ledger!OutsideIsClean,
           Ledger!Phases
  <2>2. Ledger!Numbered' /\ Ledger!ViewsLinear' /\ Ledger!HeadsCurrent'
          /\ Ledger!ChainIsLinear'
    BY DEF Ledger!Numbered, Ledger!ViewsLinear, Ledger!HeadsCurrent,
           Ledger!ChainIsLinear, Ledger!Visible
  <2> QED
    BY <2>1, <2>2
<1>2. ASSUME NEW t \in Txs, NEW l \in Ledger!Locks, Ledger!Ready(t),
               wants' = [wants EXCEPT ![t] = {l}],
             UNCHANGED <<phase, held, head, mine, committed, seq>>
      PROVE  Ledger!IInv'
  BY <1>2 DEF Ledger!Ready, Ledger!IInv, Ledger!Shapes, Ledger!LocksExclude,
              Ledger!AppendsLocked, Ledger!OutsideIsClean, Ledger!Numbered,
              Ledger!ViewsLinear, Ledger!HeadsCurrent, Ledger!ChainIsLinear, Ledger!Visible
<1>3. ASSUME NEW t \in Txs, NEW l \in Ledger!Locks, Ledger!GetLock(t, l) PROVE Ledger!IInv'
  <2> USE <1>3 DEF Ledger!GetLock, Ledger!IInv, Ledger!Shapes
  <2>1. phase[t] = "open"
    BY DEF Ledger!OutsideIsClean
  <2>2. Ledger!Shapes'
    BY DEF Ledger!Phases
  <2>3. Ledger!LocksExclude'
    BY DEF Ledger!LocksExclude, Ledger!Free
  <2>4. Ledger!AppendsLocked'
    BY <2>1 DEF Ledger!AppendsLocked
  <2>5. Ledger!OutsideIsClean'
    BY <2>1 DEF Ledger!OutsideIsClean
  <2>6. Ledger!Numbered' /\ Ledger!ChainIsLinear'
    BY DEF Ledger!Numbered, Ledger!ChainIsLinear, Ledger!Visible
  <2>7. Ledger!ViewsLinear' /\ Ledger!HeadsCurrent'
    BY <2>1 DEF Ledger!ViewsLinear, Ledger!HeadsCurrent, Ledger!Visible
  <2> QED
    BY <2>2, <2>3, <2>4, <2>5, <2>6, <2>7
<1>4. ASSUME NEW t \in Txs, Ledger!ReadHead(t) PROVE Ledger!IInv'
  <2> USE <1>4 DEF Ledger!ReadHead, Ledger!IInv, Ledger!Shapes
  <2>1. Ledger!Shapes' /\ Ledger!LocksExclude' /\ Ledger!AppendsLocked'
          /\ Ledger!OutsideIsClean'
    BY DEF Ledger!LocksExclude, Ledger!AppendsLocked, Ledger!OutsideIsClean,
           Ledger!Phases
  <2>2. Ledger!Numbered' /\ Ledger!ViewsLinear' /\ Ledger!ChainIsLinear'
    BY DEF Ledger!Numbered, Ledger!ViewsLinear, Ledger!ChainIsLinear, Ledger!Visible
  <2>3. Ledger!HeadsCurrent'
    BY DEF Ledger!HeadsCurrent, Ledger!Visible
  <2> QED
    BY <2>1, <2>2, <2>3
<1>5. ASSUME NEW t \in Txs, Ledger!Insert(t) PROVE Ledger!IInv'
  <2> USE <1>5 DEF Ledger!IInv, Ledger!Shapes
  <2> DEFINE n == [seq |-> seq + 1, prev |-> head[t],
                   hash |-> <<t, Ledger!Cardinality(mine[t]) + 1>>]
  <2>1. /\ mine' = [mine EXCEPT ![t] = @ \cup {n}]
        /\ n.seq = seq + 1 /\ n.prev = head[t]
    BY DEF Ledger!Insert
  <2> HIDE DEF n
  <2>2. phase[t] = "read" /\ Chain \in held[t]
    BY DEF Ledger!Insert, Ledger!AppendsLocked
  <2>3. Ledger!Visible(t)' = Ledger!Visible(t) \cup {n}
    BY <2>1 DEF Ledger!Insert, Ledger!Visible
  <2>4. \A s \in Txs \ {t} : mine'[s] = mine[s] /\ phase'[s] = phase[s]
          /\ Ledger!Visible(s)' = Ledger!Visible(s)
    BY <2>1 DEF Ledger!Insert, Ledger!Visible
  <2>5. Ledger!Linear(Ledger!Visible(t) \cup {n})
    <3>1. n.prev = IF Ledger!Visible(t) = {} THEN Ledger!Genesis
            ELSE Ledger!Latest(Ledger!Visible(t)).hash
      BY <2>1, <2>2 DEF Ledger!HeadsCurrent
    <3> QED
      BY <3>1, <2>1, <2>2, LinearGrows DEF Ledger!Numbered, Ledger!ViewsLinear
  <2>6. Ledger!Shapes'
    BY <2>1 DEF Ledger!Insert, Ledger!Phases
  <2>7. Ledger!LocksExclude' /\ Ledger!AppendsLocked' /\ Ledger!OutsideIsClean'
    BY <2>2, <2>4 DEF Ledger!Insert, Ledger!LocksExclude, Ledger!AppendsLocked,
                      Ledger!OutsideIsClean
  <2>8. Ledger!Numbered'
    <3>1. seq' = seq + 1 /\ seq \in Nat
      BY DEF Ledger!Insert, Ledger!Numbered
    <3>2. \A s \in Txs : \A e \in Ledger!Visible(s)' : e = n
            \/ e \in Ledger!Visible(s)
      BY <2>3, <2>4
    <3> QED
      BY <3>1, <3>2, <2>1 DEF Ledger!Numbered
  <2>9. Ledger!ViewsLinear'
    BY <2>3, <2>4, <2>5 DEF Ledger!ViewsLinear
  <2>10. Ledger!HeadsCurrent'
    BY <2>4 DEF Ledger!HeadsCurrent, Ledger!Insert
  <2>11. Ledger!ChainIsLinear'
    BY DEF Ledger!ChainIsLinear, Ledger!Insert
  <2> QED
    BY <2>6, <2>7, <2>8, <2>9, <2>10, <2>11
<1>6. ASSUME NEW t \in Txs, Ledger!Commit(t) PROVE Ledger!IInv'
  <2> USE <1>6 DEF Ledger!IInv
  <2>1. phase[t] = "open" /\ phase' = [phase EXCEPT ![t] = "ended"]
          /\ committed' = Ledger!Visible(t)
    BY DEF Ledger!Commit, Ledger!Ready, Ledger!Release, Ledger!Visible
  <2>2. Ledger!Shapes' /\ Ledger!LocksExclude' /\ Ledger!AppendsLocked'
          /\ Ledger!OutsideIsClean'
    BY ReleaseKeeps DEF Ledger!Commit, Ledger!Shapes
  <2>3. Ledger!Numbered'
    <3>1. \A s \in Txs : \A e \in Ledger!Visible(s)' : e \in Ledger!Visible(s)
            \/ e \in Ledger!Visible(t)
      BY DEF Ledger!Commit, Ledger!Visible
    <3> QED
      BY <3>1 DEF Ledger!Numbered, Ledger!Commit
  <2>4. Ledger!ChainIsLinear'
    BY <2>1 DEF Ledger!ViewsLinear, Ledger!ChainIsLinear
  <2>5. \A s \in Txs : phase'[s] # "ended" => s # t /\ phase'[s] = phase[s]
    BY <2>1 DEF Ledger!Shapes
  <2>6. ASSUME NEW s \in Txs, phase'[s] # "ended"
        PROVE  Ledger!Visible(s)' = Ledger!Visible(s)
                 \/ (Ledger!Visible(s)' = committed' /\ phase[s] # "read")
    <3>1. CASE mine[t] = {}
      BY <3>1 DEF Ledger!Commit, Ledger!Visible
    <3>2. CASE mine[t] # {}
      <4>1. Chain \in held[t]
        BY <3>2, <2>1 DEF Ledger!AppendsLocked
      <4>2. mine[s] = {} /\ phase[s] \notin {"locked", "read"}
        BY <4>1, <2>5, <2>6, OneAppender
      <4> QED
        BY <4>2 DEF Ledger!Commit, Ledger!Visible
    <3> QED
      BY <3>1, <3>2
  <2>7. Ledger!ViewsLinear'
    BY <2>4, <2>5, <2>6 DEF Ledger!ViewsLinear, Ledger!ChainIsLinear
  <2>8. Ledger!HeadsCurrent'
    BY <2>5, <2>6 DEF Ledger!HeadsCurrent, Ledger!Commit
  <2> QED
    BY <2>2, <2>3, <2>4, <2>7, <2>8
<1>7. ASSUME NEW t \in Txs, Ledger!Rollback(t) PROVE Ledger!IInv'
  <2> USE <1>7 DEF Ledger!IInv
  <2>1. phase' = [phase EXCEPT ![t] = "ended"] /\ mine' = [mine EXCEPT ![t] = {}]
    BY DEF Ledger!Rollback, Ledger!Release
  <2>2. Ledger!Shapes' /\ Ledger!LocksExclude' /\ Ledger!AppendsLocked'
          /\ Ledger!OutsideIsClean'
    BY ReleaseKeeps DEF Ledger!Rollback, Ledger!Shapes
  <2>3. \A s \in Txs : Ledger!Visible(s)' \subseteq Ledger!Visible(s)
    BY <2>1 DEF Ledger!Rollback, Ledger!Visible, Ledger!Shapes
  <2>4. \A s \in Txs : phase'[s] # "ended" => phase'[s] = phase[s]
          /\ Ledger!Visible(s)' = Ledger!Visible(s)
    BY <2>1 DEF Ledger!Rollback, Ledger!Visible, Ledger!Shapes
  <2>5. Ledger!Numbered'
    BY <2>3 DEF Ledger!Numbered, Ledger!Rollback
  <2>6. Ledger!ViewsLinear' /\ Ledger!HeadsCurrent' /\ Ledger!ChainIsLinear'
    BY <2>4 DEF Ledger!ViewsLinear, Ledger!HeadsCurrent, Ledger!ChainIsLinear,
                Ledger!Rollback
  <2> QED
    BY <2>2, <2>5, <2>6
<1>8. CASE UNCHANGED Ledger!vars
  BY <1>8 DEF Ledger!vars, Ledger!IInv, Ledger!Shapes, Ledger!LocksExclude,
              Ledger!AppendsLocked, Ledger!OutsideIsClean, Ledger!Numbered,
              Ledger!ViewsLinear, Ledger!HeadsCurrent, Ledger!ChainIsLinear, Ledger!Visible
<1>9. ASSUME NEW t \in Txs, Ledger!WantChain(t) PROVE Ledger!IInv'
  BY <1>9, <1>2 DEF Ledger!WantChain, Ledger!Locks
<1>10. ASSUME NEW t \in Txs, NEW r \in Rows, Ledger!WantRow(t, r) PROVE Ledger!IInv'
  BY <1>10, <1>2 DEF Ledger!WantRow, Ledger!Locks
<1> QED
  BY <1>1, <1>3, <1>4, <1>5, <1>6, <1>7, <1>8, <1>9, <1>10
     DEF Ledger!Next, Ledger!Step, Ledger!DeadlockAbort

\* The chain starts at its genesis, with nobody inside a transaction.
LEMMA ChainInvInit == Ledger!Init => Ledger!IInv
<1> SUFFICES ASSUME Ledger!Init PROVE Ledger!IInv
  OBVIOUS
<1>1. Ledger!Shapes /\ Ledger!LocksExclude /\ Ledger!AppendsLocked
        /\ Ledger!OutsideIsClean
  BY DEF Ledger!Init, Ledger!Shapes, Ledger!LocksExclude, Ledger!AppendsLocked,
         Ledger!OutsideIsClean, Ledger!Phases
<1>2. \A t \in Txs : Ledger!Visible(t) = {}
  BY DEF Ledger!Init, Ledger!Visible
<1>3. Ledger!Numbered /\ Ledger!ViewsLinear /\ Ledger!HeadsCurrent
        /\ Ledger!ChainIsLinear
  BY <1>2, LinearEmpty DEF Ledger!Init, Ledger!Numbered, Ledger!ViewsLinear,
                           Ledger!HeadsCurrent, Ledger!ChainIsLinear
<1> QED
  BY <1>1, <1>3 DEF Ledger!IInv

\* The invariant holds of every reachable state of the chain.
LEMMA ChainInvAlways == Ledger!Spec => []Ledger!IInv
  BY ChainInvInit, ChainInvStep, PTL DEF Ledger!Spec


\* Whatever transactions interleave, wait, deadlock and roll back, the events
\* of ledger_events form one chain without a fork or a hole.
THEOREM LedgerChainIsLinear == Ledger!Spec => []Ledger!ChainIsLinear
<1>1. Ledger!IInv => Ledger!ChainIsLinear
  BY DEF Ledger!IInv
<1> QED
  BY ChainInvAlways, <1>1, PTL

\* A transaction that has appended, or is about to, holds the chain's lock, and
\* no two transactions hold it: AppendTx's read of the head and its insert are
\* one critical section that lasts until the caller's transaction ends.
THEOREM LedgerAppendsExclude == Ledger!Spec => [](Ledger!LocksExclude
  /\ Ledger!AppendsLocked)
<1>1. Ledger!IInv => Ledger!LocksExclude /\ Ledger!AppendsLocked
  BY DEF Ledger!IInv
<1> QED
  BY ChainInvAlways, <1>1, PTL

-----------------------------------------------------------------------------
(* The scenes.                                                             *)

\* A scene lasts: no step changes it.
LEMMA SceneLasts == [SceneNext]_sceneVars => UNCHANGED scene
  BY DEF SceneNext, sceneVars

-----------------------------------------------------------------------------
(* In its scene the platform takes the steps of the component.             *)

\* The dispatchers of the outbox and two messages.
LEMMA OutboxScene == SceneSpec => (scene = "OutboxDelivery" => Spec)
<1>1. SceneInit => (scene = "OutboxDelivery" => Init)
  BY DEF SceneInit
<1>2. [SceneNext]_sceneVars => (scene = "OutboxDelivery" => [Next]_vars)
  BY DEF SceneNext, sceneVars, vars
<1>3. [SceneNext]_sceneVars => (scene = "OutboxDelivery" => (scene = "OutboxDelivery")')
  BY SceneLasts
<1> QED
  BY <1>1, <1>2, <1>3, PTL DEF SceneSpec, Spec

\* Three transactions that append to the event ledger.
LEMMA AppendsScene == SceneSpec => (scene = "LedgerAppends" => Ledger!Spec)
<1>1. SceneInit => (scene = "LedgerAppends" => Ledger!Init)
  BY DEF SceneInit
<1>2. [SceneNext]_sceneVars => (scene = "LedgerAppends" => [Ledger!Next]_Ledger!vars)
  BY DEF SceneNext, sceneVars, Ledger!vars
<1>3. [SceneNext]_sceneVars => (scene = "LedgerAppends" => (scene = "LedgerAppends")')
  BY SceneLasts
<1> QED
  BY <1>1, <1>2, <1>3, PTL DEF SceneSpec, Ledger!Spec

\* Proposals, releases and canary outcomes.
LEMMA ReleasesScene == SceneSpec => (scene = "CreatorReleases" => CreatorReleases!Spec)
<1>1. SceneInit => (scene = "CreatorReleases" => CreatorReleases!Init)
  BY DEF SceneInit
<1>2. [SceneNext]_sceneVars => (scene = "CreatorReleases" => [CreatorReleases!Next]_CreatorReleases!vars)
  BY DEF SceneNext, sceneVars, CreatorReleases!vars
<1>3. [SceneNext]_sceneVars => (scene = "CreatorReleases" => (scene = "CreatorReleases")')
  BY SceneLasts
<1> QED
  BY <1>1, <1>2, <1>3, PTL DEF SceneSpec, CreatorReleases!Spec

\* Two publishers and their listings.
LEMMA MarketScene == SceneSpec => (scene = "CreatorMarket" => CreatorMarket!Spec)
<1>1. SceneInit => (scene = "CreatorMarket" => CreatorMarket!Init)
  BY DEF SceneInit
<1>2. [SceneNext]_sceneVars => (scene = "CreatorMarket" => [CreatorMarket!Next]_CreatorMarket!vars)
  BY DEF SceneNext, sceneVars, CreatorMarket!vars
<1>3. [SceneNext]_sceneVars => (scene = "CreatorMarket" => (scene = "CreatorMarket")')
  BY SceneLasts
<1> QED
  BY <1>1, <1>2, <1>3, PTL DEF SceneSpec, CreatorMarket!Spec

\* Two owners, and two assignments or acceptances at once.
LEMMA OwnersScene == SceneSpec => (scene = "AccessOwners" => AccessOwners!Spec)
<1>1. SceneInit => (scene = "AccessOwners" => AccessOwners!Init)
  BY DEF SceneInit
<1>2. [SceneNext]_sceneVars => (scene = "AccessOwners" => [AccessOwners!Next]_AccessOwners!vars)
  BY DEF SceneNext, sceneVars, AccessOwners!vars, AccessOwners!scimVars
<1>3. [SceneNext]_sceneVars => (scene = "AccessOwners" => (scene = "AccessOwners")')
  BY SceneLasts
<1> QED
  BY <1>1, <1>2, <1>3, PTL DEF SceneSpec, AccessOwners!Spec

\* Two owners, and an assignment or acceptance beside a deactivation.
LEMMA LeaveScene == SceneSpec => (scene = "AccessLeave" => AccessLeave!Spec)
<1>1. SceneInit => (scene = "AccessLeave" => AccessLeave!Init)
  BY DEF SceneInit
<1>2. [SceneNext]_sceneVars => (scene = "AccessLeave" => [AccessLeave!Next]_AccessLeave!vars)
  BY DEF SceneNext, sceneVars, AccessLeave!vars, AccessLeave!scimVars
<1>3. [SceneNext]_sceneVars => (scene = "AccessLeave" => (scene = "AccessLeave")')
  BY SceneLasts
<1> QED
  BY <1>1, <1>2, <1>3, PTL DEF SceneSpec, AccessLeave!Spec

\* An identity provider with two calls at once.
LEMMA ScimScene == SceneSpec => (scene = "AccessScim" => AccessScim!Spec)
<1>1. SceneInit => (scene = "AccessScim" => AccessScim!Init)
  BY DEF SceneInit
<1>2. [SceneNext]_sceneVars => (scene = "AccessScim" => [AccessScim!Next]_AccessScim!vars)
  BY DEF SceneNext, sceneVars, AccessScim!vars, AccessScim!scimVars
<1>3. [SceneNext]_sceneVars => (scene = "AccessScim" => (scene = "AccessScim")')
  BY SceneLasts
<1> QED
  BY <1>1, <1>2, <1>3, PTL DEF SceneSpec, AccessScim!Spec

-----------------------------------------------------------------------------
(* What the run checks, proved.                                            *)

\* A provider acts on a message once, and once more for each time net/http sent
\* the request again, whatever crashes, leases that run out and late answers do
\* (claim_webhook, send, finalize).
THEOREM PlatformDeliversOnce == SceneSpec => []MessagesDeliveredOnce
<1>1. Spec => []DeliveredAtMostOnce
  BY OutboxDeliversOnce
<1>2. [SceneNext]_sceneVars => ((scene = "OutboxDelivery")' => scene = "OutboxDelivery")
  BY SceneLasts
<1> QED
  BY <1>1, <1>2, OutboxScene, PTL DEF SceneSpec, MessagesDeliveredOnce

\* Until an operator settles a row its status tells the truth (finalize, the
\* sweep of claim_webhook and claim_marketing_email).
THEOREM PlatformStatusIsTrue == SceneSpec => []MessageStatusIsTrue
<1>1. Spec => []StatusIsTrue
  BY OutboxStatusIsTrue
<1>2. [SceneNext]_sceneVars => ((scene = "OutboxDelivery")' => scene = "OutboxDelivery")
  BY SceneLasts
<1> QED
  BY <1>1, <1>2, OutboxScene, PTL DEF SceneSpec, MessageStatusIsTrue

\* A closed row stays closed (the fence of finalize, Reconcile's predicate).
THEOREM PlatformClosedStaysClosed == SceneSpec => ClosedMessagesStay
<1>1. Spec => [][ClosedStaysClosed]_vars
  BY OutboxClosedStaysClosed
<1>2. [SceneNext]_sceneVars => ((scene = "OutboxDelivery")' => scene = "OutboxDelivery")
  BY SceneLasts
<1>3. [ClosedStaysClosed]_vars
        => [scene = "OutboxDelivery" => ClosedStaysClosed]_sceneVars
  BY DEF vars, ClosedStaysClosed
<1> QED
  BY <1>1, <1>2, <1>3, OutboxScene, PTL DEF SceneSpec, ClosedMessagesStay

\* The committed events form one chain in the order of their seq (AppendTx's
\* lock, held until its caller commits).
THEOREM PlatformChainIsLinear == SceneSpec => []ChainIsLinear
<1>1. Ledger!Spec => []Ledger!ChainIsLinear
  BY LedgerChainIsLinear
<1>2. [SceneNext]_sceneVars => ((scene = "LedgerAppends")' => scene = "LedgerAppends")
  BY SceneLasts
<1> QED
  BY <1>1, <1>2, AppendsScene, PTL DEF SceneSpec, ChainIsLinear

\* Nothing is released unreviewed and nothing is listed under a false name
\* (the release and marketplace capabilities of creator.go).
THEOREM PlatformCreationsAreVouched == SceneSpec => []CreationsAreVouched
<1>1. CreatorReleases!Spec => []CreatorReleases!CreationsAreVouched
  BY CreatorReleases!CreatorVouches DEF CreatorReleases!ManifestsAreRecords
<1>2. [SceneNext]_sceneVars => ((scene = "CreatorReleases")' => scene = "CreatorReleases")
  BY SceneLasts
<1>3. CreatorMarket!Spec => []CreatorMarket!CreationsAreVouched
  BY CreatorMarket!CreatorVouches DEF CreatorMarket!ManifestsAreRecords
<1>4. [SceneNext]_sceneVars => ((scene = "CreatorMarket")' => scene = "CreatorMarket")
  BY SceneLasts
<1> QED
  BY <1>1, <1>2, <1>3, <1>4, ReleasesScene, MarketScene, PTL DEF SceneSpec, CreationsAreVouched

\* The organization keeps an owner and the identity provider the truth
\* (iamAssignRole, the acceptance of an invitation, scimProvisionUser).
THEOREM PlatformMembershipIsSound == SceneSpec => []MembershipIsSound
<1>1. AccessOwners!Spec => []AccessOwners!MembershipIsSound
  BY AccessOwners!AccessMembershipIsSound DEF AccessOwners!FoundersAssumption
<1>2. [SceneNext]_sceneVars => ((scene = "AccessOwners")' => scene = "AccessOwners")
  BY SceneLasts
<1>3. AccessScim!Spec => []AccessScim!MembershipIsSound
  BY AccessScim!AccessMembershipIsSound DEF AccessScim!FoundersAssumption
<1>4. [SceneNext]_sceneVars => ((scene = "AccessScim")' => scene = "AccessScim")
  BY SceneLasts
<1>5. AccessLeave!Spec => []AccessLeave!MembershipIsSound
  BY AccessLeave!AccessMembershipIsSound DEF AccessLeave!FoundersAssumption
<1>6. [SceneNext]_sceneVars => ((scene = "AccessLeave")' => scene = "AccessLeave")
  BY SceneLasts
<1> QED
  BY <1>1, <1>2, <1>3, <1>4, <1>5, <1>6, OwnersScene, LeaveScene, ScimScene, PTL
     DEF SceneSpec, MembershipIsSound

=============================================================================
