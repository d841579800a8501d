------------------------------- MODULE Outbox -------------------------------
(***************************************************************************)
(* The transactional outbox: rows of outbox_messages written with the      *)
(* business change that causes them, and the three dispatchers that        *)
(* deliver them outside the database: webhooks (outbox/worker.go),         *)
(* approval emails (outbox/notification_email_worker.go) and marketing     *)
(* emails (outbox/marketing_email.go).  The dispatchers are one protocol:  *)
(* claim under a lease, read, deliver, acknowledge under the fence.        *)
(*                                                                         *)
(* Unlike JobQueue the effect is not in the database: a provider may act   *)
(* on a request whose answer never arrives, so an abandoned row is closed  *)
(* as `unknown' and left to an operator, never sent again.  The HTTP       *)
(* client of the webhooks may put one request on the wire more than once   *)
(* by itself; `resent' counts what it does behind the dispatcher's back.   *)
(***************************************************************************)
EXTENDS Naturals

CONSTANTS
  Messages,     \* rows the outbox may hold
  Webhooks,     \* those of kind webhook; the others are emails
  Workers,      \* dispatcher processes
  Hooks,        \* those that dispatch webhooks
  IdOf,         \* the configured worker id, which replicas may share
  MaxAttempts,  \* max_attempts of every row
  MaxResends,   \* bound: how often the HTTP client asks again for one row
  NoMessage, NoOwner

ASSUME MaxAttemptsAssumption == MaxAttempts \in Nat

VARIABLES
  status,      \* outbox_messages.status, "absent" before the insert
  attempts,    \* outbox_messages.attempts
  token,       \* outbox_messages.fencing_token
  owner,       \* outbox_messages.lease_owner
  live,        \* lease_expires_at > clock_timestamp()
  pc,          \* where each dispatcher's ProcessOne stands
  claim,       \* the claim it holds in memory
  verdict,     \* the DeliveryResult it is about to store
  delivered,   \* how often the provider acted on each message
  resent,      \* how often the HTTP client itself sent it once more
  reconciled   \* the messages an operator has settled

rowVars == <<status, attempts, token, owner, live>>
memVars == <<pc, claim, verdict>>
vars == <<status, attempts, token, owner, live, pc, claim, verdict,
          delivered, resent, reconciled>>

MessageStatus == {"absent", "pending", "processing", "sent", "unknown", "failed"}
PCs == {"idle", "read", "send", "follow", "close", "ack", "stopped"}

NoClaim == [message |-> NoMessage, token |-> 0, attempts |-> 0]

Init == /\ status = [m \in Messages |-> "absent"]
        /\ attempts = [m \in Messages |-> 0]
        /\ token = [m \in Messages |-> 0]
        /\ owner = [m \in Messages |-> NoOwner]
        /\ live = [m \in Messages |-> FALSE]
        /\ pc = [w \in Workers |-> "idle"]
        /\ claim = [w \in Workers |-> NoClaim]
        /\ verdict = [w \in Workers |-> "unknown"]
        /\ delivered = [m \in Messages |-> 0]
        /\ resent = [m \in Messages |-> 0]
        /\ reconciled = {}

-----------------------------------------------------------------------------
MessageOf(w) == claim[w].message

\* Each dispatcher's login and claim function see rows of its own kind only.
Serves(w, m) == (w \in Hooks) <=> (m \in Webhooks)

Busy(w) == pc[w] \in {"read", "send", "follow", "close", "ack"}

Sending(w) == pc[w] \in {"send", "follow"}

\* The predicate of the payload read, finalize and renewLease.
Holds(w) == /\ MessageOf(w) \in Messages
            /\ status[MessageOf(w)] = "processing"
            /\ owner[MessageOf(w)] = IdOf[w]
            /\ token[MessageOf(w)] = claim[w].token
            /\ live[MessageOf(w)]

Leave(w, label) == /\ pc' = [pc EXCEPT ![w] = label]
                   /\ claim' = [claim EXCEPT ![w] = NoClaim]
                   /\ verdict' = [verdict EXCEPT ![w] = "unknown"]

Proceed(w, label, result) == /\ pc' = [pc EXCEPT ![w] = label]
                             /\ verdict' = [verdict EXCEPT ![w] = result]
                             /\ UNCHANGED claim

-----------------------------------------------------------------------------
(* Rows enter the outbox and are claimed.                                  *)

\* insertOutbox: a row whose dedupe key exists is not inserted again.
Enqueue(m) ==
  /\ status[m] = "absent"
  /\ status' = [status EXCEPT ![m] = "pending"]
  /\ UNCHANGED <<attempts, token, owner, live, memVars, delivered, resent, reconciled>>

Expired(w, m) == Serves(w, m) /\ status[m] = "processing" /\ ~live[m]

\* Mutants of SweptStatus: an expired row is queued again; it gets a status the
\* table does not know.
SweptPending(w) == [m \in Messages |-> IF Expired(w, m) THEN "pending" ELSE status[m]]
SweptExpired(w) == [m \in Messages |-> IF Expired(w, m) THEN "expired" ELSE status[m]]

\* What the first UPDATE of the claim function leaves behind.
SweptStatus(w) == [m \in Messages |-> IF Expired(w, m) THEN "unknown" ELSE status[m]]
SweptOwner(w)  == [m \in Messages |-> IF Expired(w, m) THEN NoOwner ELSE owner[m]]

ClaimRow(w, m) ==
  /\ pc[w] = "idle"
  /\ Serves(w, m)
  /\ status[m] = "pending"
  /\ attempts[m] < MaxAttempts
  /\ status' = [SweptStatus(w) EXCEPT ![m] = "processing"]
  /\ owner' = [SweptOwner(w) EXCEPT ![m] = IdOf[w]]
  /\ live' = [live EXCEPT ![m] = TRUE]
  /\ attempts' = [attempts EXCEPT ![m] = @ + 1]
  /\ token' = [token EXCEPT ![m] = @ + 1]
  /\ claim' = [claim EXCEPT ![w] = [message |-> m, token |-> token[m] + 1,
                                    attempts |-> attempts[m] + 1]]
  /\ pc' = [pc EXCEPT ![w] = "read"]
  /\ UNCHANGED <<verdict, delivered, resent, reconciled>>

\* No row is due; the sweep still commits.
ClaimNone(w) ==
  /\ pc[w] = "idle"
  /\ \E m \in Messages : Expired(w, m)
  /\ status' = SweptStatus(w)
  /\ owner' = SweptOwner(w)
  /\ UNCHANGED <<attempts, token, live, memVars, delivered, resent, reconciled>>

-----------------------------------------------------------------------------
(* ProcessOne.                                                             *)

\* The payload is readable and valid; a marketing recipient is still eligible.
ReadPayload(w) ==
  /\ pc[w] = "read"
  /\ Holds(w)
  /\ Proceed(w, "send", "unknown")
  /\ UNCHANGED <<rowVars, delivered, resent, reconciled>>

\* A webhook whose payload does not decode is closed as unknown.
RefuseWebhook(w) ==
  /\ pc[w] = "read"
  /\ w \in Hooks
  /\ Holds(w)
  /\ Proceed(w, "close", "unknown")
  /\ UNCHANGED <<rowVars, delivered, resent, reconciled>>

\* An email that cannot be read is unknown; one that is invalid, no longer
\* eligible or has no SMTP host is failed before anything is sent.
RefuseEmail(w) ==
  /\ pc[w] = "read"
  /\ w \notin Hooks
  /\ Holds(w)
  /\ \E result \in {"unknown", "failed"} : Proceed(w, "ack", result)
  /\ UNCHANGED <<rowVars, delivered, resent, reconciled>>

\* The read finds no row under the lease.  finalize finds none either: the
\* webhook dispatcher goes on, an email dispatcher stops with an error.
ReadNothing(w) ==
  /\ pc[w] = "read"
  /\ ~Holds(w)
  /\ Leave(w, IF w \in Hooks THEN "idle" ELSE "stopped")
  /\ UNCHANGED <<rowVars, delivered, resent, reconciled>>

\* What a provider may answer: 2xx, 429, another 4xx, or nothing that settles
\* the matter (5xx, a transport error, a timeout), having acted or not.
Answers(w) == {"accepted", "lost", "actedButLost"}
                \cup IF w \in Hooks THEN {"limited", "rejected"} ELSE {}

\* Mutants of Verdict: an uncertain outcome is called a failure; a rate-limited
\* last attempt goes back to pending.
VerdictCertain(w, answer) ==
  CASE answer = "accepted" -> "sent"
    [] answer = "limited"  -> IF claim[w].attempts >= MaxAttempts THEN "failed" ELSE "pending"
    [] OTHER               -> "failed"
VerdictEndless(w, answer) ==
  CASE answer = "accepted" -> "sent"
    [] answer = "limited"  -> "pending"
    [] answer = "rejected" -> "failed"
    [] OTHER               -> "unknown"

Verdict(w, answer) ==
  CASE answer = "accepted" -> "sent"
    [] answer = "limited"  -> IF claim[w].attempts >= MaxAttempts THEN "failed" ELSE "pending"
    [] answer = "rejected" -> "failed"
    [] OTHER               -> "unknown"

\* net/http sends a POST that carries an Idempotency-Key again when the pooled
\* connection it used dies before an answer, and follows a 307 or 308 with the
\* same body.  The provider may have acted on the copy that went before.
Resend(w, acted) ==
  /\ pc[w] = "send"
  /\ w \in Hooks
  /\ resent[MessageOf(w)] < MaxResends
  /\ resent' = [resent EXCEPT ![MessageOf(w)] = @ + 1]
  /\ delivered' = [delivered EXCEPT ![MessageOf(w)] = @ + (IF acted THEN 1 ELSE 0)]
  /\ UNCHANGED <<rowVars, memVars, reconciled>>

\* A 301, 302 or 303 is followed with a GET that has no body, and the dispatcher
\* takes the answer to that for the provider's.
Redirect(w, acted) ==
  /\ pc[w] = "send"
  /\ w \in Hooks
  /\ resent[MessageOf(w)] < MaxResends
  /\ resent' = [resent EXCEPT ![MessageOf(w)] = @ + 1]
  /\ delivered' = [delivered EXCEPT ![MessageOf(w)] = @ + (IF acted THEN 1 ELSE 0)]
  /\ Proceed(w, "follow", verdict[w])
  /\ UNCHANGED <<rowVars, reconciled>>

\* The last copy is answered, whether or not the lease still holds by now; no
\* provider acts on a GET it redirected to.
Send(w, answer) ==
  /\ pc[w] \in {"send", "follow"}
  /\ delivered' = IF pc[w] = "send" /\ answer \in {"accepted", "actedButLost"}
                  THEN [delivered EXCEPT ![MessageOf(w)] = @ + 1]
                  ELSE delivered
  /\ Proceed(w, "ack", Verdict(w, answer))
  /\ UNCHANGED <<rowVars, resent, reconciled>>

\* Mutant of Finalize: the acknowledgement is not fenced.
FinalizeUnfenced(w) ==
  /\ pc[w] \in {"close", "ack"}
  /\ status' = [status EXCEPT ![MessageOf(w)] = verdict[w]]
  /\ owner' = [owner EXCEPT ![MessageOf(w)] = NoOwner]
  /\ live' = [live EXCEPT ![MessageOf(w)] = FALSE]
  /\ Leave(w, "idle")
  /\ UNCHANGED <<attempts, token, delivered, resent, reconciled>>

Finalize(w) ==
  /\ pc[w] \in {"close", "ack"}
  /\ Holds(w)
  /\ status' = [status EXCEPT ![MessageOf(w)] = verdict[w]]
  /\ owner' = [owner EXCEPT ![MessageOf(w)] = NoOwner]
  /\ live' = [live EXCEPT ![MessageOf(w)] = FALSE]
  /\ Leave(w, "idle")
  /\ UNCHANGED <<attempts, token, delivered, resent, reconciled>>

\* finalize matched no row: the dispatcher stops with an error, except when a
\* webhook's payload was refused.
FencedOut(w) ==
  /\ pc[w] \in {"close", "ack"}
  /\ ~Holds(w)
  /\ Leave(w, IF pc[w] = "close" THEN "idle" ELSE "stopped")
  /\ UNCHANGED <<rowVars, delivered, resent, reconciled>>

\* A renewal matched no row: the delivery is cancelled and nothing is stored.
\* (A renewal that fails with an error is ignored.)
HeartbeatLost(w) ==
  /\ Busy(w)
  /\ ~Holds(w)
  /\ Leave(w, "idle")
  /\ UNCHANGED <<rowVars, delivered, resent, reconciled>>

\* The process dies or returns a database error; a supervisor starts it again.
\* One that dies between two claims only polls later.
Stop(w) ==
  /\ pc[w] \notin {"idle", "stopped"}
  /\ Leave(w, "stopped")
  /\ UNCHANGED <<rowVars, delivered, resent, reconciled>>

Restart(w) ==
  /\ pc[w] = "stopped"
  /\ Leave(w, "idle")
  /\ UNCHANGED <<rowVars, delivered, resent, reconciled>>

-----------------------------------------------------------------------------
LeaseExpires(m) ==
  /\ status[m] = "processing"
  /\ live[m]
  /\ live' = [live EXCEPT ![m] = FALSE]
  /\ UNCHANGED <<status, attempts, token, owner, memVars, delivered, resent, reconciled>>

\* An operator settles an unknown webhook.
Reconcile(m, to) ==
  /\ m \in Webhooks
  /\ status[m] = "unknown"
  /\ status' = [status EXCEPT ![m] = to]
  /\ reconciled' = reconciled \cup {m}
  /\ UNCHANGED <<attempts, token, owner, live, memVars, delivered, resent>>

-----------------------------------------------------------------------------
Claim(w) == ClaimNone(w) \/ \E m \in Messages : ClaimRow(w, m)

Process(w) == \/ ReadPayload(w) \/ RefuseWebhook(w) \/ RefuseEmail(w)
              \/ ReadNothing(w)
              \/ \E answer \in Answers(w) : Send(w, answer)
              \/ Finalize(w) \/ FencedOut(w)

Next == \/ \E w \in Workers : \/ Claim(w) \/ Process(w) \/ HeartbeatLost(w)
                              \/ Stop(w) \/ Restart(w)
                              \/ \E acted \in BOOLEAN : Resend(w, acted) \/ Redirect(w, acted)
        \/ \E m \in Messages : \/ Enqueue(m) \/ LeaseExpires(m)
                               \/ \E to \in {"sent", "failed"} : Reconcile(m, to)

Spec == Init /\ [][Next]_vars

\* Dispatchers poll, every request and transaction has a timeout, a stopped
\* process is restarted, and the clock moves on.  Stops are not fair.
Fairness == /\ \A w \in Workers : /\ WF_vars(Claim(w))
                                  /\ WF_vars(Process(w))
                                  /\ WF_vars(Restart(w))
            /\ \A m \in Messages : WF_vars(LeaseExpires(m))

FairSpec == Spec /\ Fairness

-----------------------------------------------------------------------------
(* Properties.                                                             *)

TypeOK == /\ status \in [Messages -> MessageStatus]
          /\ attempts \in [Messages -> 0..MaxAttempts]
          /\ token \in [Messages -> Nat]
          /\ DOMAIN owner = Messages
          /\ live \in [Messages -> BOOLEAN]
          /\ pc \in [Workers -> PCs]
          /\ claim \in [Workers -> [message : Messages \cup {NoMessage}, token : Nat, attempts : Nat]]
          /\ verdict \in [Workers -> MessageStatus]
          /\ delivered \in [Messages -> Nat]
          /\ resent \in [Messages -> Nat]
          /\ reconciled \subseteq Messages

\* A provider acts at most once more on a message than the HTTP client itself
\* sent it again, so at most once on an email and on a webhook answered on its
\* first connection, whatever crashes, leases that run out and late answers do:
\* only a rate-limited answer, on which the provider did not act, sends a row
\* back to pending, and no dispatcher repeats a request that may have been acted
\* on (claim_webhook, send, finalize).
DeliveredAtMostOnce == \A m \in Messages : delivered[m] <= 1 + resent[m]

\* Until an operator settles a row its status tells the truth of what the
\* dispatchers sent.  When the HTTP client asked once, a sent message was acted
\* on once and a waiting or failed one was not; beyond that every act on a
\* waiting or failed message was on a copy the client answered for itself with
\* another.  And no dispatcher will ever send again what is closed.
StatusIsTrue ==
  \A m \in Messages \ reconciled :
    /\ status[m] = "sent" /\ resent[m] = 0 => delivered[m] = 1
    /\ status[m] \in {"pending", "failed"} =>
         delivered[m] <= resent[m] /\ \A w \in Workers : ~(Sending(w) /\ MessageOf(w) = m)

\* A closed row stays closed: sent and failed are final, and only an operator
\* takes a row out of unknown (the fence of finalize, Reconcile's predicate).
ClosedStaysClosed ==
  \A m \in Messages :
       /\ status[m] \in {"sent", "failed"} => status'[m] = status[m]
       /\ status[m] = "unknown" => status'[m] = "unknown" \/ m \in reconciled' \ reconciled

(* What makes them inductive (see PlatformProofs).                         *)

\* A dispatcher at work has the newest claim of its row, however late it is:
\* nothing but its own acknowledgement sends a claimed row back to pending.
BusyIsNewest ==
  \A w \in Workers : Busy(w) =>
    /\ MessageOf(w) \in Messages
    /\ claim[w].token = token[MessageOf(w)]
    /\ status[MessageOf(w)] \notin {"absent", "pending"}
    /\ MessageOf(w) \notin reconciled => status[MessageOf(w)] \in {"processing", "unknown"}

BusyAlone == \A v, w \in Workers : Busy(v) /\ Busy(w) /\ MessageOf(v) = MessageOf(w) => v = w

\* The verdict a dispatcher carries says what the provider did.
VerdictIsTrue ==
  \A w \in Workers : Busy(w) =>
    /\ pc[w] = "read" \/ Sending(w) \/ verdict[w] \in {"pending", "failed"} =>
         delivered[MessageOf(w)] <= resent[MessageOf(w)]
    /\ pc[w] \in {"close", "ack"} /\ verdict[w] = "sent" /\ resent[MessageOf(w)] = 0 =>
         delivered[MessageOf(w)] = 1
    /\ pc[w] = "follow" => resent[MessageOf(w)] > 0
    /\ pc[w] \in {"close", "ack"} => verdict[w] \in {"pending", "sent", "failed", "unknown"}

WaitingIsUnsent ==
  \A m \in Messages : status[m] \in {"absent", "pending"} => delivered[m] <= resent[m]

SettledIsClosed == \A m \in reconciled : status[m] \in {"sent", "failed"}

IInv == /\ TypeOK /\ BusyIsNewest /\ BusyAlone /\ VerdictIsTrue
        /\ WaitingIsUnsent /\ SettledIsClosed /\ DeliveredAtMostOnce /\ StatusIsTrue

\* Every message leaves the queue, sent, failed or in an operator's hands: an
\* exhausted row is never left pending (send's last rate-limited attempt).
MessagesSettle ==
  \A m \in Messages : (status[m] \in {"pending", "processing"})
                        ~> (status[m] \in {"sent", "failed", "unknown"})
=============================================================================
