------------------------------ MODULE Platform -------------------------------
(***************************************************************************)
(* The machinery under the capabilities, for TLC: each behaviour is one of *)
(* the job queue, of the outbox, of the ledger, of the memberships or of   *)
(* the releases and listings on one small instance, the scene, under the   *)
(* fairness each of them states.  What PlatformProofs proves for every     *)
(* instance is written for every instance here: Outbox is extended and     *)
(* LedgerChain instantiated with constants of this module, and the scenes  *)
(* of Creator and Access instantiate the modules of their proofs.          *)
(***************************************************************************)
EXTENDS Integers, Sequences, FiniteSets, Outbox

CONSTANTS NoJob, NoApproval, w1, id, j1, j2, r1, Chain, g1, t1, d1, d2, a1, c1, None, o1, o2,
  k1, k2, ann, ben, x1, x2, tok, call1, call2, Txs, Rows, MaxAppends

VARIABLES scene,
  steps, runs, approvals, lapsed, receipts, effects, phase, held, wants, head, mine,
  committed, seq, proposals, releases, outcomes, recorder, listing, publishes, members,
  role, grants, invites, change, off, call, tx, raced, unseen

sceneVars == <<scene,
  status, attempts, token, owner, live, pc, claim, steps, runs, approvals, lapsed,
  receipts, effects, verdict, delivered, resent, reconciled, phase, held, wants, head,
  mine, committed, seq, proposals, releases, outcomes, recorder, listing, publishes,
  members, role, grants, invites, change, off, call, tx, raced, unseen>>

WithoutJobQueue == <<verdict, delivered, resent, reconciled, phase, held, wants,
                       head, mine, committed, seq, proposals, releases, outcomes,
                       recorder, listing, publishes, members, role, grants, invites,
                       change, off, call, tx, raced, unseen>>
WithoutOutbox == <<steps, runs, approvals, lapsed, receipts, effects, phase, held,
                     wants, head, mine, committed, seq, proposals, releases, outcomes,
                     recorder, listing, publishes, members, role, grants, invites,
                     change, off, call, tx, raced, unseen>>
WithoutLedgerChain == <<status, attempts, token, owner, live, pc, claim, steps, runs,
                          approvals, lapsed, receipts, effects, verdict, delivered,
                          resent, reconciled, proposals, releases, outcomes, recorder,
                          listing, publishes, members, role, grants, invites, change,
                          off, call, tx, raced, unseen>>
WithoutCreator == <<status, attempts, token, owner, live, pc, claim, steps, runs,
                      approvals, lapsed, receipts, effects, verdict, delivered, resent,
                      reconciled, phase, held, wants, head, mine, committed, seq,
                      members, role, grants, invites, change, off, call, tx, raced,
                      unseen>>
WithoutAccess == <<status, attempts, owner, live, pc, claim, steps, runs, approvals,
                     lapsed, effects, verdict, delivered, resent, reconciled, phase,
                     held, wants, head, mine, committed, seq, proposals, releases,
                     outcomes, recorder, listing, publishes>>

QueueSettles == INSTANCE JobQueue WITH
  Workers <- {w1}, IdOf <- [w \in {w1} |-> id], Jobs <- {j1, j2}, Durable <- {j1},
  Runs <- {r1}, Approvals <- {}, RunOf <- [j \in {j1} |-> r1],
  Prev <- [j \in {j1} |-> NoJob], ApprovalOf <- [j \in {j1, j2} |-> NoApproval],
  MaxAttempts <- 2
Ledger == INSTANCE LedgerChain
CreatorReleases == INSTANCE CreatorProofs WITH
  Gaps <- {g1}, OtherTickets <- {t1}, Digests <- {d1,d2}, Artifacts <- {a1},
  Recorders <- {c1}, Orgs <- {}, Keys <- {}, Manifests <- {}, MaxProposals <- 2,
  MaxReleases <- 2, MaxOutcomes <- 1, MaxPublishes <- 0
CreatorMarket == INSTANCE CreatorProofs WITH
  Gaps <- {}, OtherTickets <- {}, Digests <- {}, Artifacts <- {}, Recorders <- {},
  Orgs <- {o1,o2}, Keys <- {k1,k2},
  Manifests <- {[version |-> "1", capabilities |-> {"a"}, risks |-> [c \in {"a"} |-> "read"], license |-> None, text |-> "plain"], [version |-> "2", capabilities |-> {"a"}, risks |-> [c \in {"a"} |-> "read"], license |-> "MIT", text |-> "lone"], [version |-> "3", capabilities |-> {"a"}, risks |-> [c \in {"a", "b"} |-> "read"], license |-> "MIT", text |-> "plain"]},
  MaxProposals <- 0, MaxReleases <- 0, MaxOutcomes <- 0, MaxPublishes <- 2
AccessOwners == INSTANCE AccessProofs WITH
  Users <- {ann,ben}, Owners <- {ann,ben}, Roles <- {"staff"}, Permissions <- {},
  Tokens <- {}, Keys <- {}, Calls <- {}, Changers <- {x1,x2}, MaxInvites <- 2,
  MaxOff <- 0
AccessLeave == INSTANCE AccessProofs WITH
  Users <- {ann,ben}, Owners <- {ann,ben}, Roles <- {}, Permissions <- {},
  Tokens <- {tok}, Keys <- {}, Calls <- {call1}, Changers <- {x1}, MaxInvites <- 1,
  MaxOff <- 1
AccessScim == INSTANCE AccessProofs WITH
  Users <- {ann,ben}, Owners <- {ann}, Roles <- {}, Permissions <- {}, Tokens <- {tok},
  Calls <- {call1,call2}, Keys <- {k1}, Changers <- {}, MaxInvites <- 0, MaxOff <- 1

\* Replicas of a dispatcher share their configured id.
SharedId == [w \in Workers |-> id]

\* A variable that the component of the scene does not have is None.
SceneInit ==
  \/ /\ scene = "QueueSettles" /\ QueueSettles!Init
     /\ verdict = None /\ delivered = None /\ resent = None /\ reconciled = None /\
        phase = None /\ held = None /\ wants = None /\ head = None /\ mine = None /\
        committed = None /\ seq = None /\ proposals = None /\ releases = None /\
        outcomes = None /\ recorder = None /\ listing = None /\ publishes = None /\
        members = None /\ role = None /\ grants = None /\ invites = None /\
        change = None /\ off = None /\ call = None /\ tx = None /\ raced = None /\
        unseen = None
  \/ /\ scene = "OutboxDelivery" /\ Init
     /\ steps = None /\ runs = None /\ approvals = None /\ lapsed = None /\
        receipts = None /\ effects = None /\ phase = None /\ held = None /\
        wants = None /\ head = None /\ mine = None /\ committed = None /\ seq = None /\
        proposals = None /\ releases = None /\ outcomes = None /\ recorder = None /\
        listing = None /\ publishes = None /\ members = None /\ role = None /\
        grants = None /\ invites = None /\ change = None /\ off = None /\
        call = None /\ tx = None /\ raced = None /\ unseen = None
  \/ /\ scene = "LedgerAppends" /\ Ledger!Init
     /\ status = None /\ attempts = None /\ token = None /\ owner = None /\
        live = None /\ pc = None /\ claim = None /\ steps = None /\ runs = None /\
        approvals = None /\ lapsed = None /\ receipts = None /\ effects = None /\
        verdict = None /\ delivered = None /\ resent = None /\ reconciled = None /\
        proposals = None /\ releases = None /\ outcomes = None /\ recorder = None /\
        listing = None /\ publishes = None /\ members = None /\ role = None /\
        grants = None /\ invites = None /\ change = None /\ off = None /\
        call = None /\ tx = None /\ raced = None /\ unseen = None
  \/ /\ \/ scene = "CreatorReleases" /\ CreatorReleases!Init
        \/ scene = "CreatorMarket" /\ CreatorMarket!Init
     /\ status = None /\ attempts = None /\ token = None /\ owner = None /\
        live = None /\ pc = None /\ claim = None /\ steps = None /\ runs = None /\
        approvals = None /\ lapsed = None /\ receipts = None /\ effects = None /\
        verdict = None /\ delivered = None /\ resent = None /\ reconciled = None /\
        phase = None /\ held = None /\ wants = None /\ head = None /\ mine = None /\
        committed = None /\ seq = None /\ members = None /\ role = None /\
        grants = None /\ invites = None /\ change = None /\ off = None /\
        call = None /\ tx = None /\ raced = None /\ unseen = None
  \/ /\ \/ scene = "AccessOwners" /\ AccessOwners!Init
        \/ scene = "AccessLeave" /\ AccessLeave!Init
        \/ scene = "AccessScim" /\ AccessScim!Init
     /\ status = None /\ attempts = None /\ owner = None /\ live = None /\ pc = None /\
        claim = None /\ steps = None /\ runs = None /\ approvals = None /\
        lapsed = None /\ effects = None /\ verdict = None /\ delivered = None /\
        resent = None /\ reconciled = None /\ phase = None /\ held = None /\
        wants = None /\ head = None /\ mine = None /\ committed = None /\ seq = None /\
        proposals = None /\ releases = None /\ outcomes = None /\ recorder = None /\
        listing = None /\ publishes = None

SceneNext ==
  \/ scene = "QueueSettles" /\ QueueSettles!Next /\ UNCHANGED <<scene, WithoutJobQueue>>
  \/ scene = "OutboxDelivery" /\ Next /\ UNCHANGED <<scene, WithoutOutbox>>
  \/ scene = "LedgerAppends" /\ Ledger!Next /\ UNCHANGED <<scene, WithoutLedgerChain>>
  \/ scene = "CreatorReleases" /\ CreatorReleases!Next /\ UNCHANGED <<scene, WithoutCreator>>
  \/ scene = "CreatorMarket" /\ CreatorMarket!Next /\ UNCHANGED <<scene, WithoutCreator>>
  \/ scene = "AccessOwners" /\ AccessOwners!Next /\ UNCHANGED <<scene, WithoutAccess>>
  \/ scene = "AccessLeave" /\ AccessLeave!Next /\ UNCHANGED <<scene, WithoutAccess>>
  \/ scene = "AccessScim" /\ AccessScim!Next /\ UNCHANGED <<scene, WithoutAccess>>

SceneSpec == SceneInit /\ [][SceneNext]_sceneVars

queueVars == QueueSettles!vars
ledgerVars == Ledger!vars

SceneFairness ==
  /\ WF_queueVars(scene = "QueueSettles" /\ QueueSettles!Claim(w1))
  /\ WF_queueVars(scene = "QueueSettles" /\ QueueSettles!Process(w1))
  /\ \A j \in {j1, j2} : WF_queueVars(scene = "QueueSettles" /\ QueueSettles!LeaseExpires(j))
  /\ \A w \in Workers : /\ WF_vars(scene = "OutboxDelivery" /\ Claim(w))
                        /\ WF_vars(scene = "OutboxDelivery" /\ Process(w))
                        /\ WF_vars(scene = "OutboxDelivery" /\ Restart(w))
  /\ \A m \in Messages : WF_vars(scene = "OutboxDelivery" /\ LeaseExpires(m))
  /\ \A t \in Txs : /\ WF_ledgerVars(scene = "LedgerAppends" /\ Ledger!Step(t))
                    /\ WF_ledgerVars(scene = "LedgerAppends" /\ Ledger!DeadlockAbort(t))

FairSceneSpec == SceneSpec /\ SceneFairness

-----------------------------------------------------------------------------
\* A provider acts at most once more on a message than the HTTP client itself
\* sent it again, so at most once on an email and on a webhook answered on its
\* first connection, whatever crashes, leases that run out and late answers do:
\* only a rate-limited answer, on which the provider did not act, sends a row
\* back to pending, and no dispatcher repeats a request that may have been acted
\* on (claim_webhook, send, finalize).
MessagesDeliveredOnce == scene = "OutboxDelivery" => DeliveredAtMostOnce

\* Until an operator settles a row its status tells the truth of what the
\* dispatchers sent.  When the HTTP client asked once, a sent message was acted
\* on once and a waiting or failed one was not; beyond that every act on a
\* waiting or failed message was on a copy the client answered for itself with
\* another.  And no dispatcher will ever send again what is closed.
MessageStatusIsTrue == scene = "OutboxDelivery" => StatusIsTrue

\* A closed row stays closed: sent and failed are final, and only an operator
\* takes a row out of unknown (the fence of finalize, Reconcile's predicate).
ClosedMessagesStay ==
  [][scene = "OutboxDelivery" => ClosedStaysClosed]_sceneVars

\* The committed events form one chain in the order of their seq, gaps left by
\* rolled-back transactions included: each names the event right before it, so
\* that a verifier who walks the table finds no fork and no hole (AppendTx's
\* lock, held until its caller commits).
ChainIsLinear == scene = "LedgerAppends" => Ledger!ChainIsLinear

(* Nothing is released unreviewed and nothing is listed under a false name.*)
CreationsAreVouched ==
  /\ scene = "CreatorReleases" => CreatorReleases!CreationsAreVouched
  /\ scene = "CreatorMarket" => CreatorMarket!CreationsAreVouched

(* The organization keeps an owner and the identity provider the truth.    *)
MembershipIsSound ==
  /\ scene = "AccessOwners" => AccessOwners!MembershipIsSound
  /\ scene = "AccessLeave" => AccessLeave!MembershipIsSound
  /\ scene = "AccessScim" => AccessScim!MembershipIsSound

\* Every job that enters the queue is eventually done or failed, whatever
\* workers crash: an abandoned row is reclaimed until its attempts run out,
\* then swept (claim_capability_job).
JobsSettle ==
  \A j \in {j1, j2} :
    (scene = "QueueSettles" /\ status[j] \in {"pending", "processing"})
      ~> (scene = "QueueSettles" /\ status[j] \in {"done", "failed"})

\* Every message leaves the queue, sent, failed or in an operator's hands: an
\* exhausted row is never left pending (send's last rate-limited attempt).
AllMessagesSettle ==
  \A m \in Messages :
    (scene = "OutboxDelivery" /\ status[m] \in {"pending", "processing"})
      ~> (scene = "OutboxDelivery" /\ status[m] \in {"sent", "failed", "unknown"})

\* No transaction waits for ever.  Callers take the chain's lock and row locks in
\* both orders, so PostgreSQL aborts one of a circle; the others go on because the
\* chain's lock is the transaction's (pg_advisory_xact_lock) and ends with it,
\* aborted or committed, and not with the pooled session.
TransactionsEnd ==
  \A t \in Txs :
    (scene = "LedgerAppends" /\ phase[t] = "open") ~> (scene = "LedgerAppends" /\ phase[t] = "ended")

=============================================================================
