# A verification project for ChasteBusinessOS

ChasteBusinessOS is a business system (accounting, sales, inventory, HR, CRM,
support, ...) whose every change goes through *capabilities*: named operations
that a Go executor runs for a human, an agent or a background worker, in one
PostgreSQL transaction, under an action intent, a policy that may ask for a
human approval, an event ledger and a receipt. This directory models the
machinery all capabilities depend on and the business components behind it,
with what TLC checks of them on small instances and what TLAPS proves of them
for every instance.

Paths below are relative to `src/apps/api/internal/` unless they start with
`src/` or `docs/` (`src/docs/`); a bare file name is in `capability/`.

## Inventory

| Component | State it keeps | Operations | Talks to |
|---|---|---|---|
| capability executor (`capability/executor.go`) | `action_receipts`, domain tables | `Execute`, `ExecuteSystem`, `ExecuteWithApprovalFinalizer` | policy, approvals, ledger, outbox, every domain |
| approvals (`capability/approval.go`, `requestApproval`) | `approvals` | request, supersede, reject, expire, claim, execute, finish, restore | executor, workers |
| capability queue (`jobs/worker.go`, SQL `claim_capability_job`) | `jobs` | claim and sweep, renew, process, finalize | executor, approvals, agent runs |
| durable run dispatcher (`jobs/durable_run_dispatcher.go`) | `agent_runs`, `agent_run_steps`, `jobs` | `CreateAndDispatch` | approvals, queue |
| event ledger (`ledger/writer.go`) | `ledger_events` | `AppendTx`, inside the caller's transaction | every writer |
| outbox (`outbox/*.go`, SQL claim functions) | `outbox_messages` | enqueue, claim and sweep, deliver, finalize, reconcile | webhook receivers, SMTP |
| transaction helper (`dbx/org_tx.go`) | - | begin, commit, roll back | everything |
| schedules (`jobs/routines.go`, `routine_scheduler.go`, `recurring_invoice_scheduler.go`) | routines, templates, occurrences | schedule, edit, run a turn, bill | queue, executor, language models |
| HTTP capability routes (`httpapi/*.go`) | - | guards, key, call, answer | executor |
| membership, roles, invitations, SCIM (`iam.go`, `scim.go`, `httpapi/invitations.go`, `scim_write.go`) | `user_roles`, `invitations`, SCIM tokens | assign, invite, accept, provision, deactivate | executor |
| sign-in service (`authn`) | accounts, sessions, link mails | sign up, sign in, refresh, recover | SMTP |
| creator and marketplace (`creator.go`) | proposals, releases, outcomes, listings | propose, review, release, observe, publish, install | approvals |
| sales, point of sale, receivables | orders, reservations, quotes, sales, invoices, payments | confirm, deliver, invoice, pay, credit, return | stock, books |
| stock, production, purchasing, payables | movements, counts, bills of materials, requests, orders, bills, payment runs | move, count, build, receive, bill, pay | books |
| bank, budgets, books, tax | statement lines, claims, budget versions, entries, periods, returns | import, match, plan, post, close, file, settle | books |
| support, CRM, messaging, documents, agent turns | conversations, customers, messages, versions and drafts, trajectories | reply, merge, import, send, publish, read, answer | language models |
| HR, projects | employees, leave, hours, pay, tasks | hire, approve, pay, move, undo | books |

What is hard here is rarely a single handler but what happens between them:

* workers that crash, pause past their lease, or share one configured id, while
  a reclaimed row is already being processed by another worker;
* a transaction that commits although its caller sees an error;
* humans, callers and workers who change one row at the same time, some of them
  after having read it without a lock;
* deliveries and language models outside the database, whose outcome may stay
  unknown or come too late;
* locks taken in different orders by different transactions;
* undo: a receipt that is presented later, when what it describes has moved on;
* two sets of records that must tell one story (documents and books, stock and
  its value, bank and entries), with amounts that round.

`PROJECT.json` lists the components with what is left out of each, and the
hazards, each at the line where it bites.

## Modules

In each component's module an action is one database transaction, or one
external call. PostgreSQL runs the program's writers at READ COMMITTED, so an
action reads and writes the state of one moment. Where the code locks what it
looked at before it looks, that is the whole transaction; where it reads first
and locks later, the action is split at that point, and the module's header says
so. Definitions whose comment begins with *Mutant of* are not part of a
specification: they are plausible mistakes, at least one for each property, that
TLC must notice when they take the place of the definition that follows them.

| Module | Models |
|---|---|
| `EffectOnce` | abstract specification of a queued capability: an effect at most once, acknowledged only after it, settled once |
| `JobQueue` | queue rows, workers, effect transactions, durable runs |
| `ApprovalGate` | callers, versioned approvals and Decide calls |
| `GovernedWork` | `JobQueue` and `ApprovalGate` over one approvals table |
| `Outbox` | the three dispatchers and the operator |
| `LedgerChain` | appends to the hash chain from concurrent transactions |
| `Access` | roles, invitations, acceptance, SCIM with retries |
| `Creator` | proposals, releases, canary outcomes, signed listings |
| `RouteTable`, `Authority` | every route's guards and capability; one request sent and retried while the caller's authority changes |
| `Accounts` | sign-up, sign-in, sessions, recovery links, throttle |
| `SalesOrders` | orders, reservations, deliveries, quotations |
| `PointOfSale` | register sessions, sales, partial returns |
| `Receivables` | invoices, payments in two currencies, reversals, credit notes |
| `Support` | conversations, widget, automatic replies and their budgets |
| `Customers` | profiles, merges, imports, lead conversions, each with its undo |
| `Stock`, `StockValuation` | movements, transfers, counts; replayed average value and its summaries |
| `Manufacturing` | bills of materials, work orders, production runs |
| `Procurement`, `Payables` | request to received and billed goods; bills, payments, credits, payment runs |
| `Treasury`, `Budgets` | bank lines, matches, expense claims; budget versions against actuals and commitments |
| `GeneralLedger`, `TaxFiling` | posting, reversal, revaluation, month and year close; tax windows, returns, settlements |
| `Messaging`, `AgentTurns` | conversations with undo and read cursors; turns of an agent session |
| `Documents` | versions, drafts under a soft lock, readings, coding |
| `Workforce`, `Projects`, `Schedules` | leave, hours, pay, hiring; tasks with undo plans; routines and recurring invoices |
| `MCJobQueue`, `MCApprovalGate`, `MCGovernedWork` | instances for TLC |
| `Platform`, `Commerce`, `GoodsAndMoney`, `BackOffice` | instances of the other components for TLC, in scenes |
| `...Proofs` (eight) | TLAPS proofs |

### Scenes

The business components meet in the books and in stock only through amounts
that each of them models itself, so most runs look at one component at a time.
The four modules `Platform`, `Commerce`, `GoodsAndMoney` and `BackOffice` gather
them: the variable `scene` is chosen in the initial state and never changes, and
a behaviour is a behaviour of one component on one small instance. Variables of
other components are `None`. A component appears in several scenes when one
instance that exercises everything would be too large: for instance two owners
with an acceptance and a deactivation, and one user with two overlapping SCIM
calls.

The two servers of the scenes of `Support` are interchangeable and no other scene
of `Commerce` has them, so its runs identify states up to their exchange
(`Servers`).

Most scenes are given by `INSTANCE ... WITH`. A component that the proofs of its
composite speak about is instantiated once, for constants of the composite that
its `.cfg` gives values: `Platform` extends `Outbox` and has `Ledger == INSTANCE
LedgerChain`, `Commerce` extends `SalesOrders`, `PointOfSale` and `Receivables`.
Their scenes differ in a bound on the states instead (`SalesBounds`,
`TillBounds`, `ReceivablesBounds`), which only removes behaviours. What the components call `Init`, `Next` and `Spec` is
`SceneInit`, `SceneNext` and `SceneSpec` in these two composites.

### JobQueue

State: the columns of `jobs` that decide anything (`status`, `attempts`,
`token` = `fencing_token`, `owner` = `lease_owner`, `live` = the lease has not
run out), the checkpoints `steps` and `runs`, the approvals and whether they
have run out, and for each worker where its `ProcessOne` stands (`pc`) and the
`ClaimedJob` it remembers (`claim`). `receipts` and `effects` record what the
effect transactions committed; the intent of a job is its id.

| Code | Action |
|---|---|
| `claim_capability_job`: sweep and claim, one transaction | `ClaimRow`, `ClaimNone` |
| `transitionRun`/`transitionStep` "running" | `MarkRunRunning`, `MarkStepRunning` |
| `loadPayload` | `LoadPayload` |
| `requireSystemJobLease`, intent section, `verifySystemApproval` | `BeginEffect`, `RefuseEffect` |
| receipt replay, or capability + ledger + receipt, then COMMIT | `CommitEffect`, `CommitUnanswered`, `AbortEffect` |
| `finishApproval` | `FinishApproval` |
| `transitionStep` "committed" / "failed", `transitionRun` "failed" | `CommitStep`, `FailStep`, `FailRun` |
| `finalize` | `Acknowledge`, `Retry` |
| a fenced write that matches no row | `FencedOut` |
| heartbeat, effect gate | `HeartbeatLost` |
| process death, database errors | `Crash` |
| `CreateAndDispatch`, first call and replay | `Dispatch` |

The effect transaction is the one transaction split in two: it takes the row
lock on its job in `requireSystemJobLease` and keeps it to the end, and
meanwhile the lease may run out (`LeaseExpires`), approvals may be decided, and
other workers claim other rows. The claim skips locked rows (SKIP LOCKED), the
sweep's UPDATE waits for them; both are `~Locked`. The lease extension made
inside the effect transaction is lost when it rolls back, which is why
`AbortEffect` may leave the lease expired. Renewals only keep `live` true and
need no action of their own.

Choices worth knowing: `attempts` and the token grow by one per claim, so
`MaxAttempts` bounds both and no other bound is needed. A capability that
answers `OK = false` commits an empty transaction (with its lease extension); to
the queue that is a failed attempt, one of the two outcomes of `AbortEffect`.
The early exhaustion for "unknown job capability" cannot happen to a claimed
row, since the claim function has an allowlist of types. A job is `Gated` when
it carries an approval; the model assumes that the policy which asked for it
still asks when the job runs. `ApprovalsDecided` allows everything the gate may
do to the table in one transaction; `GovernedWork` shows that this is so
(`QueueRefined`).

### ApprovalGate and GovernedWork

A *request* is one action a caller wants, under its intent or without one; the
approval row it may lead to has the request's name. `Fresh` is the intent
section of `executeWithFinalizer`: advisory lock free, no receipt, no approval.
Every other call of the intent is answered from these rows and changes nothing.
`requestApproval` is split in two (`RequestApproval`, `RequestCommits`) because
the UPDATE that supersedes older proposals reads the table before the rows of
concurrent transactions are visible, and keeps the rows it marks locked.
`Decide` reads the row without a lock (`DecideRead`), then rejects, expires or
claims it with `UPDATE ... WHERE status = 'pending'`; a claim is committed
before anything is executed. The execution commits effect, receipt and
`executed` together (`ExecuteApproved`), may lose the answer
(`DecideUnanswered`), or fails; `DecideSettle` is `finish(... "failed")` or
`restorePending`. `MaxCrashes` bounds how many Decide calls die. The status
`approved` is not modelled: Decide stores it only for a result
`PendingApproval`, which an execution with a finalizer never returns.

`GovernedWork` has `Queue == INSTANCE JobQueue` and `Gate == INSTANCE
ApprovalGate` over one `approvals` table. A step is a step of one of them that
leaves the other's own variables alone.

### Outbox and LedgerChain

One protocol, three dispatchers: webhooks, approval emails, marketing emails. A
row that lost its lease is closed as `unknown`, never sent again. `Send` is the
external call: it happens whether or not the lease still holds, and the
provider may have acted without an answer (`actedButLost`). A webhook may go out
more than once within one call, without the dispatcher knowing: its POST carries
an `Idempotency-Key` (`outbox/worker.go:192`), which makes `net/http` send it
again when a reused connection breaks before an answer, and the client follows
redirects, repeating the POST for a 307 or 308 (`Resend`) and going on with a GET
for the others, whose answer it then takes for the receiver's (`Redirect`). The
receiver may have acted on each copy. `resent` counts these copies and
`MaxResends` bounds them. A receiver that honours the key sees the copies as one;
the program asks for that and cannot enforce it, so the model does not assume it.
`Verdict` is the table in `send`; SMTP has only "accepted" and "uncertain". Differences kept: a
webhook whose payload cannot be decoded is closed (`RefuseWebhook`) and the
dispatcher goes on, an email dispatcher whose acknowledgement is fenced stops
with an error; only webhooks can be reconciled by an operator.

`AppendTx` is lock, read head, insert, in that order; the advisory lock belongs
to the caller's transaction. Callers also lock business rows before, between and
after appends. A hash is modelled by the identity of its event: collisions and
the encoding of the hashed fields are outside the model. PostgreSQL's deadlock
detector is external, modelled by what the program relies on. It ends a circle,
but not the wait of the others: for that the lock has to end with the aborted
transaction, which is why the code takes `pg_advisory_xact_lock` and what
`TransactionsEnd` depends on (its mutant, `ReleaseRows`, is a session's lock).

### Access and Creator

`Access` has two kinds of row that several transactions want: the owners'
`user_roles` rows, and the membership that SCIM calls change. Three transactions
can take the owner role from somebody: an assignment (`AssignRole`), an
acceptance (`ClaimInvitation`) and a deactivation (`LockMember`, `LookMember`).
Each first *looks* whether its user is an owner, without a lock on the row, then
counts the other owners under row locks if so and deletes what rows it finds in
one statement (`ReplaceRole`, `RemoveMember`), and commits (`CommitChange`,
`CommitDeactivate`) or aborts. An assignment and a deactivation hold the advisory
lock `iam.owner-grants` from their look to their end; an acceptance does not take
it. A delete that waited for another transaction's delete of the same rows finds
neither those nor what that transaction inserted (`Blind`). Three scenes share
this: `AccessOwners` (two owners demoted and invited again at once),
`AccessLeave` (an assignment or acceptance beside a deactivation), `AccessScim`.

A SCIM call has the intent of its `Idempotency-Key`, if the client sends one, and
otherwise one that contains the *generation* of the user's membership
(`IntentOf`); a key used again for another request is refused. A call remembers in
`seen` what was true of the membership while it was in flight, and what was first
answered under its key: what an honest answer may say.

`Creator` has one table per idea (proposals, releases, outcomes, one listing)
and numbered rows. Recording a canary outcome reads the release in one
transaction and inserts in another. A signed manifest is its fields; the one
thing canonical JSON may change is a string that holds half of a surrogate pair
(`text = "lone"`).

### The business components

Every module's header says which files it models and where its transactions are
split. Amounts are integers and every division rounds the way the code's does;
quantities are in thousandths or in a small `Unit`; clocks are small integers,
since a timestamp is `now()`, the start of the transaction, and two transactions
may share one. A ghost variable (`raced`, `overlap`, `touched`, `late`, ...)
records that two transactions overlapped in a way the code does not prevent;
properties then say *exactly* which overlap is needed for the damage, rather
than that there is none. The consequences of such overlaps are listed under
*Divergences without a run*.

In `Messaging` an edit is taken as it comes and may blank a message, where
sending trims; a read cursor goes to now, to any time the caller gives, past or
future, or to none; and the agent is asked in its own conversation or by a
mention. `GeneralLedger.closeYear` reads the live roll, then the balances, then
takes its lock: three steps. `StockValuation.inventoryPostValuationSummary` reads
the ledger (`ReadLedger`) and the account (`ReadAccount`) by two statements and
posts in a third step.

`RouteTable` is data: for each route its guards in order, the capability of each
action, what it does with an idempotency key and how it answers. `Authority`
runs one request, sent twice, through any row of that table.

## Runs

| Run | Instance | Shows |
|---|---|---|
| `JobQueueRun` | 2 workers with one id, 2-step run, second step approved, 2 attempts | `TypeOK`, `EffectAtMostOnce`, `EffectByCurrentClaim`, `DoneIsCheckpointed`, `StepsInOrder`, `StaleWorkerHarmless`, `ImplementsEffectOnce` |
| `ApprovalGate` | 3 versioned requests of one user, two of one intent, 2 Decide calls, 2 deaths | `TypeOK`, `IntentFiresOnce`, `ExecutedIffFired`, `OneClaimant`, `DecisionsAreFinal`, `ClaimsResolve` |
| `ApprovalGateVersions` | the same | `OneExecutableVersion` is violated |
| `GovernedWork` | 1 worker, 1 job under the first of two versions, 1 Decide call, 1 death, 2 attempts | `ExecutedHasEffect`, `QueueRefined` |
| `GovernedWorkDoubleFire` | 1 worker, 2 runs under one approval, 1 death | `ApprovalFiresOnce` is violated |
| `Platform` | 8 scenes: queue, outbox, ledger, creator, access | `MessagesDeliveredOnce`, `MessageStatusIsTrue`, `ClosedMessagesStay`, `ChainIsLinear`, `CreationsAreVouched`, `MembershipIsSound`, and the liveness of queue, outbox and ledger: `JobsSettle`, `AllMessagesSettle`, `TransactionsEnd` |
| `Commerce` | 12 scenes: orders, till, receivables, support, customers | `SalesKeepTheirWord`, `SalesAreBacked`, `RegistersAreTrue`, `InvoicesReconcile`, `CustomersAreRespected` |
| `SalesOversell` | the scenes of Commerce | `DeliveriesKeepPromises` is violated |
| `GoodsAndMoney` | stock, value, production, purchasing, payables, bank, budgets, books, tax | `GoodsAreAccountedFor`, `CountMakesTrue`, `SummaryRepairs`, `OrdersAreHonoured`, `PayablesReconcile`, `MoneyIsExplained`, `BooksAndTaxAreSound`, `SealedBooks` |
| `TaxCreditNotes` | the scenes of GoodsAndMoney | `CreditNotesReconcile` is violated |
| `BankEntryClaimedTwice` | the scenes of GoodsAndMoney | `OneLinePerEntry` is violated |
| `BackOffice` | messaging, authority, accounts, workforce, schedules, projects, agent turns, documents | `ConversationsKeepFaith`, `OnlyTheEntitledAct`, `WorkIsKept` |

The properties of the composites are conjunctions over scenes of named parts in
the components' modules; each part has its own comment there. In short:

* `MessagesDeliveredOnce` (`DeliveredAtMostOnce` of `Outbox`): a receiver acts on
  a message at most once more than the HTTP client itself sent it again, so once
  on an e-mail and once on a webhook that the client sent in one copy.
  `MessageStatusIsTrue`: until an operator settles it, what a row says of its
  delivery is true of a message sent in one copy; one that was sent in several and
  is pending or failed was acted on no more often than it was sent again.
* `MembershipIsSound`: a member owns the organization and only members have
  roles, except after one of the two overlaps the locks do not prevent (`unseen`,
  `raced`); every answer to a SCIM call was true while the call was in flight or
  is the one first given under its key.
* `TransactionsEnd`: no transaction that appends waits for ever.
* `SalesKeepTheirWord` (`OrdersKeepTheirWord` of `SalesOrders`): what is invoiced
  was shipped, open reservations are those of open lines, a quotation becomes one
  document. `SalesAreBacked` (`PromisesAreBacked`): no step promises stock that
  is not there.
* `RegistersAreTrue` (`TillIsTrue` of `PointOfSale`): refunds add up to what was
  sold through any partial returns, and books, stock and the drawer of the first
  shift agree with the sales.
* `InvoicesReconcile` (`ReceivablesReconcile` of `Receivables`): invoices, accounts,
  foreign settlements, statuses and the customer statement tell one story.
* `CustomersAreRespected`: an automatic reply never enters a conversation that a
  person took over; drafts stay within their budgets; transcripts and ticket
  numbers are true; merges stay flat and keep a refusal of contact; an undone
  import takes nothing edited since; deals stay attached.
* `GoodsAreAccountedFor`: movements add up, no stock is negative, production
  consumes what it posts, bills of materials are cyclic only after a race, and
  the valuation follows the stock to zero.
* `OrdersAreHonoured`, `PayablesReconcile`, `MoneyIsExplained`: what is
  received, returned, billed, paid, credited, matched and planned stays within
  what authorises it, and the reports say so.
* `BooksAndTaxAreSound`, `SealedBooks`: every entry balances and is reversed
  once, a closed month does not change, a year is rolled to zero, a tax window
  is settled once, and the differences that amended returns post add up along
  any chain of them. The scene of tax has two documents on different days, so that
  a return can be settled, a document added, and the amended return settled with a
  difference that is not zero.
* `CountMakesTrue`, `SummaryRepairs`: posting a count leaves the books at what was
  counted; whatever overlapping summaries, movements and reversals left in the
  inventory account, a summary during which nothing is committed repairs.
* `ConversationsKeepFaith`: a deleted conversation is sealed; only an edit by its
  sender blanks a message that has no files; a receipt fits one moment; what is
  sent after a member moved the cursor, wherever into the past, counts as unread,
  but for the two kinds that are born read; one answer per question.
* `OnlyTheEntitledAct`: a revoked caller is refused, one effect per key, a
  refusal left nothing behind but the excepted approvals; a reset ends sessions,
  links work once, attempts are limited.
* `WorkIsKept`: pay, leave, hours and hiring; occurrences billed once and no
  template stuck; undo plans that fit; replies that hide nothing; documents
  whose published history is complete. Each up to the overlaps it names.

Why these bounds are enough for the interesting cases: two workers and two
attempts are what a takeover needs (one worker stale, the other current, a first
and a last attempt), and one shared id leaves the fencing token as the only
difference between them. Two Decide calls and three requests are what a race of
approvers, a retry of an intent and a pair of crossing proposals need. Three
transactions are the least in which a fork can form between two while the third
reads the head. Two owners who are demoted at once, by two transactions or by one
and a deactivation, are the least that can lose the last owner. One copy more
than the dispatcher knows of is what a re-sent webhook needs (`MaxResends`). In the business
components two callers of an operation that reads before it locks, or one
operation and one undo of it, are what a race needs; prices, rates and
quantities are chosen so that amounts really round (a quarter of a unit at price
3, a rate of 25 %), and limits (stock, credit, budget, slots) so small that they
are reached. In every instance the state space is finite without a state
constraint: attempts, crashes, rows and time are bounded in the guards by named
constants (`MaxAttempts`, `MaxMoves`, `Horizon`, ...). Every action of every
component fires in some passing run.

Deadlock checking is off: each system may run out of work.

### Fairness

* `JobQueue` (scene `QueueSettles`): workers poll (`Run` calls `ProcessOne` in a
  loop), and each transaction has a timeout (15 s for state transitions, 2 min
  for effects), so `Claim` and `Process` are weakly fair per worker; the clock
  moves, so `LeaseExpires` is. Crashes, lost heartbeats, dispatches and
  decisions are not.
* `ApprovalGate`: a Decide call that has begun goes on; open transactions
  commit. Nobody is obliged to decide. `ClaimsResolve` speaks of behaviours in
  which no Decide call dies.
* `Outbox` (scene `OutboxDelivery`): as for the queue, and the supervisor
  restarts a stopped dispatcher (deployment, external).
* `LedgerChain` (scene `LedgerAppends`): statements and commits go on, and the
  deadlock detector runs. One scene serves both the chain and the locks: three
  transactions of two appends with one business row can fork, wait for each
  other in a cycle, and be aborted.

The other scenes have no fairness, and their properties are safety properties.

## Findings

* **An approval left `executing` can fire more than once.** `verifySystemApproval`
  (`executor.go:3985`) and `validateDurableRunApproval`
  (`jobs/durable_run_dispatcher.go:280`) accept any job whose approval is
  `executing`, unexpired and of the same payload; neither locks the row, consumes
  it, or looks for another job under it. After a Decide call died between its
  claim and its finalizer, two runs under that approval both have their effect.
  `docs/adr/0020-trust-spine-hardening.md:33-35` says such a row is "visible
  state to re-drive, never silent double-fire". Run `GovernedWorkDoubleFire`.
* **Two versions of a proposal can both stay pending.** Concurrent
  `requestApproval` transactions of one requester do not see each other's rows
  (`executor.go:4319`). `docs/adr/0089-versioned-money-approvals-and-quote-lines.md:43-44`
  says that a revised proposal "invalidates the earlier approval instead of
  leaving two executable versions". Run `ApprovalGateVersions`.
* **A delivery can ship stock promised to somebody else.** `salesDeliverOrder`
  reads its reservations without a lock (`sales_orders.go:1159`) and a release
  locks nothing, so stock released and promised again in between is shipped.
  `docs/adr/0047-one-availability-budget-per-item.md:24-29` says the loser
  "re-reads the budget inside its own transaction and refuses". Run
  `SalesOversell`.
* **A window with credit notes cannot always be filed.** The rows of a credit
  note share one `bigZero` that `add()` adds into
  (`accounting_tax_returns.go:581`): with two credit notes, or a tax row before
  its revenue row, the return is refused as not reconciling. The comment at
  `accounting_tax_returns.go:397-398` says that credit notes reduce the reported
  totals. Run `TaxCreditNotes`.
* **One entry can explain two bank lines.** The guard at
  `banking_reconciliation.go:856` compares signed amounts, so an entry that takes
  money out passes it twice, and for a receipt two overlapping matches both read
  nothing allocated. `docs/adr/0048-bank-matching-equivalence.md:28-32` says that
  an entry "belongs to exactly one statement line". Run `BankEntryClaimedTwice`.

### Divergences without a run

Met while modelling. The models reproduce them where they concern the modelled
state, and the properties are stated with the overlap they need as an exception,
so that everything else is still checked.

*Queue, outbox.* A receiver that ignores the key may act on each copy of a webhook
that `net/http` sends again or redirects (`outbox/worker.go:192`), and a row
redirected with a GET may say `sent` on the answer to that. A swept job leaves its step and run `running`
(`jobs/worker.go:671`); a lost answer to the last commit marks a job failed whose
effect is there; nothing re-drives an `executing` approval. An operator may
reconcile a row while a late POST is under way (`outbox/worker.go:415`); consent
is read before the SMTP dialogue (`outbox/marketing_email.go:116`).

*Stock and value.* Two posters of a summary, or a reversal and a post, may use
the same figures (`inventory_valuation.go:566`; `docs/adr/0033-inventory-gl-integration.md:37-38`); the
replay orders movements by the start of their transactions.

*Point of sale, purchasing, receivables.* A cash refund of an earlier shift's
sale is not expected by the drawer that pays it. AP aging ignores credits;
supplier and customer statements keep subtracting reversed payments; the status
after a foreign payment ignores credits (`accounting_payments.go:247`).

*Books, tax, bank, budgets.* `reverseEntryDomainRoutes` omits vendor bills,
vendor credit notes, payment runs and revaluations
(`accounting_invoice_ops.go:463-474`). `closeYear` reads before it takes the
lock (`accounting_period_close.go:525`) and rolls later years' income; a year
that nets to zero or has a negative natural balance cannot be closed. A budget
save may be refused after an undo. `createTaxReturn` can make two active
amendments, and restoring a draft ignores overlap. Racing bank feeds import one
line twice; a confirmed payment run stays confirmed after its line is unmatched;
"reconciled" is a net total.

*Membership, routes.* `docs/adr/0053-identity-lifecycle-and-widget-containment.md:33-35` says that these
operations "can never strand the books without an owner". An acceptance racing a SCIM deactivation leaves a role,
even owner, to somebody who is no member; a transaction that looked before its
user became an owner deletes the new row without counting the others
(`httpapi/invitations.go:353` and 372-381, `iam.go:329-336`), and the last owner
may go with it; an assignment racing an acceptance leaves two roles. `GET /api/docs/next-number` allocates a number; a pending
approval is answered 422 by the time and shift-summary routes;
`requiresApprovalFor "*"` (`iam_org_settings.go:241`) files an approval for a
human's read.

*Creator.* Installed organizations follow a listing to new versions; a retracted
version cannot be published again; a manifest with half of a surrogate pair
publishes but never installs.

*Manufacturing.* Feasibility looks at the assembly's own lines without scrap
(`manufacturing_work_orders.go:1170` against 547-551); production ignores
reservations; the run list looks orders up by the run's reference (1032); four
assemblies replaced at once can close a cycle.

*Support, customers.* A message may enter a conversation resolved meanwhile, and
an escalation racing a resolution reopens it; a poll's cursor may pass a message
that commits late. Undoing an earlier merge restores its older consent
(`crm_writes.go:734`); overlapping imports create duplicates.

*HR.* Overlapping executions post payroll twice (`hr_payroll_applicants.go:528`);
a run with no tax or no net can never be executed (`accounting.go:714`); two
decisions at once hire twice; clocking out changes an approved entry; leave over
the turn of a year is counted in one of them.

*Schedules.* An edit with a time that has passed leaves a routine stuck
(`jobs/routine_scheduler.go:139`); an occurrence that was given up blocks its
template (`jobs/recurring_invoice_scheduler.go:119`); a monthly date clamped once
stays clamped (`accounting_invoice_ops.go:436`).

*Accounts, projects, messaging.* The slower of two refreshes is signed out
(`authn/service.go:469`); a sign-in under way during a reset opens a session
after it. `parent_task_id` has no foreign key (`projects.go:872`), so a deletion
can orphan a task being inserted. A message whose transaction began before a
member read on is born read, and so is one sent while the cursor stands at a
future time the member gave (`messaging.go:2357-2366`). An edit may leave a
message without words or files (`messaging.go:965`), which sending refuses.

*Agent turns.* The words "could not" of the fallback message count as
acknowledging a failure (`httpapi/chat_loop.go:729-731` against
`chat_session.go:620-623`); overlapping requests interleave one history; a
client that leaves gets no stop marker (`chat_loop.go:145`); usage of stopped
turns is not counted.

*Documents.* `addDocumentVersion` reads content before it takes the next version
number, so a concurrent version's content can be lost from the history
(`documents_ingest.go:255-287`, against its comment at 253); a new version leaves
an older reading standing; a draft's revision restarts at 1 after publishing, and
a client that sends none is not checked (`docs/adr/0056-drafts-outside-ledger.md`);
two codings at once leave two sets of suggestions.

## Proofs

Eight modules hold proofs; all theorems are for any values of the constants, up
to the assumptions named here, and none of them uses a bound of a run.

| Module | Theorems | Assumes |
|---|---|---|
| `JobQueueProofs` | `Invariance`, `TypeCorrect`, `AtMostOnce`, `CurrentClaimOnly`, `DoneMeansCheckpointed`, `OrderedSteps`, `StaleWorkersHarmless`, `QueueImplementsEffectOnce` | `ConstantsAssumption` (the constants are of their kinds) |
| `ApprovalGateProofs` | `GateTypeCorrect`, `GateFiresOnce`, `GateExecutedIffFired`, `GateOneClaimant`, `GateDecisionsAreFinal` | `GateAssumption` |
| `GovernedWorkProofs` | `GovernedQueueRefined`, `GovernedEffectOnce`, `GovernedIntentFiresOnce`, `GovernedExecutedHasEffect` | both, and `WorkAssumption` |
| `CreatorProofs` | `CreatorVouches` | `ManifestsAreRecords` (a decoded manifest has its fields) |
| `AccessProofs` | `AccessKeepsOwner`, `AccessAnswersTrue`, `AccessMembershipIsSound` | `FoundersAssumption` (an organization has an owner when it is created) |
| `PlatformProofs` | `OutboxDeliversOnce`, `OutboxStatusIsTrue`, `OutboxClosedStaysClosed`; `LedgerChainIsLinear`, `LedgerAppendsExclude`; `PlatformDeliversOnce`, `PlatformStatusIsTrue`, `PlatformClosedStaysClosed`, `PlatformChainIsLinear`, `PlatformCreationsAreVouched`, `PlatformMembershipIsSound` | `MaxAttemptsAssumption` (the number of attempts is a number), for the outbox |
| `SalesOrdersProofs` | `Invariance`, `WordsKept`, `PromisesBacked`, and the laws of finite sums | `SalesAssumption` (finitely many orders and holds; an order line is not a hold; bounds are numbers) |
| `CommerceProofs` | `TillInvariance`, `ReceivablesInvariance`; `CommerceSalesKeepTheirWord`, `CommerceSalesAreBacked`, `CommerceRegistersAreTrue`, `CommerceInvoicesReconcile` | `TillAssumption` (finitely many sales; a unit has parts; prices, taxes and stock are not negative), `ReceivablesAssumption` (finitely many invoices; two currencies; prices, taxes and rates are not negative; what is paid or credited is positive) |

Twenty-four of the forty properties the passing runs check are stated by a
theorem.

**Queue.** None of the properties is inductive by itself. That an effect happens
once follows from the receipt being written with it; but that a `done` job has a
receipt needs to know where the acknowledging worker has been (`AfterEffect`),
and that its checkpoint is still there when it acknowledges needs that no other
worker of the same job may write in between. That is the fencing argument: a
worker's token is never ahead of its row's (`ClaimsKnown`), two workers never
hold the same token of a job (`TokensUnique`), so at most one worker *owns* a
row, and every checkpoint and acknowledgement is written by its owner.
`EffectOwned` says that an open effect transaction owns its row, which needs the
row lock: neither a claim nor a sweep touches a locked row. `StepsInOrder` rests
on `CommittedHasReceipt`, since a checkpoint may fall back to running but a
receipt stays. `IInv` is the conjunction; each conjunct has a lemma for the
step, above lemmas that say what a step may do to a worker (`StepShape`), a row
(`RowShape`), a checkpoint (`CheckpointShape`) and the effects (`EffectShape`).
Refinement: with `Outcome` (done, failed or open) for the job status, a commit
of a first delivery is `Fire`, an acknowledgement is `Acknowledge`, a sweep and
an exhausted retry are `GiveUp`, and every other step leaves `EffectOnce`
unchanged. A sweep that could touch a row with an open effect transaction would
break exactly this.

**Gate.** `IntentFiresOnce` needs that an intent is *taken* by one request as
soon as anything of it can be seen, an open transaction included
(`IntentTaken`), and that a row being requested has no past (`OpenIsNew`). Who
may execute is `ClaimHeld` and `ClaimAlone`: a Decide call that has claimed a row
finds it `executing`, or `executed` by its own commit whose answer was lost, and
is alone with it.

**Queue and gate together.** `ClaimHeld` is false in the composition: a worker's
`finishApproval` moves rows a Decide call holds. What survives (`GateInv`) is
weaker: an unexecuted row has not fired. It suffices to show that
every gate step is one of the moves `JobQueue` allows its environment
(`ApprovalsDecided`), so `GovernedWork` implements `JobQueue` and the queue's
theorems carry over; `Accounted` then joins both sides: an `executed` row has the
gate's own effect, or that of a job queued under it. That *at most one* of these
happens is false (first finding), and not claimed.

**Outbox.** Delivery is counted against the copies the HTTP client made. The fence alone does not give at-most-once, since a late dispatcher
may still be sending. What does is that a claimed row returns to `pending` only
by the acknowledgement of its newest claimant, so a dispatcher at work always has
the newest claim (`BusyIsNewest`) and is alone with the row (`BusyAlone`), and the
verdict it carries is true of the provider, as far as copies let it be
(`VerdictIsTrue`).

**Ledger.** `ChainIsLinear` speaks of committed events, but what an append reads
is what *its* transaction sees. `ViewsLinear` says each live transaction's view is
a chain and `HeadsCurrent` that the head it read is still its end; both are kept
because whoever has uncommitted events holds the advisory lock (`AppendsLocked`)
and nobody shares it (`LocksExclude`).

**Creator.** `RowsRefer` adds that rows refer to rows that exist, and that a
recorder between its read and its insert holds a release that was promoted,
which a rollback in between does not undo.

**Access.** "Some owner remains" is not inductive: any number of assignments and
acceptances and a deactivation stand between their count and their commit, and
two may have counted each other's owner. `AnOwnerIsSafe` says that somebody owns
the organization who is not `Losing` the role to any of them; that a second one
cannot get as far is `FreeIsSafe`, where the row locks of the count are used: while
the owner rows are free nobody is losing the role by a counted delete. A delete
of an owner row that was not there at the look counts nobody, and the commit that
loses it is what `unseen` records. `RemovalIsWhole` says that a deactivation
removes every role of its user unless a role came in after its look, which is what
`raced` records; `AssigneesStay`, that an assignment under way is of a member. For
the answers: `GenerationsPassed` says that a receipt which an intent in flight
could replay is of the user's present life only if it is still true, and `CallsHaveSeen` that a call has seen
what the receipts of its intent say, those under its key included. The attempt to prove this showed an error in the
model: committing an acceptance adds a member, but the model did not record that
calls in flight had seen it, so an honest answer could count as false.

**Sums.** What sales promise, refund and book are sums over reservations, lines
and sales: `SumFunction` of the community modules, whose fold is a recursive
function chosen by CHOOSE. `SumsExist` shows that its recursion has a solution
on every finite set, and `FiniteInduction` is induction over the subsets of a
finite set without an operator parameter: a family of subsets that has the empty
set and grows by any one element has the whole set, since otherwise a smallest
set outside of it would exist. From these follow the laws the proofs cite: a sum
of naturals is one, sums of functions that agree are equal, adding or removing
an element, adding two functions, changing one value, leaving out zeros
(`SumNat`, `SumAgree`, `SumAdd`, `SumRemove`, `SumPlus`, `SumChange`,
`SumWhere`). For the rounding of amounts, `QuotientIs` and its neighbours say
what `\div` is.

**Sales.** `OrdersKeepTheirWord` needs that what a delivery ships was held for its
own order. The reservations alone do not say so, because a delivery under way
has read reservations that a release may take meanwhile. The strengthening is a
budget for each order and item: what is held for the order, open or being
consumed by a delivery, is at most what its lines still have to ship. Every
action moves both sides together: a confirmation fills the budget, a delivery
takes from both, a cancellation and a release only lower what is held.
`PromisesBacked` then follows for confirmations and holds, the only steps that
promise; that a *delivery* keeps others' promises is false (`SalesOversell`), and
not claimed. The invariant was checked by TLC before it was proved.

**Till.** `TillIsTrue` is about totals, and a step changes one sale of many.
`AccountsAddUp` says it by the sale: revenue and tax each stand at the sum over
the sales of what each has kept, and what a sale keeps of an amount is the sum
over its lines of the line's whole amount less the cumulative amount of what
came back (`RevenueKept`, `TaxKept`, `GoodsKept`). A return takes the difference
of two cumulative amounts, so it lowers each of these by exactly what it refunds,
however it rounds: that is why `posReturnSale` computes it that way, and why
rounding each visit on its own (the mutant) breaks it. Cumulative amounts grow
with the quantity (`AmountsOf`), so nothing is ever refunded twice and no
account falls below zero; at the full quantity they are the line's amounts, so a
sale that came back whole is credited whole (`PaidIsKept`). `OneShift` says that
one register is open at a time and that every sale was made at one, which the
drawer needs.

**Receivables.** The accounts are balances, the reports are sums over invoices and
over the rows of payments and credit notes. `ReceivableIsOutstanding` and
`SettlementsAreWhole` are already said by sums; `RowAppended` and `RowChanged`
move a sum with its table, so that a payment adds to what is paid, taken, cleared
and realized (`PaymentAppended`) and a reversal takes back the same amounts
(`PaymentUndone`), whatever rate either was made at, because the row remembers
them. `RowsAreOfInvoices` ties rows to invoices that exist and, in the
organization's currency, cash to the amount, without which a reversal would not
be known to return the cash that came in. `CreditsMirrorRevenue` speaks of an
invoice that is credited in full and is not inductive; `CreditsShare` says of any
invoice that what its notes took of its revenue, times its total, is within half
a total for each note of what they credit times its net amount. Both sides are
products, so each note adds a half at most (`ShareRounds`, `ShareAdds`), and at a
full credit the total cancels (`ShareCancels`). `PaidStep` keeps the invariant for
every step that moves what is paid; payments, foreign payments and reversals are
that step with different entries.

**Scenes.** `PlatformProofs` and `CommerceProofs` show for each proved component
that a behaviour of the composite that starts in one of its scenes is a behaviour
of the component (the scene never changes, and each step of the composite is a
step of that component, narrowed by the scene's bounds, or leaves its variables
alone), and take the composite's properties from the component's theorems. For
this the scenes of `Creator` and `Access` instantiate the modules of their
proofs, and the other proved components are extended or instantiated for any
constants.

### Only model-checked, and why

* Liveness: `ClaimsResolve`, `JobsSettle`, `AllMessagesSettle`,
  `TransactionsEnd`. Fairness and ENABLED are beyond the prover.
* The properties of `GoodsAndMoney`: its scene of production reaches the RECURSIVE
  operators of `Manufacturing` (bills of materials explode to any depth), and a
  module that reaches one has no SMT backend. The components themselves could be
  proved about; they are mostly sums and replays over sequences of movements.
* `CustomersAreRespected`, `ConversationsKeepFaith`, `OnlyTheEntitledAct` and
  `WorkIsKept` each span several components. `OnlyTheEntitledAct` also depends on
  the rows of `RouteTable`, which are data that TLC enumerates.

## Not modelled

* Policy evaluation: the gate and `Authority` take its answer as a choice.
* Inverse plans (the mapping of receipts to undo inputs); the undo operations
  themselves are actions.
* Payload encoding, hashing, digests, HTTP and SMTP dialogues, OIDC and SAML,
  what a language model says, the user interface, the schema as such.
* A job without an approval whose policy asks for one: `requestApproval` then
  runs with the job's id as intent, and the job and Decide share an intent.
* Readers: ledger queries, signals, analytics, report layouts, search, except
  where a property compares a report with the state it reads.
* Record keeping of one transaction without a rule that spans rows: campaigns,
  templates, folders, canned responses, saved views, settings, profiles.

## Plan

1. Proofs about the merges and leads of `Customers` and the budgets of `Support`,
   with arguments over the scenes as in `CommerceProofs`.
2. Proofs about `Messaging` (unread counting and sealed conversations need facts
   on cardinality, the undo receipts only the clock), `Accounts` and `Authority`.
3. The shared intent of a job and its approval in `GovernedWork`.
4. Policy evaluation (`requiresApproval`) and `retryDelay` as operators checked
   against reference definitions.
