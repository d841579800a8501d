---------------------------- MODULE LedgerChain ----------------------------
(***************************************************************************)
(* The append-only event ledger: AppendTx (ledger/writer.go) adds events   *)
(* to one global hash chain from inside its callers' transactions.  It     *)
(* takes the chain's advisory transaction lock, reads the head, and        *)
(* inserts an event that names it; the lock goes with the transaction, and *)
(* so does the event if the transaction rolls back.                        *)
(*                                                                         *)
(* Callers hold row locks too, some taken before their first append and    *)
(* some after (the executor records approval.granted before it runs the    *)
(* capability, and the result after it), so that transactions may wait for *)
(* each other in a circle; PostgreSQL then aborts one.  A hash is modelled *)
(* by the identity of the event it is computed from.                       *)
(***************************************************************************)
EXTENDS Naturals, FiniteSets

CONSTANTS
  Txs,         \* transactions of the API and the workers
  Rows,        \* business rows they lock
  MaxAppends,  \* bound: events one transaction appends
  Chain        \* the lock ledgerChainLockKey

VARIABLES
  phase,      \* where each transaction stands
  held,       \* the locks it holds: rows and Chain
  wants,      \* the lock it waits for, as a set of at most one
  head,       \* the hash AppendTx has read
  mine,       \* the events it has inserted and not yet committed
  committed,  \* the events everybody sees
  seq         \* the sequence behind ledger_events.seq

vars == <<phase, held, wants, head, mine, committed, seq>>

Phases == {"new", "open", "locked", "read", "ended"}
Locks == Rows \cup {Chain}

Genesis == <<"genesis", 0>>
Hashes == {Genesis} \cup (Txs \X (1..MaxAppends))

Init == /\ phase = [t \in Txs |-> "new"]
        /\ held = [t \in Txs |-> {}]
        /\ wants = [t \in Txs |-> {}]
        /\ head = [t \in Txs |-> Genesis]
        /\ mine = [t \in Txs |-> {}]
        /\ committed = {}
        /\ seq = 0

-----------------------------------------------------------------------------
Begin(t) == /\ phase[t] = "new"
            /\ phase' = [phase EXCEPT ![t] = "open"]
            /\ UNCHANGED <<held, wants, head, mine, committed, seq>>

Ready(t) == phase[t] = "open" /\ wants[t] = {}

\* The capability's own statements, before, between or after appends.
WantRow(t, r) == /\ Ready(t)
                 /\ r \notin held[t]
                 /\ wants' = [wants EXCEPT ![t] = {r}]
                 /\ UNCHANGED <<phase, held, head, mine, committed, seq>>

\* AppendTx begins: pg_advisory_xact_lock, which a transaction may repeat.
WantChain(t) == /\ Ready(t)
                /\ Cardinality(mine[t]) < MaxAppends
                /\ wants' = [wants EXCEPT ![t] = {Chain}]
                /\ UNCHANGED <<phase, held, head, mine, committed, seq>>

\* Mutant of Free: the advisory lock does not exclude.
FreeRow(t, l) == l = Chain \/ \A s \in Txs \ {t} : l \notin held[s]

Free(t, l) == \A s \in Txs \ {t} : l \notin held[s]

GetLock(t, l) ==
  /\ l \in wants[t]
  /\ Free(t, l)
  /\ held' = [held EXCEPT ![t] = @ \cup {l}]
  /\ wants' = [wants EXCEPT ![t] = {}]
  /\ phase' = [phase EXCEPT ![t] = IF l = Chain THEN "locked" ELSE @]
  /\ UNCHANGED <<head, mine, committed, seq>>

Visible(t) == committed \cup mine[t]
Latest(E) == CHOOSE e \in E : \A f \in E : f.seq <= e.seq

\* chaste_ledger_chain_head, a statement of its own: it sees what has committed
\* by now, and the transaction's own events.
ReadHead(t) ==
  /\ phase[t] = "locked"
  /\ head' = [head EXCEPT ![t] = IF Visible(t) = {} THEN Genesis ELSE Latest(Visible(t)).hash]
  /\ phase' = [phase EXCEPT ![t] = "read"]
  /\ UNCHANGED <<held, wants, mine, committed, seq>>

\* Mutant of Insert: the lock is released when the event is inserted.
InsertUnlock(t) ==
  /\ phase[t] = "read"
  /\ seq' = seq + 1
  /\ mine' = [mine EXCEPT ![t] = @ \cup {[seq |-> seq + 1, prev |-> head[t],
                                         hash |-> <<t, Cardinality(@) + 1>>]}]
  /\ held' = [held EXCEPT ![t] = @ \ {Chain}]
  /\ phase' = [phase EXCEPT ![t] = "open"]
  /\ UNCHANGED <<wants, head, committed>>

\* The sequence moves on whether or not the transaction commits.
Insert(t) ==
  /\ phase[t] = "read"
  /\ seq' = seq + 1
  /\ mine' = [mine EXCEPT ![t] = @ \cup {[seq |-> seq + 1, prev |-> head[t],
                                         hash |-> <<t, Cardinality(@) + 1>>]}]
  /\ phase' = [phase EXCEPT ![t] = "open"]
  /\ UNCHANGED <<held, wants, head, committed>>

\* Mutant of Release: the advisory lock belongs to the session, not to the
\* transaction, and survives it.
ReleaseRows(t) == /\ held' = [held EXCEPT ![t] = @ \cap {Chain}]
                  /\ wants' = [wants EXCEPT ![t] = {}]
                  /\ phase' = [phase EXCEPT ![t] = "ended"]

Release(t) == /\ held' = [held EXCEPT ![t] = {}]
              /\ wants' = [wants EXCEPT ![t] = {}]
              /\ phase' = [phase EXCEPT ![t] = "ended"]

Commit(t) == /\ Ready(t)
             /\ committed' = committed \cup mine[t]
             /\ Release(t)
             /\ UNCHANGED <<head, mine, seq>>

\* The capability fails, or the connection is lost: everything is undone.
Rollback(t) == /\ phase[t] \notin {"new", "ended"}
               /\ mine' = [mine EXCEPT ![t] = {}]
               /\ Release(t)
               /\ UNCHANGED <<head, committed, seq>>

WaitsFor(t, s) == wants[t] \cap held[s] # {}

\* Who waits, directly or through others, for a lock t holds.
Circle(t) == \E S \in SUBSET Txs :
               /\ t \in S
               /\ \A s \in S : \E u \in S \ {s} : WaitsFor(s, u)

\* deadlock_timeout: PostgreSQL aborts a transaction of the circle.
DeadlockAbort(t) == Circle(t) /\ Rollback(t)

-----------------------------------------------------------------------------
Step(t) == \/ \E l \in Locks : GetLock(t, l)
           \/ ReadHead(t) \/ Insert(t) \/ Commit(t)

Next == \E t \in Txs :
          \/ Begin(t) \/ WantChain(t) \/ \E r \in Rows : WantRow(t, r)
          \/ Step(t) \/ Rollback(t) \/ DeadlockAbort(t)

Spec == Init /\ [][Next]_vars

\* Statements and transactions go on, and the deadlock detector runs.
Fairness == \A t \in Txs : WF_vars(Step(t)) /\ WF_vars(DeadlockAbort(t))
FairSpec == Spec /\ Fairness

-----------------------------------------------------------------------------
TypeOK == /\ phase \in [Txs -> Phases]
          /\ held \in [Txs -> SUBSET Locks]
          /\ wants \in [Txs -> SUBSET Locks]
          /\ head \in [Txs -> Hashes]
          /\ mine \in [Txs -> SUBSET [seq : Nat, prev : Hashes, hash : Hashes]]
          /\ committed \subseteq [seq : Nat, prev : Hashes, hash : Hashes]
          /\ seq \in Nat
          /\ \A t \in Txs : phase[t] \in {"new", "ended"} => held[t] = {}

\* Each event of E names the one right before it in E.
Linear(E) ==
  \A e \in E :
    LET Before == {f \in E : f.seq < e.seq}
    IN  e.prev = IF Before = {} THEN Genesis ELSE Latest(Before).hash

\* The committed events form one chain in the order of their seq, gaps left by
\* rolled-back transactions included: each names the event right before it, so
\* that a verifier who walks the table finds no fork and no hole (AppendTx's
\* lock, held until its caller commits).
ChainIsLinear == Linear(committed)

(* What makes it inductive (see PlatformProofs).                           *)

LocksExclude == \A s, t \in Txs : held[s] \cap held[t] # {} => s = t

\* Who appends holds the chain's lock, from AppendTx to the end of its caller.
AppendsLocked ==
  \A t \in Txs :
    /\ phase[t] \in {"locked", "read"} => Chain \in held[t]
    /\ phase[t] = "open" /\ mine[t] # {} => Chain \in held[t]

\* A transaction waits only while it is open, and leaves no lock and no event
\* of its own behind.
OutsideIsClean ==
  \A t \in Txs :
    /\ wants[t] # {} => phase[t] = "open"
    /\ phase[t] = "new" => held[t] = {} /\ mine[t] = {}
    /\ phase[t] = "ended" => held[t] = {} /\ mine[t] \subseteq committed

Numbered == /\ seq \in Nat
            /\ \A t \in Txs : \A e \in Visible(t) : e.seq \in Nat /\ e.seq <= seq

\* What a live transaction sees is a chain, and the head it has read its end.
ViewsLinear == \A t \in Txs : phase[t] # "ended" => Linear(Visible(t))
HeadsCurrent ==
  \A t \in Txs : phase[t] = "read" =>
    head[t] = IF Visible(t) = {} THEN Genesis ELSE Latest(Visible(t)).hash

Shapes == /\ phase \in [Txs -> Phases]
          /\ held \in [Txs -> SUBSET Locks]
          /\ wants \in [Txs -> SUBSET Locks]
          /\ DOMAIN head = Txs /\ DOMAIN mine = Txs

IInv == /\ Shapes /\ LocksExclude /\ AppendsLocked /\ OutsideIsClean
        /\ Numbered /\ ViewsLinear /\ HeadsCurrent /\ ChainIsLinear

\* No transaction waits for ever.  Callers take the chain's lock and row locks in
\* both orders, so PostgreSQL aborts one of a circle; the others go on because the
\* chain's lock is the transaction's (pg_advisory_xact_lock) and ends with it,
\* aborted or committed, and not with the pooled session.
TransactionsEnd == \A t \in Txs : (phase[t] = "open") ~> (phase[t] = "ended")
=============================================================================
