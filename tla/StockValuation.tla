--------------------------- MODULE StockValuation ---------------------------
(***************************************************************************)
(* Moving-average valuation of the stock ledger and the journal entries    *)
(* that bring the general ledger to it (capability/inventory_valuation.go, *)
(* docs/adr/0033-inventory-gl-integration.md), for one item.               *)
(*                                                                         *)
(* A movement is stamped with now(), the start of its transaction, but     *)
(* joins the ledger when the transaction gets the item's lock and commits; *)
(* the valuation replays movements by stamp.  Posting a summary reads the  *)
(* ledger, then the account, then writes the entry, without a lock: three  *)
(* steps.  Its reversal reads and writes: two.                             *)
(***************************************************************************)
EXTENDS Integers, Sequences, SequencesExt, FiniteSets, FiniteSetsExt

CONSTANTS
  Writers,   \* transactions that move stock
  Posters,   \* executions of inventory.postValuationSummary
  Reversers, \* executions of inventory.reverseValuationSummary
  Unit,      \* thousandths in one unit: 1000 in the code
  MaxQty,    \* bound: quantity of a movement
  Costs,     \* unit costs of receipts
  None, Done

VARIABLES
  clock,     \* transactions begun so far
  writer,    \* Writers -> None, the stamp of an open transaction, or Done
  ledger,    \* stock_movements in commit order
  entries,   \* journal entries of the valuation: [amount, reverses]
  poster,    \* Posters -> None, what was read, or Done
  reverser,  \* Reversers -> None, the entry that was read, or Done
  closed     \* ghost: nothing was committed between the first read of the
             \* latest summary and its end, nor since

vars == <<clock, writer, ledger, entries, poster, reverser, closed>>

-----------------------------------------------------------------------------
\* inventoryJsRoundProductDiv: a * b / c rounded half up.
RoundProductDiv(a, b, c) == (2 * a * b + c) \div (2 * c)

AverageUnitCost(s) == IF s.qty <= 0 THEN 0 ELSE RoundProductDiv(s.value, Unit, s.qty)

\* Mutant of ApplyMovement: what leaves is valued at the rounded average cost.
ApplyMovementAtAverage(s, m) ==
  IF ~s.ok \/ m.reason = "transfer" THEN [s EXCEPT !.qty = @ + m.delta]
  ELSE IF m.delta > 0 THEN
    LET cost == IF m.cost = None THEN AverageUnitCost(s) ELSE m.cost
    IN [s EXCEPT !.qty = @ + m.delta, !.value = @ + RoundProductDiv(m.delta, cost, Unit)]
  ELSE IF -m.delta > s.qty THEN [s EXCEPT !.ok = FALSE]
  ELSE [s EXCEPT !.qty = @ + m.delta,
                 !.value = @ - RoundProductDiv(-m.delta, AverageUnitCost(s), Unit)]

\* inventoryApplyValuationMovement: transfers carry no value; what enters is
\* valued at its cost or at the average, what leaves by its share of the value,
\* and taking more than is there is an error (ok becomes FALSE).
ApplyMovement(s, m) ==
  IF ~s.ok \/ m.reason = "transfer" THEN [s EXCEPT !.qty = @ + m.delta]
  ELSE IF m.delta > 0 THEN
    LET cost == IF m.cost = None THEN AverageUnitCost(s) ELSE m.cost
    IN [s EXCEPT !.qty = @ + m.delta, !.value = @ + RoundProductDiv(m.delta, cost, Unit)]
  ELSE IF -m.delta > s.qty THEN [s EXCEPT !.ok = FALSE]
  ELSE [s EXCEPT !.qty = @ + m.delta,
                 !.value = @ - RoundProductDiv(s.value, -m.delta, s.qty)]

\* inventoryMovementHistory: ORDER BY created_at.
History == SortSeq(ledger, LAMBDA x, y : x.at < y.at)
Replay == FoldLeft(ApplyMovement, [qty |-> 0, value |-> 0, ok |-> TRUE], History)

OnHand == FoldLeft(LAMBDA n, m : n + m.delta, 0, ledger)
Account == FoldLeft(LAMBDA n, e : n + e.amount, 0, entries)
\* Mutant of GLBalance: only the summaries are summed, not what took them back.
BalanceOfSummaries == FoldLeft(LAMBDA n, e : n + IF e.reverses = 0 THEN e.amount ELSE 0, 0, entries)
\* inventoryGLAccountBalanceMinor of account 1200: whoever posted the lines.
GLBalance == FoldLeft(LAMBDA n, e : n + e.amount, 0, entries)

Init == /\ clock = 0 /\ ledger = <<>> /\ entries = <<>>
        /\ writer = [w \in Writers |-> None]
        /\ poster = [p \in Posters |-> None]
        /\ reverser = [r \in Reversers |-> None]
        /\ closed = FALSE

-----------------------------------------------------------------------------
\* A transaction that will move stock begins.
Begin(w) ==
  /\ writer[w] = None
  /\ clock' = clock + 1
  /\ writer' = [writer EXCEPT ![w] = clock']
  /\ UNCHANGED <<ledger, entries, poster, reverser, closed>>

\* The rows one transaction may write: a receipt at cost, a correction, a
\* sale, or the two legs of a transfer.
Movements ==
  {<<[delta |-> n, cost |-> c, reason |-> "receipt"]>> : n \in 1..MaxQty, c \in Costs}
  \cup {<<[delta |-> n, cost |-> None, reason |-> "adjustment"]>> : n \in 1..MaxQty}
  \cup {<<[delta |-> -n, cost |-> None, reason |-> "sale"]>> : n \in 1..MaxQty}
  \cup {<<[delta |-> -n, cost |-> None, reason |-> "transfer"],
          [delta |-> n, cost |-> None, reason |-> "transfer"]>> : n \in 1..MaxQty}

\* What commits meanwhile, the summaries under way have not seen.
Meanwhile(posters) ==
  [p \in Posters |-> IF posters[p] \in {None, Done} THEN posters[p]
                     ELSE [posters[p] EXCEPT !.alone = FALSE]]

\* It has the item's lock, passes the check against the stock of now, appends
\* its rows and commits.
Commit(w, rows) ==
  /\ writer[w] \notin {None, Done}
  /\ OnHand + rows[1].delta >= 0
  /\ ledger' = ledger \o [k \in DOMAIN rows |->
       [at |-> writer[w], delta |-> rows[k].delta, cost |-> rows[k].cost, reason |-> rows[k].reason]]
  /\ writer' = [writer EXCEPT ![w] = Done]
  /\ poster' = Meanwhile(poster) /\ closed' = FALSE
  /\ UNCHANGED <<clock, entries, reverser>>

-----------------------------------------------------------------------------
\* The ledger is valued; ...
ReadLedger(p) ==
  /\ poster[p] = None
  /\ Replay.ok
  /\ poster' = [poster EXCEPT ![p] = [value |-> Replay.value, gl |-> None, alone |-> TRUE]]
  /\ UNCHANGED <<clock, writer, ledger, entries, reverser, closed>>

\* ... the account is summed by a later statement, and with no variance nothing
\* is posted.
ReadAccount(p) ==
  /\ poster[p] \notin {None, Done} /\ poster[p].gl = None
  /\ LET equal == poster[p].value = GLBalance
     IN /\ poster' = [poster EXCEPT ![p] = IF equal THEN Done ELSE [@ EXCEPT !.gl = GLBalance]]
        /\ closed' = IF equal THEN poster[p].alone ELSE closed
  /\ UNCHANGED <<clock, writer, ledger, entries, reverser>>

\* inventoryValuationAdjustmentLines: what account 1200 is debited with.
Adjustment(read) == read.value - read.gl

PostSummary(p) ==
  /\ poster[p] \notin {None, Done} /\ poster[p].gl # None
  /\ entries' = Append(entries, [amount |-> Adjustment(poster[p]), reverses |-> 0])
  /\ poster' = Meanwhile([poster EXCEPT ![p] = Done])
  /\ closed' = poster[p].alone
  /\ UNCHANGED <<clock, writer, ledger, reverser>>

Reversed(e) == \E x \in DOMAIN entries : entries[x].reverses = e

\* inventoryReverseValuationSummary looks for an earlier reversal ...
ReadReversible(r, e) ==
  /\ reverser[r] = None
  /\ entries[e].reverses = 0 /\ ~Reversed(e)
  /\ reverser' = [reverser EXCEPT ![r] = e]
  /\ UNCHANGED <<clock, writer, ledger, entries, poster, closed>>

\* ... and posts the mirrored lines.
ReverseSummary(r) ==
  /\ reverser[r] \in DOMAIN entries
  /\ entries' = Append(entries, [amount |-> -entries[reverser[r]].amount, reverses |-> reverser[r]])
  /\ reverser' = [reverser EXCEPT ![r] = Done]
  /\ poster' = Meanwhile(poster) /\ closed' = FALSE
  /\ UNCHANGED <<clock, writer, ledger>>

Next ==
  \/ \E w \in Writers : Begin(w) \/ \E rows \in Movements : Commit(w, rows)
  \/ \E p \in Posters : ReadLedger(p) \/ ReadAccount(p) \/ PostSummary(p)
  \/ \E r \in Reversers : \/ \E e \in DOMAIN entries : ReadReversible(r, e)
                          \/ ReverseSummary(r)

Spec == Init /\ [][Next]_vars

-----------------------------------------------------------------------------
\* No stock has no value, and stock never has a negative one, whatever was
\* received, sold, corrected and relocated and however the costs round
\* (inventoryApplyValuationMovement).
EmptyHasNoValue ==
  Replay.ok => /\ Replay.qty = OnHand /\ Replay.value >= 0
               /\ OnHand = 0 => Replay.value = 0

\* Overlapping summaries may book one variance twice, and a movement or a
\* reversal between the reads leaves a wrong figure; a summary during which
\* nothing is committed repairs all of it: the account is worth what the ledger
\* is until the next movement, summary or reversal
\* (inventoryPostValuationSummary).
SummaryRepairs == closed => Account = Replay.value

\* The account holds the summaries that stand: a reversal takes back exactly
\* its entry (inventoryReverseValuationSummary).
ReversalsMirror ==
  Account = MapThenSumSet(LAMBDA e : entries[e].amount,
                {e \in DOMAIN entries : entries[e].reverses = 0 /\ ~Reversed(e)})

\* A summary is reversed once: what ADR 0033 says.
ReversedOnce ==
  \A e \in DOMAIN entries : Cardinality({x \in DOMAIN entries : entries[x].reverses = e}) <= 1

\* A ledger whose movements committed in the order of their stamps can be valued:
\* no replay meets stock that is not there (inventoryMovementHistory, which
\* orders by the stamp and not by the commit).
LedgerCanBeValued ==
  (\A i, j \in DOMAIN ledger : i < j => ledger[i].at <= ledger[j].at) => Replay.ok

\* The value follows the stock to zero, a ledger in commit order can be replayed,
\* and the account holds exactly the summaries that stand
\* (inventoryApplyValuationMovement, inventoryReverseValuationSummary).
ValueFollowsStock ==
  /\ EmptyHasNoValue /\ LedgerCanBeValued /\ ReversalsMirror
=============================================================================
