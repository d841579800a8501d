-------------------------------- MODULE Stock --------------------------------
(***************************************************************************)
(* The stock ledger: adjustments, two-stage transfers between locations    *)
(* and cycle counts (capability/inventory_stock.go and                     *)
(* inventory_cycle_counts.go).                                             *)
(*                                                                         *)
(* Every write locks the items it touches before it reads a balance, and   *)
(* transfers and counts lock their own row first, so a capability is one   *)
(* step.  What is hard is what happens between capabilities: a count is    *)
(* opened, recorded and posted while stock moves, and a transfer is        *)
(* confirmed in parts, reversed, and its reversal reversed again.          *)
(*                                                                         *)
(* A transfer has at most one line per item here; lots, notes and document *)
(* numbers are left out.                                                   *)
(***************************************************************************)
EXTENDS Integers, FiniteSets, FiniteSetsExt, Functions

CONSTANTS
  Items, Locations, Transfers, Counts,
  Nowhere,    \* movements without a location: sales, unlocated corrections
  None,       \* a line nobody has counted; a transfer that reverses none
  MaxQty,     \* bound: quantity of one adjustment, line or count
  MaxMoves    \* bound: movements of one item

VARIABLES
  balance,   \* stock_balances: quantity per item and place
  moves,     \* number of stock_movements rows of each item
  external,  \* what adjustments, sales and counts brought to each place
  transfer,  \* stock_transfers with their lines
  count      \* cycle_counts with their lines

vars == <<balance, moves, external, transfer, count>>

Places == Locations \cup {Nowhere}
OnHand(i) == MapThenSumSet(LAMBDA p : balance[i][p], Places)
\* inventoryStockOnHand: without a location, the stock of the item everywhere.
OnHandAt(i, p) == IF p = Nowhere THEN OnHand(i) ELSE balance[i][p]

Zero == [i \in Items |-> 0]
NoTransfer == [status |-> "none", from |-> Nowhere, to |-> Nowhere,
               asked |-> Zero, done |-> Zero, reverses |-> None]
NoCount == [status |-> "none", at |-> Nowhere, lines |-> [i \in {} |-> None]]

Init == /\ balance = [i \in Items |-> [p \in Places |-> 0]]
        /\ moves = Zero
        /\ external = balance
        /\ transfer = [t \in Transfers |-> NoTransfer]
        /\ count = [c \in Counts |-> NoCount]

-----------------------------------------------------------------------------
\* inventoryApplyStockDelta: the item may not go below zero, nor the location
\* when one is named.
MayMove(i, p, d) == OnHand(i) + d >= 0 /\ (p \in Locations => balance[i][p] + d >= 0)

Deltas == (-MaxQty..MaxQty) \ {0}   \* "zero adjustments are pointless"

\* inventory.adjustStock and every other writer that names at most one place.
AdjustStock(i, p, d) ==
  /\ moves[i] < MaxMoves
  /\ MayMove(i, p, d)
  /\ balance' = [balance EXCEPT ![i][p] = @ + d]
  /\ external' = [external EXCEPT ![i][p] = @ + d]
  /\ moves' = [moves EXCEPT ![i] = @ + 1]
  /\ UNCHANGED <<transfer, count>>

TransferLines == [Items -> 0..MaxQty] \ {Zero}   \* at least one line

CreateTransfer(t, from, to, asked) ==
  /\ transfer[t].status = "none"
  /\ from # to
  /\ transfer' = [transfer EXCEPT ![t] =
       [NoTransfer EXCEPT !.status = "pending", !.from = from, !.to = to, !.asked = asked]]
  /\ UNCHANGED <<balance, moves, external, count>>

-----------------------------------------------------------------------------
\* inventoryConfirmLine for every item of q: the quantity leaves from and then
\* enters to.  The leg out is a movement like any other, so it is refused when
\* the item's stock over all places is short, the source's own stock or not.
CanRelocate(q, from) ==
  \A i \in Items : q[i] > 0 => /\ moves[i] + 2 <= MaxMoves
                               /\ q[i] <= balance[i][from] /\ q[i] <= OnHand(i)

\* Mutant of Relocate: the leg into the destination is not written.
RelocateOut(q, from, to) ==
  /\ balance' = [i \in Items |-> [balance[i] EXCEPT ![from] = @ - q[i]]]
  /\ moves' = [i \in Items |-> IF q[i] > 0 THEN moves[i] + 1 ELSE moves[i]]

Relocate(q, from, to) ==
  /\ balance' = [i \in Items |->
       [balance[i] EXCEPT ![from] = @ - q[i], ![to] = @ + q[i]]]
  /\ moves' = [i \in Items |-> IF q[i] > 0 THEN moves[i] + 2 ELSE moves[i]]

Outstanding(t) == [i \in Items |-> transfer[t].asked[i] - transfer[t].done[i]]

\* ParseInventoryConfirmTransferInput: quantities for some lines of a transfer,
\* each line at most once; lines that are not named move in full.
Overrides == UNION {[is -> 1..MaxQty] : is \in SUBSET Items}

\* The quantity each line moves; what is named for a complete line is dropped.
Confirmed(t, o) ==
  [i \in Items |-> IF i \in DOMAIN o /\ Outstanding(t)[i] > 0 THEN o[i] ELSE Outstanding(t)[i]]

\* inventoryConfirmLine: at most what the line still has to move.
WithinLine(t, q) == \A i \in Items : q[i] <= Outstanding(t)[i]

ConfirmTransfer(t, o) ==
  LET q == Confirmed(t, o)
      done == [i \in Items |-> transfer[t].done[i] + q[i]]
  IN /\ transfer[t].status \in {"pending", "partial"}
     /\ \A i \in DOMAIN o : transfer[t].asked[i] > 0
     /\ WithinLine(t, q)
     /\ CanRelocate(q, transfer[t].from)
     /\ Relocate(q, transfer[t].from, transfer[t].to)
     /\ transfer' = [transfer EXCEPT
          ![t].done = done,
          ![t].status = IF \A i \in Items : done[i] >= transfer[t].asked[i]
                        THEN "confirmed" ELSE "partial"]
     /\ UNCHANGED <<external, count>>

CancelTransfer(t) ==
  /\ transfer[t].status = "pending" /\ transfer[t].done = Zero
  /\ transfer' = [transfer EXCEPT ![t].status = "cancelled"]
  /\ UNCHANGED <<balance, moves, external, count>>

\* What was confirmed moves back under a transfer r of its own, born confirmed.
ReverseTransfer(t, r) ==
  LET q == transfer[t].done
  IN /\ r \in Transfers /\ transfer[r].status = "none"
     /\ \A x \in Transfers : transfer[x].reverses # t
     /\ transfer[t].status \in {"confirmed", "partial"}
     /\ CanRelocate(q, transfer[t].to)
     /\ Relocate(q, transfer[t].to, transfer[t].from)
     /\ transfer' = [transfer EXCEPT
          ![t].status = "reversed",
          ![r] = [status |-> "confirmed", from |-> transfer[t].to, to |-> transfer[t].from,
                  asked |-> q, done |-> q, reverses |-> t]]
     /\ UNCHANGED <<external, count>>

-----------------------------------------------------------------------------
CountedItems == (SUBSET Items) \ {{}}   \* the SKUs asked for that are active

\* A count lists some items with what the books say now and how often each has
\* moved so far.
CreateCycleCount(c, p, items) ==
  /\ count[c].status = "none"
  /\ count' = [count EXCEPT ![c] =
       [status |-> "open", at |-> p,
        lines |-> [i \in items |->
          [expected |-> OnHandAt(i, p), moves |-> moves[i], counted |-> None]]]]
  /\ UNCHANGED <<balance, moves, external, transfer>>

Countings == 0..MaxQty   \* a counted quantity may be zero, never negative

RecordCycleCounts(c, i, n) ==
  /\ count[c].status = "open" /\ i \in DOMAIN count[c].lines
  /\ count' = [count EXCEPT ![c].lines[i].counted = n]
  /\ UNCHANGED <<balance, moves, external, transfer>>

Counted(c) == {i \in DOMAIN count[c].lines : count[c].lines[i].counted # None}

\* Mutant of Unmoved: the snapshot is trusted.
UnmovedAssumed(c) == TRUE

\* No counted item has moved, anywhere, since the count was opened.
Unmoved(c) == \A i \in Counted(c) : moves[i] = count[c].lines[i].moves

Variance(c, i) ==
  IF i \in Counted(c) THEN count[c].lines[i].counted - count[c].lines[i].expected ELSE 0

PostCycleCount(c) ==
  LET p == count[c].at
  IN /\ count[c].status = "open" /\ Counted(c) # {}
     /\ Unmoved(c)
     /\ \A i \in Items : Variance(c, i) # 0 =>
          /\ moves[i] < MaxMoves
          /\ MayMove(i, p, Variance(c, i))
     /\ balance' = [i \in Items |-> [balance[i] EXCEPT ![p] = @ + Variance(c, i)]]
     /\ external' = [i \in Items |-> [external[i] EXCEPT ![p] = @ + Variance(c, i)]]
     /\ moves' = [i \in Items |-> IF Variance(c, i) # 0 THEN moves[i] + 1 ELSE moves[i]]
     /\ count' = [count EXCEPT ![c].status = "posted"]
     /\ UNCHANGED transfer

CancelCycleCount(c) ==
  /\ count[c].status = "open"
  /\ count' = [count EXCEPT ![c].status = "cancelled"]
  /\ UNCHANGED <<balance, moves, external, transfer>>

Next ==
  \/ \E i \in Items, p \in Places, d \in Deltas : AdjustStock(i, p, d)
  \/ \E t \in Transfers :
       \/ \E from, to \in Locations, q \in TransferLines : CreateTransfer(t, from, to, q)
       \/ \E o \in Overrides : ConfirmTransfer(t, o)
       \/ CancelTransfer(t)
       \/ \E r \in Transfers : ReverseTransfer(t, r)
  \/ \E c \in Counts :
       \/ \E p \in Places, items \in CountedItems : CreateCycleCount(c, p, items)
       \/ \E i \in Items, n \in Countings : RecordCycleCounts(c, i, n)
       \/ PostCycleCount(c) \/ CancelCycleCount(c)

Spec == Init /\ [][Next]_vars

-----------------------------------------------------------------------------
TypeOK ==
  /\ balance \in [Items -> [Places -> Int]] /\ external \in [Items -> [Places -> Int]]
  /\ moves \in [Items -> 0..MaxMoves]
  /\ \A t \in Transfers :
       /\ transfer[t].status \in {"none", "pending", "partial", "confirmed", "cancelled", "reversed"}
       /\ \A i \in Items : 0 <= transfer[t].done[i] /\ transfer[t].done[i] <= transfer[t].asked[i]
  /\ \A c \in Counts : count[c].status \in {"none", "open", "posted", "cancelled"}

\* No sequence of unlocated sales, transfers, reversals and posted counts takes
\* a named location, or the stock of an item, below zero
\* (inventoryApplyStockDelta); only the unlocated rest may be negative.
StockIsReal ==
  \A i \in Items : OnHand(i) >= 0 /\ \A p \in Locations : balance[i][p] >= 0

\* What stands at a place is what came from outside plus what the transfers say
\* they moved in and out, through partial confirmations, reversals and
\* reversals of reversals: no confirmation is applied twice or forgotten.
TransfersAccountForStock ==
  \A i \in Items, p \in Places :
    balance[i][p] = external[i][p]
      + MapThenSumSet(LAMBDA t : transfer[t].done[i], {t \in Transfers : transfer[t].to = p})
      - MapThenSumSet(LAMBDA t : transfer[t].done[i], {t \in Transfers : transfer[t].from = p})

\* A transfer is reversed once, by exactly what it had moved, and never moves
\* again: inventoryReverseTransfer against later confirmations and reversals.
ReversedOnce ==
  \A t \in Transfers :
    LET by == {r \in Transfers : transfer[r].reverses = t}
    IN /\ Cardinality(by) <= 1
       /\ by # {} <=> transfer[t].status = "reversed"
       /\ \A r \in by : transfer[r].done = transfer[t].done

\* Posting a count leaves the books at what was counted, however long ago the
\* count was opened and whatever moved meanwhile: a stale variance is refused
\* (inventoryPostCycleCount).
CountMakesTrue ==
  \A c \in Counts : count[c].status = "open" /\ count'[c].status = "posted" =>
       \A i \in Counted(c) : OnHandAt(i, count[c].at)' = count[c].lines[i].counted

\* Stock is never below zero at any location, every transfer accounts for what it
\* moved, and nothing is reversed twice, however transfers, partial receipts,
\* reversals and counts interleave (moveStock, confirmTransfer, reverseTransfer).
MovementsAddUp ==
  /\ TypeOK /\ StockIsReal /\ TransfersAccountForStock /\ ReversedOnce
=============================================================================
