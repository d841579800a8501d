------------------------------- MODULE Budgets -------------------------------
(***************************************************************************)
(* Budget scenarios: versions saved, undone and restored under one         *)
(* advisory lock per scenario key, and the comparison of a plan with what  *)
(* the books and the open purchase orders say of one expense account.      *)
(* Orders, bills and the year's close are kept to what the comparison      *)
(* reads of them.                                                          *)
(***************************************************************************)
EXTENDS Integers, Sequences, FiniteSets, FiniteSetsExt

CONSTANTS Months, Plans, Orders, BillLines, MaxVersions, MaxOrders, MaxBills

VARIABLES versions, orders, bills, entries

vars == <<versions, orders, bills, entries>>

Init == /\ versions = <<>> /\ orders = <<>> /\ bills = <<>> 
        /\ entries = [m \in Months, k \in {"standard", "year_end_close"} |-> 0]

-----------------------------------------------------------------------------
(* Versions are [version, plan, current].                                  *)

Current == {i \in DOMAIN versions : versions[i].current}
Latest == CHOOSE i \in Current : \A j \in Current : versions[j].version <= versions[i].version

(* The number after the current one; without a current version it is 1.    *)
NextVersion == IF Current = {} THEN 1 ELSE versions[Latest].version + 1
SaveScenario(plan) ==
  /\ Len(versions) < MaxVersions
  /\ \A i \in DOMAIN versions : versions[i].version # NextVersion
  /\ versions' = Append(
       [i \in DOMAIN versions |->
          IF Current # {} /\ i = Latest THEN [versions[i] EXCEPT !.current = FALSE] ELSE versions[i]],
       [version |-> NextVersion, plan |-> plan, current |-> TRUE])
  /\ UNCHANGED <<orders, bills, entries>>
(* The undone version goes first, so it may be named as its predecessor.   *)
UndoVersion(i) ==
  /\ versions[i].current
  /\ \E prev \in {0, i} \cup {j \in DOMAIN versions : ~versions[j].current} :
       versions' = [j \in DOMAIN versions |->
         [versions[j] EXCEPT !.current = (j = prev \/ (@ /\ j # i))]]
  /\ UNCHANGED <<orders, bills, entries>>
RestoreVersion(i) ==
  /\ versions' = [j \in DOMAIN versions |-> [versions[j] EXCEPT !.current = (j = i)]]
  /\ UNCHANGED <<orders, bills, entries>>

-----------------------------------------------------------------------------
(* What the comparison reads.  Quantities are in thousandths and rates in  *)
(* basis points; amounts round half up.                                    *)

LineNet(q, price, rate, incl) ==
  LET gross == (q * price + 500) \div 1000
  IN IF ~incl THEN gross ELSE (gross * 20000 + 10000 + rate) \div (2 * (10000 + rate))
NetOf(b) == LineNet(b.quantity, b.price, b.rate, b.incl)

(* What the entries of a month and kind add up to on the account.          *)
Enter(month, amount, kind) == [entries EXCEPT ![month, kind] = @ + amount]
Order(o, m) == /\ Len(orders) < MaxOrders
               /\ orders' = Append(orders, [month |-> m, quantity |-> o.quantity,
                                            price |-> o.price, open |-> TRUE])
               /\ UNCHANGED <<versions, bills, entries>>
VoidOrder(o) == /\ orders[o].open /\ \A b \in DOMAIN bills : bills[b].order = o => bills[b].void
                /\ orders' = [orders EXCEPT ![o].open = FALSE]
                /\ UNCHANGED <<versions, bills, entries>>
Bill(o, line, m) ==
  /\ orders[o].open /\ Len(bills) < MaxBills
  /\ bills' = Append(bills, [order |-> o, line |-> line, void |-> FALSE])
  /\ entries' = Enter(m, NetOf(line), "standard")
  /\ UNCHANGED <<versions, orders>>
VoidBill(b, m) ==
  /\ ~bills[b].void /\ bills' = [bills EXCEPT ![b].void = TRUE]
  /\ entries' = Enter(m, -NetOf(bills[b].line), "standard")
  /\ UNCHANGED <<versions, orders>>
(* The close moves the account's balance to equity.                        *)
CloseYear ==
  LET balance == MapThenSumSet(LAMBDA e : entries[e], DOMAIN entries)
  IN /\ balance # 0
     /\ entries' = Enter(Max(Months), -balance, "year_end_close")
     /\ UNCHANGED <<versions, orders, bills>>

Actual(m) == entries[m, "standard"]
BilledOnPaper(o) == MapThenSumSet(LAMBDA b : NetOf(bills[b].line),
  {b \in DOMAIN bills : bills[b].order = o})
Billed(o) == MapThenSumSet(LAMBDA b : NetOf(bills[b].line),
  {b \in DOMAIN bills : bills[b].order = o /\ ~bills[b].void})
Ordered(o) == LineNet(orders[o].quantity, orders[o].price, 0, FALSE)
RemainingCommitment(o) == IF Ordered(o) <= Billed(o) THEN 0 ELSE Ordered(o) - Billed(o)
Committed(m) == MapThenSumSet(LAMBDA o : RemainingCommitment(o),
  {o \in DOMAIN orders : orders[o].open /\ orders[o].month = m})

(* projected, variance and utilization; no utilization of an empty plan.   *)
Compare(plan, actual, committed) ==
  LET projected == actual + committed
      n == IF projected < 0 THEN -projected ELSE projected
      bps == (n * 10000 + plan \div 2) \div plan
  IN [projected |-> projected, variance |-> projected - plan,
      utilization |-> IF plan = 0 THEN <<>> ELSE <<IF projected < 0 THEN -bps ELSE bps>>]
ActualVsPlan(i, m) == Compare(versions[i].plan, Actual(m), Committed(m))

Next == \/ \E p \in Plans : SaveScenario(p)
        \/ \E i \in DOMAIN versions : UndoVersion(i) \/ RestoreVersion(i)
        \/ \E m \in Months : \/ \E o \in Orders : Order(o, m)
                             \/ \E o \in DOMAIN orders, l \in BillLines : Bill(o, l, m)
                             \/ \E b \in DOMAIN bills : VoidBill(b, m)
        \/ \E o \in DOMAIN orders : VoidOrder(o)
        \/ CloseYear
Spec == Init /\ [][Next]_vars

-----------------------------------------------------------------------------
(* Properties.                                                             *)

(* saveBudgetScenario, undo and restore in any order leave at most one     *)
(* current version of a scenario, and no number is given twice.            *)
OneCurrentVersion ==
  /\ Cardinality(Current) <= 1
  /\ \A i, j \in DOMAIN versions : versions[i].version = versions[j].version => i = j

(* A year's projection is what was ordered or, when the bills exceed it,   *)
(* what was billed, order by order: billing an order in parts, in another  *)
(* month or at another price, voiding a bill and closing the year neither  *)
(* count it twice nor lose it.                                             *)
ProjectionIsWhole ==
  MapThenSumSet(LAMBDA m : Actual(m) + Committed(m), Months)
    = MapThenSumSet(LAMBDA o : IF orders[o].open THEN Max({Ordered(o), Billed(o)}) ELSE 0,
                    DOMAIN orders)

(* A month over plan shows a positive variance and more than 10000 points, *)
(* or the rounding of it, whichever version is compared.                   *)
OverPlanShows == \A i \in DOMAIN versions, m \in Months :
  LET c == ActualVsPlan(i, m)
  IN c.utilization # <<>> => /\ c.variance > 0 => c.utilization[1] >= 10000
                             /\ c.variance < 0 => c.utilization[1] <= 10000

(* A scenario has one current version and its comparison is whole.         *)
BudgetIsHonest == OneCurrentVersion /\ ProjectionIsWhole /\ OverPlanShows
=============================================================================
