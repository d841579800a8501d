------------------------------ MODULE Payables -------------------------------
(***************************************************************************)
(* Vendor bills and the money that settles them: single payments, supplier *)
(* credits and payment runs (capability/purchasing_bills.go,               *)
(* purchasing_lifecycle.go, purchasing_payment_runs.go), with the reports  *)
(* that read them (purchasing_ap_aging.go, purchasing_reads.go).           *)
(*                                                                         *)
(* Everything holds the bill, or the run and its bills, while it checks    *)
(* and writes, and is one step; only reverseVendorPayment first reads the  *)
(* payment without a lock.  Bills are in the organization's currency.      *)
(***************************************************************************)
EXTENDS Integers, Sequences, SequencesExt, FiniteSets, FiniteSetsExt

CONSTANTS None, Bills, Runs,
  Totals, Taxes,    \* totals of bills and the recoverable tax in them
  MaxPayments,      \* bound on vendor_payments rows
  MaxCredits,       \* bound on credit notes
  Readers           \* callers of reverseVendorPayment

VARIABLES
  bill,      \* vendor_bills
  payments,  \* vendor_payments
  run,       \* payment_runs with their lines
  reading,   \* the payment each caller of reverseVendorPayment found live; 0 is none
  credits,   \* credit notes: bill, amount and the share of input tax
  books      \* balances of 2000 (payable), 1000 (cash), 6000 (expense), input tax

vars == <<bill, payments, run, reading, credits, books>>

SumOver(S, Op(_)) == MapThenSumSet(Op, S)

NoBill == [status |-> "none", total |-> 0, tax |-> 0, paid |-> 0, credited |-> 0]
NoRun == [status |-> "none", lines |-> [b \in Bills |-> 0]]

Init == /\ bill = [b \in Bills |-> NoBill]
        /\ payments = <<>>
        /\ run = [r \in Runs |-> NoRun]
        /\ reading = [c \in Readers |-> 0]
        /\ credits = <<>>
        /\ books = [payable |-> 0, cash |-> 0, expense |-> 0, tax |-> 0]

Outstanding(b) == Max({0, bill[b].total - (bill[b].paid + bill[b].credited)})

Payable(b) == bill[b].status \in {"open", "paid"}

\* paid_minor and the status that follows from the balance: money coming in
\* may settle the bill, money going back (amount < 0) may open it.
Settle(b, amount) ==
  LET settled == bill[b].paid + amount + bill[b].credited >= bill[b].total
  IN [bill[b] EXCEPT !.paid = @ + amount,
                     !.status = IF settled THEN "paid" ELSE IF amount < 0 THEN "open" ELSE @]

CreateBill(b, total, tax) ==
  /\ bill[b].status = "none" /\ tax <= total
  /\ bill' = [bill EXCEPT ![b] = [NoBill EXCEPT !.status = "open", !.total = total, !.tax = tax]]
  /\ books' = [books EXCEPT !.payable = @ + total, !.expense = @ + total - tax, !.tax = @ + tax]
  /\ UNCHANGED <<payments, run, reading, credits>>

Payment(b, amount, r, status) == [bill |-> b, amount |-> amount, run |-> r, status |-> status]

\* DR payable, CR cash; the mirror of the entry has a negative amount.
PaymentEntry(amount) == [books EXCEPT !.payable = @ - amount, !.cash = @ - amount]

PayBill(b, amount) ==
  /\ Payable(b) /\ amount <= Outstanding(b)
  /\ Len(payments) < MaxPayments
  /\ payments' = Append(payments, Payment(b, amount, None, "paid"))
  /\ bill' = [bill EXCEPT ![b] = Settle(b, amount)]
  /\ books' = PaymentEntry(amount)
  /\ UNCHANGED <<run, reading, credits>>

Reversible(p) == payments[p].run = None /\ payments[p].status # "reversed"

\* reverseVendorPayment up to the bill's lock.
ReadPayment(c, p) ==
  /\ reading[c] = 0
  /\ Reversible(p)
  /\ reading' = [reading EXCEPT ![c] = p]
  /\ UNCHANGED <<bill, payments, run, credits, books>>

\* Mutant of StillLive: what was read before the lock is trusted.
StillLiveUnchecked(p) == TRUE

\* No entry reverses the payment's, and the update finds it not reversed.
StillLive(p) == payments[p].status # "reversed"

ReversePayment(c) ==
  LET p == reading[c]
  IN /\ p # 0
     /\ reading' = [reading EXCEPT ![c] = 0]
     /\ IF StillLive(p)
        THEN /\ payments' = [payments EXCEPT ![p].status = "reversed"]
             /\ bill' = [bill EXCEPT ![payments[p].bill] = Settle(payments[p].bill, -payments[p].amount)]
             /\ books' = PaymentEntry(-payments[p].amount)
        ELSE UNCHANGED <<payments, bill, books>>
     /\ UNCHANGED <<run, credits>>

TaxShare(b, amount) == (2 * amount * bill[b].tax + bill[b].total) \div (2 * bill[b].total)

\* A supplier credit lowers the balance and leaves the status alone.
BillCreditNote(b, amount) ==
  LET tax == TaxShare(b, amount)
  IN /\ Payable(b) /\ amount <= bill[b].total - bill[b].paid - bill[b].credited
     /\ Len(credits) < MaxCredits
     /\ credits' = Append(credits, [bill |-> b, amount |-> amount, tax |-> tax])
     /\ bill' = [bill EXCEPT ![b].credited = @ + amount]
     /\ books' = [books EXCEPT !.payable = @ - amount, !.expense = @ - (amount - tax), !.tax = @ - tax]
     /\ UNCHANGED <<payments, run, reading>>

-----------------------------------------------------------------------------
\* Payment runs.

Selected(lines) == {b \in Bills : lines[b] > 0}

RunTotal(lines) == SumOver(Selected(lines), LAMBDA b : lines[b])

\* Every bill once, with a positive payment within its balance.
Validate(lines) ==
  /\ Selected(lines) # {}
  /\ \A b \in Selected(lines) : Payable(b) /\ lines[b] <= Outstanding(b)

CreatePaymentRun(r, lines) ==
  /\ run[r].status = "none"
  /\ Selected(lines) # {}
  /\ \A b \in Selected(lines) : Payable(b) /\ lines[b] <= Outstanding(b)
  /\ run' = [run EXCEPT ![r] = [status |-> "draft", lines |-> lines]]
  /\ UNCHANGED <<bill, payments, reading, credits, books>>

CancelPaymentRunDraft(r) ==
  /\ run[r].status = "draft"
  /\ run' = [run EXCEPT ![r].status = "cancelled"]
  /\ UNCHANGED <<bill, payments, reading, credits, books>>

RestorePaymentRunDraft(r) ==
  /\ run[r].status = "cancelled"
  /\ run' = [run EXCEPT ![r].status = "draft"]
  /\ UNCHANGED <<bill, payments, reading, credits, books>>

\* One entry for the run and one payment for each of its bills.
InstructPaymentRun(r) ==
  LET lines == run[r].lines
  IN /\ run[r].status = "draft"
     /\ Validate(lines)
     /\ Len(payments) + Cardinality(Selected(lines)) <= MaxPayments
     /\ payments' = payments \o
          SetToSeq({Payment(b, lines[b], r, "instructed") : b \in Selected(lines)})
     /\ bill' = [b \in Bills |-> IF lines[b] > 0 THEN Settle(b, lines[b]) ELSE bill[b]]
     /\ books' = PaymentEntry(RunTotal(lines))
     /\ run' = [run EXCEPT ![r].status = "instructed"]
     /\ UNCHANGED <<reading, credits>>

\* The bank statement confirms it (banking_reconciliation.go).
ConfirmPaymentRun(r) ==
  /\ run[r].status = "instructed"
  /\ run' = [run EXCEPT ![r].status = "confirmed"]
  /\ payments' = [p \in DOMAIN payments |->
       IF payments[p].run = r THEN [payments[p] EXCEPT !.status = "confirmed"] ELSE payments[p]]
  /\ UNCHANGED <<bill, reading, credits, books>>

ReversePaymentRun(r) ==
  LET lines == run[r].lines
  IN /\ run[r].status = "instructed"
     /\ \A b \in Selected(lines) : lines[b] <= bill[b].paid
     /\ bill' = [b \in Bills |-> IF lines[b] > 0 THEN Settle(b, -lines[b]) ELSE bill[b]]
     /\ payments' = [p \in DOMAIN payments |->
          IF payments[p].run = r THEN [payments[p] EXCEPT !.status = "reversed"] ELSE payments[p]]
     /\ books' = PaymentEntry(-RunTotal(lines))
     /\ run' = [run EXCEPT ![r].status = "reversed"]
     /\ UNCHANGED <<reading, credits>>

Amounts == 1..Max(Totals)

BillNext ==
  \/ \E b \in Bills, total \in Totals, tax \in Taxes : CreateBill(b, total, tax)
  \/ \E b \in Bills, a \in Amounts : PayBill(b, a) \/ BillCreditNote(b, a)
  \/ \E c \in Readers : (\E p \in DOMAIN payments : ReadPayment(c, p)) \/ ReversePayment(c)

RunNext ==
  \E r \in Runs :
    \/ \E lines \in [Bills -> 0..Max(Totals)] : CreatePaymentRun(r, lines)
    \/ CancelPaymentRunDraft(r) \/ RestorePaymentRunDraft(r)
    \/ InstructPaymentRun(r) \/ ConfirmPaymentRun(r) \/ ReversePaymentRun(r)

Next == BillNext \/ RunNext

Spec == Init /\ [][Next]_vars

-----------------------------------------------------------------------------
\* The reports.

Live(b) == {p \in DOMAIN payments : payments[p].bill = b /\ payments[p].status # "reversed"}

\* purchasingAPAging: all buckets together.
AgingTotal == SumOver({b \in Bills : bill[b].total > bill[b].paid},
                      LAMBDA b : bill[b].total - bill[b].paid)

\* purchasingSupplierStatement: bills, credits and every payment sent.
StatementBalance ==
  SumOver(Bills, LAMBDA b : bill[b].total)
    - SumOver(DOMAIN credits, LAMBDA c : credits[c].amount)
    - SumOver(DOMAIN payments, LAMBDA p : payments[p].amount)

OwedTotal == SumOver(Bills, LAMBDA b : bill[b].total - bill[b].paid - bill[b].credited)

-----------------------------------------------------------------------------
TypeOK ==
  /\ \A b \in Bills : bill[b].status \in {"none", "open", "paid"} /\ bill[b].paid >= 0
  /\ \A p \in DOMAIN payments : payments[p].status \in {"paid", "instructed", "confirmed", "reversed"}
  /\ \A r \in Runs :
       run[r].status \in {"none", "draft", "cancelled", "instructed", "confirmed", "reversed"}
  /\ reading \in [Readers -> 0..Len(payments)]

\* However payments, reversals, credits and runs interleave, a bill is never
\* settled beyond its total, what it says was paid is what its live payments
\* are, and the payable and cash accounts agree with the bills
\* (the document lock of payBill, reverseVendorPayment and instructPaymentRun).
BillsMatchMoney ==
  /\ \A b \in Bills :
       /\ bill[b].paid + bill[b].credited <= bill[b].total
       /\ bill[b].paid = SumOver(Live(b), LAMBDA p : payments[p].amount)
  /\ books.payable = OwedTotal
  /\ books.cash = -SumOver(Bills, LAMBDA b : bill[b].paid)

\* A bill says paid only while nothing is owed, whichever way a payment came
\* and went; an open bill that owes nothing was closed by a credit, which does
\* not change the status.
StatusTellsBalance ==
  \A b \in Bills : bill[b].status # "none" =>
    /\ bill[b].status = "paid" => Outstanding(b) = 0
    /\ bill[b].status = "open" /\ Outstanding(b) = 0 => bill[b].credited > 0

\* The payments of a run stand or fall together and never one by one.
RunIsWhole ==
  \A p \in DOMAIN payments : payments[p].run # None =>
    payments[p].status = run[payments[p].run].status

\* While no bill was credited, accounts-payable aging is what is outstanding
\* (purchasingAPAging derives the balance itself and leaves credits out).
AgingIsOutstanding ==
  (\A b \in Bills : bill[b].credited = 0) => AgingTotal = OwedTotal

\* While no payment was reversed, the supplier statement closes at what is owed
\* (purchasingSupplierStatement subtracts the reversed payments as well).
StatementIsOutstanding ==
  (\A p \in DOMAIN payments : payments[p].status # "reversed") => StatementBalance = OwedTotal

\* The credits of a bill give back the input tax it brought, and beyond it at
\* most half a minor unit for each of them: every credit rounds its own share
\* (billCreditNoteTaxShare).
TaxCreditFits ==
  \A b \in Bills :
    LET notes == {c \in DOMAIN credits : credits[c].bill = b}
    IN 2 * (SumOver(notes, LAMBDA c : credits[c].tax) - bill[b].tax) <= Cardinality(notes)

\* Bills, payments, runs, the accounts and the reports tell one story, however
\* bills are paid, credited, reversed and paid in runs, and whatever a caller read
\* before it had the lock (payBill, reverseVendorPayment, instructPaymentRun).
PayablesReconcile ==
  /\ TypeOK /\ BillsMatchMoney /\ StatusTellsBalance /\ RunIsWhole /\ AgingIsOutstanding /\ StatementIsOutstanding /\ TaxCreditFits
==============================================================================
