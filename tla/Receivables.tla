----------------------------- MODULE Receivables -----------------------------
(***************************************************************************)
(* Invoices, their payments in the organization's and in foreign currency, *)
(* reversals and credit notes (capability/accounting.go,                   *)
(* accounting_payments.go, accounting_invoice_ops.go), with the reports    *)
(* that read them (accounting_reports.go).                                 *)
(*                                                                         *)
(* Every operation holds the invoice's row from its first check to its     *)
(* last write, and posting takes the organization's period lock: each is   *)
(* one step.  A foreign payment posts two entries, one in each currency,   *)
(* that meet in the clearing account.                                      *)
(***************************************************************************)
EXTENDS Integers, Sequences, FiniteSets, Functions

CONSTANTS Invoices, Base, Foreign,
  Qtys, UnitPrices,  \* quantities (in thousandths) and unit prices of a line
  TaxRates,          \* basis points
  RateNums, RateDen, \* exchange rates: numerators over one denominator
  Cash, MaxPayments, MaxCredits   \* amounts paid or credited; bounds on rows

\* There are finitely many invoices at a time; prices and rates are not negative,
\* and an amount that is paid or credited is positive.
ASSUME ReceivablesAssumption ==
  /\ IsFiniteSet(Invoices) /\ Base # Foreign
  /\ Qtys \subseteq Nat /\ UnitPrices \subseteq Nat /\ TaxRates \subseteq Nat
  /\ RateNums \subseteq Nat /\ RateDen \in Nat \ {0} /\ Cash \subseteq Nat \ {0}

VARIABLES invoice, payments, credits,
  balances     \* of each account in each currency, debits positive

receivablesVars == <<invoice, payments, credits, balances>>

Currencies == {Base, Foreign}
Rates == {<<n, RateDen>> : n \in RateNums}
Accounts == {"cash", "receivable", "revenue", "tax", "clearing", "gain"}

NoInvoice == [status |-> "none", currency |-> Base, rate |-> <<1, 1>>,
              net |-> 0, tax |-> 0, total |-> 0, paid |-> 0, credited |-> 0]

ReceivablesInit ==
  /\ invoice = [i \in Invoices |-> NoInvoice]
  /\ payments = <<>> /\ credits = <<>>
  /\ balances = [a \in Accounts |-> [c \in Currencies |-> 0]]

-----------------------------------------------------------------------------
\* Amounts.

RoundedQuotient(n, d) == (n + d \div 2) \div d

\* net and tax of a line; a price that includes tax is split.
Line(qty, price, rate, includes) ==
  LET amount == RoundedQuotient(qty * price, 1000)
      net == (amount * 20000 + 10000 + rate) \div (2 * (10000 + rate))
  IN IF includes THEN [net |-> net, tax |-> amount - net]
     ELSE [net |-> amount, tax |-> (amount * rate + 5000) \div 10000]

ToBase(amount, rate) ==
  LET n == amount * rate[1]
  IN n \div rate[2] + (IF 2 * (n % rate[2]) >= rate[2] THEN 1 ELSE 0)

Outstanding(i) ==
  LET owed == invoice[i].total - (invoice[i].paid + invoice[i].credited)
  IN IF owed > 0 THEN owed ELSE 0

RevenueShare(i, amount) ==
  (amount * (invoice[i].total - invoice[i].tax) + invoice[i].total \div 2) \div invoice[i].total

\* One entry: a function from accounts to what is debited.
Post(c, entry) ==
  [a \in Accounts |-> IF a \in DOMAIN entry THEN [balances[a] EXCEPT ![c] = @ + entry[a]] ELSE balances[a]]

PostBoth(base, foreign) ==
  [a \in Accounts |-> [c \in Currencies |->
     LET e == IF c = Base THEN base ELSE foreign
     IN balances[a][c] + (IF a \in DOMAIN e THEN e[a] ELSE 0)]]

-----------------------------------------------------------------------------
CreateInvoice(i, c, rate, line) ==
  LET total == line.net + line.tax
  IN /\ invoice[i].status = "none" /\ total > 0
     /\ c = Base => rate = <<1, 1>>
     /\ invoice' = [invoice EXCEPT ![i] =
          [NoInvoice EXCEPT !.status = "sent", !.currency = c, !.rate = rate,
                            !.net = line.net, !.tax = line.tax, !.total = total]]
     /\ balances' = Post(c, [receivable |-> total, revenue |-> -line.net, tax |-> -line.tax])
     /\ UNCHANGED <<payments, credits>>

CanPay(i, amount) == invoice[i].status \in {"sent", "paid"} /\ amount <= Outstanding(i)

Settles(i, amount) == invoice[i].paid + amount + invoice[i].credited >= invoice[i].total

RecordPayment(i, amount) ==
  /\ CanPay(i, amount) /\ invoice[i].currency = Base
  /\ Len(payments) < MaxPayments
  /\ payments' = Append(payments, [invoice |-> i, amount |-> amount, cash |-> amount,
                                   booked |-> amount, reversed |-> FALSE])
  /\ balances' = Post(Base, [cash |-> amount, receivable |-> -amount])
  /\ invoice' = [invoice EXCEPT ![i].paid = @ + amount,
                                ![i].status = IF Settles(i, amount) THEN "paid" ELSE @]
  /\ UNCHANGED credits

\* The posting door refuses a line of zero.
Postable(cash, booked) == cash > 0 /\ booked > 0

\* The cash at the rate of the day, the receivable at the invoice's rate, the
\* difference realized; the status looks at payments alone.
RecordForeignPayment(i, amount, rate) ==
  LET cash == ToBase(amount, rate)
      booked == ToBase(amount, invoice[i].rate)
  IN /\ CanPay(i, amount) /\ invoice[i].currency = Foreign
     /\ Postable(cash, booked)
     /\ Len(payments) < MaxPayments
     /\ payments' = Append(payments, [invoice |-> i, amount |-> amount, cash |-> cash,
                                      booked |-> booked, reversed |-> FALSE])
     /\ balances' = PostBoth([cash |-> cash, clearing |-> -booked, gain |-> booked - cash],
                          [clearing |-> amount, receivable |-> -amount])
     /\ invoice' = [invoice EXCEPT ![i].paid = @ + amount,
          ![i].status = IF invoice[i].paid + amount >= invoice[i].total THEN "paid" ELSE @]
     /\ UNCHANGED credits

\* Mutant of MirrorEntries: the cash goes back at the invoice's rate.
MirrorBooked(p) ==
  IF invoice[p.invoice].currency = Base
  THEN Post(Base, [cash |-> -p.amount, receivable |-> p.amount])
  ELSE PostBoth([cash |-> -p.booked, clearing |-> p.booked],
                [clearing |-> -p.amount, receivable |-> p.amount])

\* Both entries of a foreign payment are mirrored.
MirrorEntries(p) ==
  IF invoice[p.invoice].currency = Base
  THEN Post(Base, [cash |-> -p.amount, receivable |-> p.amount])
  ELSE PostBoth([cash |-> -p.cash, clearing |-> p.booked, gain |-> p.cash - p.booked],
                [clearing |-> -p.amount, receivable |-> p.amount])

ReversedStatus(i, paid) ==
  IF invoice[i].status = "paid" /\ paid + invoice[i].credited < invoice[i].total
  THEN "sent" ELSE invoice[i].status

ReversePayment(n) ==
  LET p == payments[n]
      i == p.invoice
  IN /\ ~p.reversed /\ p.amount <= invoice[i].paid
     /\ payments' = [payments EXCEPT ![n].reversed = TRUE]
     /\ balances' = MirrorEntries(p)
     /\ invoice' = [invoice EXCEPT ![i].paid = @ - p.amount,
                                   ![i].status = ReversedStatus(i, invoice[i].paid - p.amount)]
     /\ UNCHANGED credits

\* A credit lowers the balance and leaves the status alone.
CreditNote(i, amount) ==
  LET revenue == RevenueShare(i, amount)
  IN /\ invoice[i].status # "none"
     /\ amount <= invoice[i].total - invoice[i].paid - invoice[i].credited
     /\ Len(credits) < MaxCredits
     /\ credits' = Append(credits, [invoice |-> i, amount |-> amount, revenue |-> revenue])
     /\ balances' = Post(invoice[i].currency,
                      [revenue |-> revenue, tax |-> amount - revenue, receivable |-> -amount])
     /\ invoice' = [invoice EXCEPT ![i].credited = @ + amount]
     /\ UNCHANGED payments

ReceivablesNext ==
  \/ \E i \in Invoices, c \in Currencies, r \in Rates \cup {<<1, 1>>}, q \in Qtys, p \in UnitPrices,
        t \in TaxRates, inc \in BOOLEAN : CreateInvoice(i, c, r, Line(q, p, t, inc))
  \/ \E i \in Invoices, a \in Cash :
       RecordPayment(i, a) \/ CreditNote(i, a) \/ \E r \in Rates : RecordForeignPayment(i, a, r)
  \/ \E n \in DOMAIN payments : ReversePayment(n)

ReceivablesSpec == ReceivablesInit /\ [][ReceivablesNext]_receivablesVars

-----------------------------------------------------------------------------
\* The reports.

Live(n) == ~payments[n].reversed

\* arAging, all buckets.
AgingTotal(c) ==
  SumFunction([i \in Invoices |-> IF invoice[i].currency = c THEN Outstanding(i) ELSE 0])

\* What credit notes and live payments say of an invoice.
CreditedOf(i) == SumFunction([n \in DOMAIN credits |-> IF credits[n].invoice = i THEN credits[n].amount ELSE 0])
PaidOf(i) ==
  SumFunction([n \in DOMAIN payments |-> IF payments[n].invoice = i /\ Live(n) THEN payments[n].amount ELSE 0])

\* customerStatement: invoices, credit notes and every payment received.
ReceivedOf(i) == SumFunction([n \in DOMAIN payments |-> IF payments[n].invoice = i THEN payments[n].amount ELSE 0])
StatementBalance(c) ==
  SumFunction([i \in Invoices |->
    IF invoice[i].currency = c THEN invoice[i].total - CreditedOf(i) - ReceivedOf(i) ELSE 0])

\* trialBalance: debits equal credits in each currency.
Balanced ==
  \A c \in Currencies :
    balances["cash"][c] + balances["receivable"][c] + balances["revenue"][c]
      + balances["tax"][c] + balances["clearing"][c] + balances["gain"][c] = 0

-----------------------------------------------------------------------------
\* In each currency the receivable account is what the aging report says is
\* outstanding, through payments, credits and reversals in any order, and no
\* invoice is settled beyond its total (recordPayment, executeCreditNote).
ReceivableIsOutstanding ==
  /\ \A c \in Currencies : balances["receivable"][c] = AgingTotal(c)
  /\ \A i \in Invoices : /\ invoice[i].paid + invoice[i].credited <= invoice[i].total
                         /\ invoice[i].paid = PaidOf(i)

\* Live payments of invoices in foreign currency.
Foreigners(n) == Live(n) /\ invoice[payments[n].invoice].currency = Foreign

\* The cash of live payments, and of those in foreign currency what they clear in
\* each currency and what they realize.
CashTaken == SumFunction([n \in DOMAIN payments |-> IF Live(n) THEN payments[n].cash ELSE 0])
ClearedInBase == SumFunction([n \in DOMAIN payments |-> IF Foreigners(n) THEN payments[n].booked ELSE 0])
ClearedInForeign == SumFunction([n \in DOMAIN payments |-> IF Foreigners(n) THEN payments[n].amount ELSE 0])
Realized ==
  SumFunction([n \in DOMAIN payments |-> IF Foreigners(n) THEN payments[n].booked - payments[n].cash ELSE 0])

\* Foreign settlements balance in both currencies, and the clearing account,
\* the cash and the realized result are those of the live payments: a reversal
\* takes back both of its entries (recordPayment, reversePayment).
SettlementsAreWhole ==
  /\ Balanced
  /\ balances["cash"][Base] = CashTaken
  /\ balances["clearing"][Base] = -ClearedInBase /\ balances["clearing"][Foreign] = ClearedInForeign
  /\ balances["gain"][Base] = Realized

\* An invoice says paid only while nothing is owed (reversePayment).
PaidIsSettled == \A i \in Invoices : invoice[i].status = "paid" => Outstanding(i) = 0

NotesOf(i) == {n \in DOMAIN credits : credits[n].invoice = i}
RevenueTaken(i) ==
  SumFunction([n \in DOMAIN credits |-> IF credits[n].invoice = i THEN credits[n].revenue ELSE 0])

\* A full credit takes back the revenue and the tax within half a unit of
\* rounding for each note (creditNoteRevenueShare).
CreditsMirrorRevenue ==
  \A i \in Invoices :
    invoice[i].total > 0 /\ invoice[i].credited = invoice[i].total =>
      2 * (RevenueTaken(i) - invoice[i].net) \in -Cardinality(NotesOf(i))..Cardinality(NotesOf(i))

\* While no payment was reversed, the customer statement closes at what is
\* outstanding (customerStatement keeps subtracting a reversed payment).
StatementIsOutstanding ==
  (\A n \in DOMAIN payments : Live(n)) => \A c \in Currencies : StatementBalance(c) = AgingTotal(c)

\* Invoices, the accounts, the foreign settlements, the statuses and the customer
\* statement tell one story, however invoices are paid, credited and reversed in
\* parts and in two currencies (recordPayment, reversePayment, creditNote).
ReceivablesReconcile ==
  /\ ReceivableIsOutstanding /\ PaidIsSettled /\ CreditsMirrorRevenue
  /\ SettlementsAreWhole /\ StatementIsOutstanding

-----------------------------------------------------------------------------
(* What makes these inductive.                                             *)

InvoiceRows ==
  [status : {"none", "sent", "paid"}, currency : Currencies, rate : Nat \X (Nat \ {0}),
   net : Int, tax : Int, total : Int, paid : Int, credited : Int]
PaymentRows ==
  [invoice : Invoices, amount : Nat \ {0}, cash : Int, booked : Int, reversed : BOOLEAN]
CreditRows == [invoice : Invoices, amount : Nat \ {0}, revenue : Int]

ReceivablesShapes ==
  /\ invoice \in [Invoices -> InvoiceRows]
  /\ payments \in Seq(PaymentRows) /\ credits \in Seq(CreditRows)
  /\ balances \in [Accounts -> [Currencies -> Int]]

\* Rows belong to invoices that exist, an invoice is the sum of its parts, and what
\* is paid in the organization's currency is cash.
RowsAreOfInvoices ==
  /\ \A i \in Invoices : IF invoice[i].status = "none" THEN invoice[i] = NoInvoice
                         ELSE invoice[i].total = invoice[i].net + invoice[i].tax /\ invoice[i].total > 0
  /\ \A n \in DOMAIN payments :
       LET i == payments[n].invoice
       IN invoice[i].status # "none" /\ (invoice[i].currency = Base => payments[n].cash = payments[n].amount)
  /\ \A n \in DOMAIN credits : invoice[credits[n].invoice].status # "none"

\* What credit notes took of an invoice's revenue is its share of what they credit,
\* up to half a unit for each.
CreditsShare ==
  \A i \in Invoices :
    LET taken == invoice[i].total * RevenueTaken(i)
        share == invoice[i].credited * invoice[i].net
        round == invoice[i].total * Cardinality(NotesOf(i))
    IN /\ invoice[i].credited = CreditedOf(i)
       /\ 2 * (taken - share) <= round /\ 2 * (share - taken) <= round

ReceivablesInv ==
  /\ ReceivablesShapes /\ RowsAreOfInvoices /\ CreditsShare
  /\ ReceivableIsOutstanding /\ PaidIsSettled /\ SettlementsAreWhole
=============================================================================
