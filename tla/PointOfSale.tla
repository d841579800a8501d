----------------------------- MODULE PointOfSale -----------------------------
(***************************************************************************)
(* Register sessions, sales and returns (capability/pos_sales.go).         *)
(*                                                                         *)
(* A sale holds the session's row and its items, a return the sale's       *)
(* invoice, its session and its items, closing the session; opening takes  *)
(* an advisory lock.  Each is one step.  A line is a quantity in fractions *)
(* of a unit at a price per unit, so amounts round; the drawer is the cash *)
(* that is physically there.  Sales made before lines were linked to their *)
(* stock, and the customer, are left out.                                  *)
(***************************************************************************)
EXTENDS Integers, Sequences, FiniteSets, Functions

CONSTANTS
  Sessions, Sales,
  Articles,     \* the items the register sells
  Goods,        \* those that have stock; the others are services
  NoItem,       \* a line without a SKU
  Unit,         \* parts of a unit: 1000 in the code
  TillQty, TillLines, Prices, Taxes,   \* bounds and values of sale lines
  Floats,       \* opening floats
  TillStock     \* stock of each item at the start

\* There are finitely many sales at a time; amounts are counted in whole cents and
\* quantities in parts of a unit.
ASSUME TillAssumption ==
  /\ IsFiniteSet(Sales)
  /\ Unit \in Nat \ {0} /\ TillStock \in Nat /\ TillQty \in Nat /\ TillLines \in Nat
  /\ Prices \subseteq Nat /\ Taxes \subseteq Nat /\ Floats \subseteq Int

VARIABLES
  session,   \* pos_sessions rows
  sale,      \* invoices of sales with their lines and returned quantities
  stock, reserved,   \* stock of each item and what orders have reserved of it
  books,     \* balances of accounts 1000 (cash), 4000 (revenue) and 2100 (tax)
  drawer     \* cash in the register

tillVars == <<session, sale, stock, reserved, books, drawer>>

NoSession == [status |-> "none", float |-> 0, expected |-> 0, counted |-> 0, variance |-> 0]
NoSale == [status |-> "none", session |-> NoItem, lines |-> <<>>, stocked |-> FALSE,
           total |-> 0, credited |-> 0, returned |-> <<>>]

TillInit ==
  /\ session = [s \in Sessions |-> NoSession]
  /\ sale = [x \in Sales |-> NoSale]
  /\ stock = [i \in Goods |-> TillStock]
  /\ reserved = [i \in Goods |-> 0]
  /\ books = [cash |-> 0, revenue |-> 0, tax |-> 0]
  /\ drawer = 0

-----------------------------------------------------------------------------
\* Amounts.

RoundThousandths(n) == (n + Unit \div 2) \div Unit
RoundFraction(n, d) == (2 * n + d) \div (2 * d)

\* Revenue and tax of n parts of a line.
SubtotalOf(line, n) == RoundThousandths(n * line.price)
TaxOf(line, n) == RoundFraction(line.tax * n, line.qty)

Subtotal(lines) == SumFunction([l \in DOMAIN lines |-> SubtotalOf(lines[l], lines[l].qty)])
Tax(lines) == SumFunction([l \in DOMAIN lines |-> lines[l].tax])

SaleLines ==
  UNION {[1..n -> [item : Articles \cup {NoItem}, qty : 1..TillQty, price : Prices, tax : Taxes]]
         : n \in 1..TillLines}

\* What the drawer takes of the tenders: nothing, a part, or all of the total.
CashAllocations(total) == {0, total - 1, total} \cap Nat

-----------------------------------------------------------------------------
OpenSession(s, f) ==
  /\ session[s].status = "none"
  /\ \A x \in Sessions : session[x].status # "open"
  /\ session' = [session EXCEPT ![s] = [NoSession EXCEPT !.status = "open", !.float = f]]
  /\ drawer' = f
  /\ UNCHANGED <<sale, stock, reserved, books>>

SoldOf(lines, i) ==
  SumFunction([l \in DOMAIN lines |-> IF lines[l].item = i THEN lines[l].qty ELSE 0])

\* One budget per item, on hand minus open reservations, for all its lines.
Available(lines) == \A i \in Goods : SoldOf(lines, i) <= stock[i] - reserved[i]

\* With the inventory module disabled (stocked is FALSE) a sale moves no stock.
CompleteSale(x, s) ==
  /\ sale[x].status = "none"
  /\ session[s].status = "open"
  /\ \E lines \in SaleLines, stocked \in BOOLEAN :
       LET total == Subtotal(lines) + Tax(lines)
       IN \E cash \in CashAllocations(total) :
            /\ total > 0
            /\ stocked => Available(lines)
            /\ sale' = [sale EXCEPT ![x] =
                 [status |-> "paid", session |-> s, lines |-> lines, stocked |-> stocked,
                  total |-> total, credited |-> 0, returned |-> [l \in DOMAIN lines |-> 0]]]
            /\ stock' = IF stocked THEN [i \in Goods |-> stock[i] - SoldOf(lines, i)] ELSE stock
            /\ books' = [cash |-> books.cash + total, revenue |-> books.revenue + Subtotal(lines),
                         tax |-> books.tax + Tax(lines)]
            /\ session' = [session EXCEPT ![s].expected = @ + cash]
            /\ drawer' = drawer + cash
            /\ UNCHANGED reserved

\* Closing freezes the expectation, float included, against the count; a
\* difference needs a reason, which only says why.
CloseSession(s, counted) ==
  /\ session[s].status = "open"
  /\ session' = [session EXCEPT ![s] =
       [status |-> "closed", float |-> @.float, expected |-> @.float + @.expected,
        counted |-> counted, variance |-> counted - (@.float + @.expected)]]
  /\ drawer' = 0
  /\ UNCHANGED <<sale, stock, reserved, books>>

-----------------------------------------------------------------------------
\* Returns.

\* ParsePosReturnSaleInput and the per-line check: some lines once each, at
\* most what has not come back; naming none returns all that is left.
Returns(x) ==
  {q \in [DOMAIN sale[x].lines -> 0..TillQty] :
     /\ \E l \in DOMAIN q : q[l] > 0
     /\ \A l \in DOMAIN q : q[l] <= sale[x].lines[l].qty - sale[x].returned[l]}

\* Mutant of RefundSubtotal: each return is rounded on its own.
RefundSubtotalEach(x, l, n) == SubtotalOf(sale[x].lines[l], n)

\* A line refunds the difference of two cumulative amounts, so that the parts
\* add up to the whole.
RefundSubtotal(x, l, n) ==
  SubtotalOf(sale[x].lines[l], sale[x].returned[l] + n) - SubtotalOf(sale[x].lines[l], sale[x].returned[l])

RefundTax(x, l, n) ==
  TaxOf(sale[x].lines[l], sale[x].returned[l] + n) - TaxOf(sale[x].lines[l], sale[x].returned[l])

\* Only what the sale took out of stock goes back.
Restocked(x, q) ==
  [i \in Goods |-> stock[i] + SumFunction([l \in DOMAIN q |->
     IF sale[x].stocked /\ sale[x].lines[l].item = i THEN q[l] ELSE 0])]

\* A cash refund lowers what the sale's own session expects, while it is open.
DrawerRefund(x, refund) ==
  IF session[sale[x].session].status = "open"
  THEN [session EXCEPT ![sale[x].session].expected = @ - refund]
  ELSE session

\* The journal entry of a return mirrors the accounts of the sale's.
RefundEntry(subtotal, tax) ==
  [cash |-> books.cash - (subtotal + tax), revenue |-> books.revenue - subtotal, tax |-> books.tax - tax]

ReturnSale(x, q, method) ==
  LET subtotal == SumFunction([l \in DOMAIN q |-> RefundSubtotal(x, l, q[l])])
      tax == SumFunction([l \in DOMAIN q |-> RefundTax(x, l, q[l])])
      refund == subtotal + tax
  IN /\ sale[x].status = "paid"
     /\ sale[x].total > sale[x].credited
     /\ refund > 0 /\ refund <= sale[x].total - sale[x].credited
     /\ Subtotal(sale[x].lines) > 0   \* the sale's entry has its revenue line
     /\ books' = RefundEntry(subtotal, tax)
     /\ sale' = [sale EXCEPT ![x].credited = @ + refund,
                             ![x].returned = [l \in DOMAIN q |-> @[l] + q[l]]]
     /\ stock' = Restocked(x, q)
     /\ session' = IF method = "cash" THEN DrawerRefund(x, refund) ELSE session
     /\ drawer' = IF method = "cash" THEN drawer - refund ELSE drawer
     /\ UNCHANGED reserved

\* Orders reserve and release stock meanwhile (module SalesOrders).
Reserve(i) ==
  /\ reserved[i] < stock[i]
  /\ reserved' = [reserved EXCEPT ![i] = @ + 1]
  /\ UNCHANGED <<session, sale, stock, books, drawer>>

TillNext ==
  \/ \E s \in Sessions : \/ \E f \in Floats : OpenSession(s, f)
                         \/ \E c \in Floats : CloseSession(s, c)
  \/ \E x \in Sales, s \in Sessions : CompleteSale(x, s)
  \/ \E x \in Sales, m \in {"cash", "card"} : \E q \in Returns(x) : ReturnSale(x, q, m)
  \/ \E i \in Goods : Reserve(i)

TillSpec == TillInit /\ [][TillNext]_tillVars

-----------------------------------------------------------------------------
Sold == {x \in Sales : sale[x].status = "paid"}

\* What the customer of a sale has kept of an item.
GoodsKept(r, i) ==
  SumFunction([l \in DOMAIN r.lines |-> IF r.lines[l].item = i THEN r.lines[l].qty - r.returned[l] ELSE 0])

\* Parts of a sale returned in any number of visits refund what returning them
\* at once would: never more than was paid, and exactly that once everything is
\* back, however prices and taxes round (posReturnSale).
RefundsAddUp ==
  \A x \in Sold :
    LET lines == sale[x].lines
    IN /\ sale[x].credited <= sale[x].total
       /\ (\A l \in DOMAIN lines : sale[x].returned[l] = lines[l].qty) => sale[x].credited = sale[x].total
       /\ sale[x].credited = SumFunction([l \in DOMAIN lines |->
            SubtotalOf(lines[l], sale[x].returned[l]) + TaxOf(lines[l], sale[x].returned[l])])

\* The three accounts stand at what the sales say: cash at what was paid and not
\* refunded, split without remainder into revenue and tax, neither below zero
\* (the entries of posCompleteSale and posReturnSale).
BooksMatchSales ==
  /\ books.cash = SumFunction([x \in Sold |-> sale[x].total - sale[x].credited])
  /\ books.cash = books.revenue + books.tax
  /\ books.revenue >= 0 /\ books.tax >= 0

\* Stock that left with sales and is not back is all that is missing, and a
\* sale never takes stock that is reserved for an order.
StockFollowsSales ==
  \A i \in Goods :
    /\ stock[i] = TillStock - SumFunction([x \in {y \in Sold : sale[y].stocked} |->
         GoodsKept(sale[x], i)])
    /\ reserved[i] <= stock[i]

\* The count of a closed session is history: no later return rewrites it.
ClosedIsFrozen ==
  \A s \in Sessions : session[s].status = "closed" => session'[s] = session[s]

\* While the register of the first shift is open, what it expects is what is in
\* the drawer, so that closing it flags no variance the software made
\* (returnSale lowers what the sale's own session expects; a refund of an
\* earlier shift's sale is not expected by the session that pays it).
DrawerIsExpected ==
  \A s \in Sessions :
    session[s].status = "open" /\ (\A t \in Sessions : session[t].status # "closed")
      => drawer = session[s].float + session[s].expected

\* However sales, partial returns, shifts and reservations interleave, refunds add
\* up to what was sold, and the books, the stock and the drawer agree with the
\* sales (completeSale, returnSale, closeSession).
TillIsTrue ==
  /\ RefundsAddUp /\ BooksMatchSales /\ StockFollowsSales /\ DrawerIsExpected

-----------------------------------------------------------------------------
(* What makes these inductive.                                             *)

\* Revenue and tax of what has not been returned of a sale.
RevenueKept(r) == SumFunction([l \in DOMAIN r.lines |->
  SubtotalOf(r.lines[l], r.lines[l].qty) - SubtotalOf(r.lines[l], r.returned[l])])
TaxKept(r) == SumFunction([l \in DOMAIN r.lines |-> r.lines[l].tax - TaxOf(r.lines[l], r.returned[l])])

TillShapes ==
  /\ session \in [Sessions -> [status : {"none", "open", "closed"}, float : Int, expected : Int,
                              counted : Int, variance : Int]]
  /\ sale \in [Sales -> [status : {"none", "paid"}, session : Sessions \cup {NoItem},
                         lines : SaleLines \cup {<<>>}, stocked : BOOLEAN, total : Int, credited : Int,
                         returned : UNION {[1..n -> Nat] : n \in 0..TillLines}]]
  /\ stock \in [Goods -> Int] /\ reserved \in [Goods -> Int]
  /\ books \in [cash : Int, revenue : Int, tax : Int] /\ drawer \in Int

\* A sale's row: what came back was sold, and it is credited by the line.
SaleIsSound(r) ==
  /\ r.session \in Sessions /\ r.lines \in SaleLines
  /\ r.returned \in [DOMAIN r.lines -> Nat] /\ \A l \in DOMAIN r.lines : r.returned[l] <= r.lines[l].qty
  /\ r.total = Subtotal(r.lines) + Tax(r.lines) /\ r.credited <= r.total
  /\ r.credited = SumFunction([l \in DOMAIN r.lines |->
       SubtotalOf(r.lines[l], r.returned[l]) + TaxOf(r.lines[l], r.returned[l])])

\* Each account is a sum of its own over the sales.
AccountsAddUp ==
  /\ books.cash = books.revenue + books.tax
  /\ books.revenue = SumFunction([x \in Sold |-> RevenueKept(sale[x])])
  /\ books.tax = SumFunction([x \in Sold |-> TaxKept(sale[x])])

\* One register is open at a time, and a sale was made at one.
OneShift ==
  /\ \A s, t \in Sessions : session[s].status = "open" /\ session[t].status = "open" => s = t
  /\ \A x \in Sold : session[sale[x].session].status # "none"

TillInv ==
  /\ TillShapes /\ (\A x \in Sold : SaleIsSound(sale[x])) /\ AccountsAddUp /\ StockFollowsSales
  /\ OneShift /\ DrawerIsExpected
=============================================================================
