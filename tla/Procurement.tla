----------------------------- MODULE Procurement -----------------------------
(***************************************************************************)
(* From a purchase request to received, returned and billed goods          *)
(* (capability/purchasing_requests.go, _purchase_orders.go, _receipts.go,  *)
(* _returns.go, _lifecycle.go and the match of _bills.go).                 *)
(*                                                                         *)
(* Every operation on a request or an order locks that row first, so it is *)
(* one step.  A line is goods or a service.  Money is left to Payables;    *)
(* receipts made before receipt lines existed are left out.                *)
(***************************************************************************)
EXTENDS Integers, Sequences, SequencesExt, FiniteSets, FiniteSetsExt

CONSTANTS
  None,
  Requests, Vendors, Orders, Lines,
  Goods,            \* the lines that name a stocked item; the others are services
  MaxQty,           \* bound on an ordered quantity and on what one line of a receipt delivers
  Prices,           \* unit prices: of an order, a quote or a bill
  MaxReceipts, MaxBills, MaxUse,   \* bounds: receipts and bills of an order, units of an item used
  Tolerances        \* over-receipt allowed by an authority, in percent

VARIABLES
  active,    \* vendors that are not deactivated
  request,   \* purchase_requests: status
  rfq,       \* rfqs of each request and vendor: status and quoted lines
  order,     \* purchase_orders with their lines and receipts
  billed,    \* quantities of each line on vendor_bill_lines
  bills,     \* vendor bills of each order
  onHand, used   \* stock of the item of each order line, and what was used of it

vars == <<active, request, rfq, order, billed, bills, onHand, used>>

SumOver(S, Op(_)) == MapThenSumSet(Op, S)

NoRfq == [status |-> "none", lines |-> <<>>]
NoOrder == [status |-> "none", vendor |-> None, from |-> None, lines |-> <<>>,
            receipts |-> <<>>, backordered |-> FALSE]

Init == /\ active = Vendors
        /\ request = [r \in Requests |-> "none"]
        /\ rfq = [r \in Requests |-> [v \in Vendors |-> NoRfq]]
        /\ order = [o \in Orders |-> NoOrder]
        /\ billed = [o \in Orders |-> [l \in Lines |-> 0]]
        /\ bills = [o \in Orders |-> 0]
        /\ onHand = [o \in Orders |-> [l \in Goods |-> 0]]
        /\ used = [o \in Orders |-> [l \in Goods |-> 0]]

\* The lines of an order: at least one, quantities positive; a line of
\* quantity 0 stands for one that is not there.
OrderLines ==
  {ls \in [Lines -> [qty : 0..MaxQty, price : Prices]] :
     /\ \E l \in Lines : ls[l].qty > 0
     /\ \A l \in Lines : ls[l].qty = 0 => ls[l].price = Min(Prices)}

-----------------------------------------------------------------------------
\* Requests, quotations and orders.

CreateRequest(r) ==
  /\ request[r] = "none"
  /\ request' = [request EXCEPT ![r] = "pending_review"]
  /\ UNCHANGED <<active, rfq, order, billed, bills, onHand, used>>

Decide(r, decision) ==
  /\ request[r] = "pending_review"
  /\ request' = [request EXCEPT ![r] = decision]
  /\ UNCHANGED <<active, rfq, order, billed, bills, onHand, used>>

\* Distinct vendors, none of which was asked before; a deactivated one may be.
CreateRfq(r, vs) ==
  /\ request[r] = "approved"
  /\ vs # {}
  /\ \A v \in vs : rfq[r][v].status = "none"
  /\ rfq' = [rfq EXCEPT ![r] = [v \in Vendors |->
               IF v \in vs THEN [NoRfq EXCEPT !.status = "sent"] ELSE @[v]]]
  /\ UNCHANGED <<active, request, order, billed, bills, onHand, used>>

CanQuote(r, v) == rfq[r][v].status \in {"sent", "quoted"}

\* A new quote replaces the lines of the one before.
RecordQuote(r, v, lines) ==
  /\ CanQuote(r, v)
  /\ rfq' = [rfq EXCEPT ![r][v] = [status |-> "quoted", lines |-> lines]]
  /\ UNCHANGED <<active, request, order, billed, bills, onHand, used>>

NewOrder(o, v, r, lines) ==
  /\ order[o].status = "none"
  /\ v \in active
  /\ order' = [order EXCEPT ![o] =
       [NoOrder EXCEPT !.status = "ordered", !.vendor = v, !.from = r, !.lines = lines]]

\* Every other quotation of the request is lost and the request converted.
Award(r, v) ==
  /\ rfq' = [rfq EXCEPT ![r] = [x \in Vendors |->
       IF @[x].status = "none" THEN @[x]
       ELSE [@[x] EXCEPT !.status = IF x = v THEN "won" ELSE "lost"]]]
  /\ request' = [request EXCEPT ![r] = "converted"]

SelectWinningQuote(r, v, o) ==
  /\ request[r] = "approved"
  /\ rfq[r][v].status = "quoted"
  /\ NewOrder(o, v, r, rfq[r][v].lines)
  /\ Award(r, v)
  /\ UNCHANGED <<active, billed, bills, onHand, used>>

CreatePurchaseOrder(o, v, lines) ==
  /\ NewOrder(o, v, None, lines)
  /\ UNCHANGED <<active, request, rfq, billed, bills, onHand, used>>

DeactivateVendor(v) ==
  /\ v \in active
  /\ active' = active \ {v}
  /\ UNCHANGED <<request, rfq, order, billed, bills, onHand, used>>

-----------------------------------------------------------------------------
\* Receipts.

Total(o, l, field) ==
  SumOver(DOMAIN order[o].receipts, LAMBDA n : order[o].receipts[n][l][field])

Accepted(o, l) == Total(o, l, "accepted")
Rejected(o, l) == Total(o, l, "rejected")
Returned(o, l) == Total(o, l, "returned")

\* What closes a line: goods kept or refused, services accepted.
Delivered(o, l) ==
  IF l \in Goods THEN Accepted(o, l) - Returned(o, l) + Rejected(o, l) ELSE Accepted(o, l)

Ordered(o, l) == order[o].lines[l].qty

FullyReceived(o) == \A l \in Lines : Delivered(o, l) >= Ordered(o, l)

Deliveries(o) ==
  {d \in [Lines -> [accepted : 0..MaxQty, rejected : 0..1, returned : {0}]] :
     /\ \E l \in Lines : d[l].accepted + d[l].rejected > 0
     /\ \A l \in Lines : Ordered(o, l) = 0 => d[l].accepted + d[l].rejected = 0}

\* Both sums count everything ever delivered, what went back included.
Fits(o, l, d, pct) ==
  IF l \in Goods
  THEN d.accepted + d.rejected > 0 =>
         Accepted(o, l) + Rejected(o, l) + d.accepted + d.rejected
           <= Ordered(o, l) + (Ordered(o, l) * pct) \div 100
  ELSE Accepted(o, l) + d.accepted <= Ordered(o, l)

ReceiveGoods(o, d, pct) ==
  /\ order[o].status \in {"ordered", "partial", "received"}
  /\ Len(order[o].receipts) < MaxReceipts
  /\ \A l \in Lines : Fits(o, l, d[l], pct)
  /\ order' = [order EXCEPT ![o].receipts = Append(@, d),
                            ![o].status = IF \A l \in Lines : Delivered(o, l) + d[l].accepted
                                               + (IF l \in Goods THEN d[l].rejected ELSE 0) >= Ordered(o, l)
                                          THEN "received" ELSE "partial"]
  /\ onHand' = [onHand EXCEPT ![o] = [l \in Goods |-> @[l] + d[l].accepted]]
  /\ UNCHANGED <<active, request, rfq, billed, bills, used>>

\* Sales and other uses of the item (other modules).
UseStock(o, l) ==
  /\ onHand[o][l] > 0 /\ used[o][l] < MaxUse
  /\ onHand' = [onHand EXCEPT ![o][l] = @ - 1]
  /\ used' = [used EXCEPT ![o][l] = @ + 1]
  /\ UNCHANGED <<active, request, rfq, order, billed, bills>>

\* The receipts a return may draw on: one that is named, or all, oldest first.
Scope(o, n) == IF n = 0 THEN DOMAIN order[o].receipts ELSE {n}

Left(o, n, l) == order[o].receipts[n][l].accepted - order[o].receipts[n][l].returned

\* Mutant of Draw: what the earlier receipts gave is not subtracted.
DrawEach(o, l, q, scope, n) == Min({q, Left(o, n, l)})

Draw(o, l, q, scope, n) ==
  LET before == SumOver({m \in scope : m < n}, LAMBDA m : Left(o, m, l))
  IN IF n \notin scope \/ before >= q THEN 0 ELSE Min({q - before, Left(o, n, l)})

Returnable(o, l, q, scope) ==
  /\ l \in Goods
  /\ q <= Accepted(o, l) - Returned(o, l)
  /\ q <= onHand[o][l]
  /\ q <= SumOver(scope, LAMBDA m : Left(o, m, l))

StatusAfterReturn(o, l, q) ==
  IF order[o].status = "received" /\ Delivered(o, l) - q < Ordered(o, l)
  THEN "partial" ELSE order[o].status

\* Closed orders may still return goods; only a received one is reopened.
ReturnGoods(o, l, q, n) ==
  LET scope == Scope(o, n)
      received == [m \in DOMAIN order[o].receipts |->
                     [order[o].receipts[m] EXCEPT ![l].returned = @ + Draw(o, l, q, scope, m)]]
  IN /\ order[o].status # "none"
     /\ Returnable(o, l, q, scope)
     /\ order' = [order EXCEPT ![o].receipts = received, ![o].status = StatusAfterReturn(o, l, q)]
     /\ onHand' = [onHand EXCEPT ![o][l] = @ - q]
     /\ UNCHANGED <<active, request, rfq, billed, bills, used>>

ClosePurchaseOrder(o) ==
  /\ order[o].status \in {"ordered", "partial", "received"}
  /\ order' = [order EXCEPT ![o].status = "closed", ![o].backordered = ~FullyReceived(o)]
  /\ UNCHANGED <<active, request, rfq, billed, bills, onHand, used>>

-----------------------------------------------------------------------------
\* Order, receipts and bill agree: no more than was kept and was ordered, at
\* a price within 2 % of the ordered one, rounded.
MatchThreeWay(o, l, q, price) ==
  /\ q <= Accepted(o, l) - Returned(o, l) - billed[o][l]
  /\ q <= Ordered(o, l) - billed[o][l]
  /\ price > 0 =>
       price \in ((order[o].lines[l].price * 98 + 50) \div 100)
                   ..((order[o].lines[l].price * 102 + 50) \div 100)

CreateBill(o, l, q, price) ==
  /\ order[o].status # "none" /\ bills[o] < MaxBills
  /\ MatchThreeWay(o, l, q, price)
  /\ billed' = [billed EXCEPT ![o][l] = @ + q]
  /\ bills' = [bills EXCEPT ![o] = @ + 1]
  /\ UNCHANGED <<active, request, rfq, order, onHand, used>>

RequestNext ==
  \/ \E r \in Requests : CreateRequest(r) \/ \E d \in {"approved", "rejected"} : Decide(r, d)
  \/ \E r \in Requests, vs \in SUBSET Vendors : CreateRfq(r, vs)
  \/ \E r \in Requests, v \in Vendors, ls \in OrderLines : RecordQuote(r, v, ls)
  \/ \E r \in Requests, v \in Vendors, o \in Orders : SelectWinningQuote(r, v, o)
  \/ \E v \in Vendors : DeactivateVendor(v)

OrderNext ==
  \/ \E o \in Orders, v \in Vendors, ls \in OrderLines : CreatePurchaseOrder(o, v, ls)
  \/ \E o \in Orders : ClosePurchaseOrder(o)
  \/ \E o \in Orders, pct \in Tolerances :
       order[o].status # "none" /\ \E d \in Deliveries(o) : ReceiveGoods(o, d, pct)
  \/ \E o \in Orders, l \in Goods : UseStock(o, l)
  \/ \E o \in Orders, l \in Lines, q \in 1..MaxQty :
       \E n \in 0..Len(order[o].receipts) : ReturnGoods(o, l, q, n)
  \/ \E o \in Orders, l \in Lines, q \in 1..MaxQty, p \in Prices : CreateBill(o, l, q, p)

Next == RequestNext \/ OrderNext

Spec == Init /\ [][Next]_vars

-----------------------------------------------------------------------------
TypeOK ==
  /\ active \subseteq Vendors
  /\ request \in [Requests -> {"none", "pending_review", "approved", "rejected", "converted"}]
  /\ \A r \in Requests, v \in Vendors :
       rfq[r][v].status \in {"none", "sent", "quoted", "won", "lost"}
  /\ \A o \in Orders : order[o].status \in {"none", "ordered", "partial", "received", "closed"}
  /\ bills \in [Orders -> 0..MaxBills]
  /\ \A o \in Orders : billed[o] \in [Lines -> Nat] /\ onHand[o] \in [Goods -> Nat] /\ used[o] \in [Goods -> 0..MaxUse]

\* An approved request becomes at most one order, and exactly the one of the
\* vendor whose quotation won, on the lines that vendor quoted: no quotation
\* moves after the award (recordQuote, selectWinningQuote).
OneAward ==
  \A r \in Requests :
    LET made == {o \in Orders : order[o].from = r}
    IN /\ Cardinality(made) <= 1
       /\ (made # {}) = (request[r] = "converted")
       /\ \A o \in made :
            /\ rfq[r][order[o].vendor].status = "won"
            /\ rfq[r][order[o].vendor].lines = order[o].lines

\* However goods are delivered, refused, returned and billed, no receipt gives
\* back more than it brought, and each return is drawn in full: what went back
\* on all receipts is what left the stock without being used (returnGoods).
ReturnsAddUp ==
  \A o \in Orders, l \in Goods :
    /\ \A n \in DOMAIN order[o].receipts : Left(o, n, l) >= 0
    /\ Accepted(o, l) - Returned(o, l) = onHand[o][l] + used[o][l]

\* A vendor is never billed for more than was ordered or than was delivered,
\* over any sequence of bills (createBill's three-way match).
BilledWithinOrder ==
  \A o \in Orders, l \in Lines : order[o].status # "none" =>
    billed[o][l] <= Ordered(o, l) /\ billed[o][l] <= Accepted(o, l)

\* An order says received exactly while nothing is owed: the return of
\* goods reopens it (receiveGoods, returnGoods, purchasingOrderFullyReceived).
ReceivedIsTrue ==
  \A o \in Orders :
    /\ order[o].status = "received" => FullyReceived(o)
    /\ order[o].status = "partial" => ~FullyReceived(o)

\* Goods are never delivered beyond what the largest authority allows.
OverReceiptIsAuthorized ==
  \A o \in Orders, l \in Goods : order[o].status # "none" =>
    Accepted(o, l) + Rejected(o, l) <= Ordered(o, l) + (Ordered(o, l) * Max(Tolerances)) \div 100

\* One award per request; what was received, refused, returned and billed stays
\* within the order and its authority, and the order's status says so
\* (selectWinningQuote, receiveGoods, returnGoods, createBill).
OrdersAreHonoured ==
  /\ TypeOK /\ OneAward /\ ReturnsAddUp /\ BilledWithinOrder /\ OverReceiptIsAuthorized /\ ReceivedIsTrue
==============================================================================
