----------------------------- MODULE SalesOrders -----------------------------
(***************************************************************************)
(* Quotes, sales orders and the stock reservations that anchor them        *)
(* (capability/sales_orders.go, accounting_quotes.go and the reservation   *)
(* capabilities of inventory_imports.go).                                  *)
(*                                                                         *)
(* Every capability runs in one READ COMMITTED transaction.  Those that    *)
(* change an order lock its row first; confirming and reserving lock the   *)
(* items before they read availability, so each of these is one step here. *)
(* Delivery is two: it reads the order's open reservations under the       *)
(* order's lock only, and locks the items when it moves the stock, so      *)
(* others run in between.  Accepting a quote and releasing a reservation   *)
(* read without a lock and write later; they are two steps as well.        *)
(*                                                                         *)
(* Quantities are small numbers for thousandths and every unit costs one;  *)
(* tax, numbering, memos and the journal entry behind an invoice are left  *)
(* out (see Receivables for the books).                                    *)
(***************************************************************************)
EXTENDS Integers, FiniteSets, Sequences, Functions

CONSTANTS
  Items,        \* catalog items
  Services,     \* the items of kind service, which have no stock
  Orders,       \* identities of sales orders
  Quotes,       \* identities of quotes
  Holds,        \* identities of reservations made by inventory.reserveStock
  MaxQty,       \* bound: quantity of a line, of a hold, of an adjustment
  MaxLines,     \* bound: lines of a document
  MaxStock,     \* bound: stock of one item
  CreditLimit,  \* the customer's credit_limit_minor
  None          \* no quote, no reading under way

\* There are finitely many orders and reservations at a time, and the identity of
\* a hold is that of no order line.
ASSUME SalesAssumption ==
  /\ IsFiniteSet(Orders) /\ IsFiniteSet(Holds)
  /\ MaxQty \in Nat /\ MaxLines \in Nat /\ MaxStock \in Nat
  /\ None \notin Orders /\ None \notin Quotes
  /\ Holds \cap (Orders \X (1..MaxLines)) = {}

VARIABLES
  onHand,     \* stock of each item, over all locations
  order,      \* the sales_orders rows with their lines
  resv,       \* the stock_reservations rows
  quote,      \* the quotes rows
  ar,         \* the customer's open receivables
  invoiced,   \* per order and line, the quantity on its invoices
  delivering, \* per order, the open reservations a delivery has read
  accepting,  \* quotes an acceptance has read as sent
  releasing   \* reservations a release has read as open

vars == <<onHand, order, resv, quote, ar, invoiced, delivering, accepting, releasing>>

Stocked == Items \ Services
OrderLines == [item : Items, qty : 1..MaxQty, reserved : 0..MaxQty, delivered : 0..MaxQty]
OrderStatuses == {"none", "draft", "confirmed", "delivered", "cancelled"}
QuoteStatuses == {"none", "sent", "accepted", "declined", "expired"}
ResvIds == (Orders \X (1..MaxLines)) \cup Holds

\* parseSalesOrderLines and parseCreateQuoteLines: at least one line, every
\* quantity positive.
LineInputs == UNION {[1..n -> [item : Items, qty : 1..MaxQty]] : n \in 1..MaxLines}

NewLines(in) == [i \in DOMAIN in |->
  [item |-> in[i].item, qty |-> in[i].qty, reserved |-> 0, delivered |-> 0]]

Open(o) == {r \in ResvIds : resv[r].status = "open" /\ resv[r].by = o}

\* What some reservations hold of an item.
Reserved(rows, item) ==
  SumFunctionOnSet([r \in ResvIds |-> resv[r].qty], {r \in rows : resv[r].item = item})
OpenReserved(item) == Reserved({r \in ResvIds : resv[r].status = "open"}, item)

\* What the lines of a document ask for.
Asked(lines) == SumFunctionOnSet([l \in DOMAIN lines |-> lines[l].qty], DOMAIN lines)

NoOrder == [status |-> "none", lines |-> <<>>, backordered |-> FALSE, quote |-> None]
NoResv == [status |-> "none", item |-> None, qty |-> 0, by |-> None]
NoQuote == [status |-> "none", lines |-> <<>>, lapsed |-> FALSE, order |-> None, invoice |-> FALSE]

Init == /\ onHand \in [Items -> {0, MaxStock}]
        /\ \A i \in Services : onHand[i] = 0
        /\ order = [o \in Orders |-> NoOrder]
        /\ resv = [r \in ResvIds |-> NoResv]
        /\ quote = [q \in Quotes |-> NoQuote]
        /\ ar = 0
        /\ invoiced = [o \in Orders |-> [l \in 1..MaxLines |-> 0]]
        /\ delivering = [o \in Orders |-> None]
        /\ accepting = {}
        /\ releasing = {}

-----------------------------------------------------------------------------
\* Quotes.

CreateQuote(q, in) ==
  /\ quote[q].status = "none"
  /\ quote' = [quote EXCEPT ![q] = [NoQuote EXCEPT !.status = "sent", !.lines = in]]
  /\ UNCHANGED <<onHand, order, resv, ar, invoiced, delivering, accepting, releasing>>

\* The valid-through date of a quote passes.
LapseQuote(q) ==
  /\ quote[q].status # "none" /\ ~quote[q].lapsed
  /\ quote' = [quote EXCEPT ![q].lapsed = TRUE]
  /\ UNCHANGED <<onHand, order, resv, ar, invoiced, delivering, accepting, releasing>>

\* acceptQuote reads the quote and its lines without a lock ...
AcceptQuoteRead(q) ==
  /\ quote[q].status = "sent" /\ ~quote[q].lapsed
  /\ accepting' = accepting \cup {q}
  /\ UNCHANGED <<onHand, order, resv, quote, ar, invoiced, delivering, releasing>>

\* ... and claims it with an update that asks for status sent again; only the
\* claim that wins writes the invoice.
AcceptQuoteClaim(q) ==
  /\ q \in accepting
  /\ accepting' = accepting \ {q}
  /\ IF quote[q].status = "sent"
     THEN /\ quote' = [quote EXCEPT ![q].status = "accepted", ![q].invoice = TRUE]
          /\ ar' = ar + Asked(quote[q].lines)
     ELSE UNCHANGED <<quote, ar>>
  /\ UNCHANGED <<onHand, order, resv, invoiced, delivering, releasing>>

DeclineQuote(q) ==
  /\ quote[q].status = "sent"
  /\ quote' = [quote EXCEPT ![q].status = "declined"]
  /\ UNCHANGED <<onHand, order, resv, ar, invoiced, delivering, accepting, releasing>>

\* accounting.expireQuote sweeps every lapsed sent quote of the organization.
ExpireQuote ==
  LET swept == {q \in Quotes : quote[q].status = "sent" /\ quote[q].lapsed}
  IN /\ swept # {}
     /\ quote' = [q \in Quotes |->
          IF q \in swept THEN [quote[q] EXCEPT !.status = "expired"] ELSE quote[q]]
     /\ UNCHANGED <<onHand, order, resv, ar, invoiced, delivering, accepting, releasing>>

-----------------------------------------------------------------------------
\* Drafts.

CreateOrder(o, in) ==
  /\ order[o].status = "none"
  /\ order' = [order EXCEPT ![o] = [NoOrder EXCEPT !.status = "draft", !.lines = NewLines(in)]]
  /\ UNCHANGED <<onHand, resv, quote, ar, invoiced, delivering, accepting, releasing>>

CreateOrderFromQuote(o, q) ==
  /\ order[o].status = "none"
  /\ quote[q].status = "sent" /\ ~quote[q].lapsed
  /\ order' = [order EXCEPT ![o] =
       [NoOrder EXCEPT !.status = "draft", !.lines = NewLines(quote[q].lines), !.quote = q]]
  /\ quote' = [quote EXCEPT ![q].status = "accepted", ![q].order = o]
  /\ UNCHANGED <<onHand, resv, ar, invoiced, delivering, accepting, releasing>>

Idle(o) == delivering[o] = None   \* nobody holds the lock of the order's row

UpdateDraftOrder(o, in) ==
  /\ Idle(o) /\ order[o].status = "draft"
  /\ order' = [order EXCEPT ![o].lines = NewLines(in)]
  /\ UNCHANGED <<onHand, resv, quote, ar, invoiced, delivering, accepting, releasing>>

-----------------------------------------------------------------------------
\* Confirmation: credit headroom, then one availability budget per item.

OrderTotal(o) == Asked(order[o].lines)

\* Mutant of Takes: every line asks the whole availability of its item.
TakesPerLine(o) ==
  {[l \in DOMAIN order[o].lines |->
     LET ln == order[o].lines[l]
         free == onHand[ln.item] - OpenReserved(ln.item)
     IN IF ln.item \in Services THEN ln.qty
        ELSE IF free > ln.qty THEN ln.qty ELSE IF free < 0 THEN 0 ELSE free]}

Clamp(x, hi) == IF x < 0 THEN 0 ELSE IF x > hi THEN hi ELSE x

\* What each line takes: services in full, stocked lines from what earlier
\* lines of the same item left of on hand minus open reservations.
Takes(o) ==
  LET lines == order[o].lines
      Earlier(l) == {k \in DOMAIN lines : k < l /\ lines[k].item = lines[l].item}
  IN {take \in [DOMAIN lines -> 0..MaxQty] : \A l \in DOMAIN lines :
        take[l] = IF lines[l].item \in Services THEN lines[l].qty
                  ELSE Clamp(onHand[lines[l].item] - OpenReserved(lines[l].item)
                               - SumFunctionOnSet(take, Earlier(l)), lines[l].qty)}

Short(o, takes) == \E l \in DOMAIN order[o].lines : takes[l] < order[o].lines[l].qty

\* One reservation per stocked line that takes something.
Promised(o, takes) ==
  [r \in ResvIds |->
     IF \E l \in DOMAIN order[o].lines :
          r = <<o, l>> /\ order[o].lines[l].item \in Stocked /\ takes[l] > 0
     THEN [status |-> "open", item |-> order[o].lines[r[2]].item, qty |-> takes[r[2]], by |-> o]
     ELSE resv[r]]

ConfirmOrder(o, allowBackorder) ==
  /\ Idle(o) /\ order[o].status = "draft"
  /\ ar + OrderTotal(o) <= CreditLimit
  /\ \E takes \in Takes(o) :
       /\ Short(o, takes) => allowBackorder
       /\ order' = [order EXCEPT
            ![o].status = "confirmed",
            ![o].backordered = Short(o, takes),
            ![o].lines = [l \in DOMAIN order[o].lines |->
              [order[o].lines[l] EXCEPT !.reserved = takes[l]]]]
       /\ resv' = Promised(o, takes)
  /\ UNCHANGED <<onHand, quote, ar, invoiced, delivering, accepting, releasing>>

-----------------------------------------------------------------------------
\* Delivery.

Undelivered(o, l) ==
  LET ln == order[o].lines[l]
  IN (IF ln.item \in Services THEN ln.qty ELSE ln.reserved) - ln.delivered

\* ParseSalesDeliverOrderInput: some lines once each with a positive quantity,
\* or, when no lines are given, everything still open on every line.
Deliveries(o) ==
  {d \in UNION {[ls -> 1..MaxQty] : ls \in (SUBSET DOMAIN order[o].lines) \ {{}}} :
     \A l \in DOMAIN d : d[l] <= Undelivered(o, l)}

\* The order's row is locked and its open reservations are read.
DeliverOrderRead(o, d) ==
  /\ Idle(o) /\ order[o].status \in {"confirmed", "delivered"}
  /\ delivering' = [delivering EXCEPT ![o] = [lines |-> d, open |-> Open(o)]]
  /\ UNCHANGED <<onHand, order, resv, quote, ar, invoiced, accepting, releasing>>

\* How much of an item a delivery wants.
Wanted(o, d, i) == SumFunctionOnSet(d, {l \in DOMAIN d : order[o].lines[l].item = i})

\* What may be taken from the reservations that were read: oldest first, and
\* those of one confirmation are equally old, so at most one is left in part.
Consumptions(o, d, open) ==
  {f \in [open -> 0..MaxQty] :
     /\ \A r \in open : f[r] <= resv[r].qty
     /\ \A i \in Stocked :
          LET of == {r \in open : resv[r].item = i}
          IN /\ SumFunctionOnSet(f, of) = Wanted(o, d, i)
             /\ Cardinality({r \in of : f[r] \notin {0, resv[r].qty}}) <= 1}

\* Mutant of Consumed: a reservation taken in full stays open.
ConsumedInPart(f) ==
  [r \in ResvIds |-> IF r \in DOMAIN f /\ f[r] < resv[r].qty
                     THEN [resv[r] EXCEPT !.qty = @ - f[r]] ELSE resv[r]]

\* The two UPDATEs on stock_reservations name the row only: a row released
\* since it was read becomes consumed, or loses the quantity and stays so.
Consumed(f) ==
  [r \in ResvIds |->
     IF r \notin DOMAIN f \/ f[r] = 0 THEN resv[r]
     ELSE IF f[r] = resv[r].qty THEN [resv[r] EXCEPT !.status = "consumed"]
     ELSE [resv[r] EXCEPT !.qty = @ - f[r]]]

Shipped(o, d, i) ==
  SumFunctionOnSet([l \in DOMAIN d |-> IF order[o].lines[l].item = i THEN d[l] ELSE 0], DOMAIN d)

\* The quantity of a line on the invoice of this delivery.
Billed(o, d, l) == d[l]

\* salesApplyStockDelta refuses a negative balance.
StockIsThere(o, d) == \A i \in Stocked : Shipped(o, d, i) <= onHand[i]

\* The items are locked, the stock leaves and one invoice lists what left.
DeliverOrder(o) ==
  LET d == delivering[o].lines
      lines == order[o].lines
      after == [l \in DOMAIN lines |->
        IF l \in DOMAIN d THEN [lines[l] EXCEPT !.delivered = @ + d[l]] ELSE lines[l]]
      full == \A l \in DOMAIN lines : after[l].delivered >= after[l].qty
  IN /\ ~Idle(o)
     /\ StockIsThere(o, d)
     /\ \E f \in Consumptions(o, d, delivering[o].open) : resv' = Consumed(f)
     /\ onHand' = [i \in Items |-> IF i \in Stocked THEN onHand[i] - Shipped(o, d, i) ELSE onHand[i]]
     /\ order' = [order EXCEPT
          ![o].lines = after,
          ![o].status = IF full THEN "delivered" ELSE "confirmed",
          ![o].backordered = @ /\ ~full]
     /\ invoiced' = [invoiced EXCEPT ![o] =
          [l \in 1..MaxLines |-> @[l] + (IF l \in DOMAIN d THEN Billed(o, d, l) ELSE 0)]]
     /\ ar' = ar + SumFunctionOnSet([l \in DOMAIN d |-> Billed(o, d, l)], DOMAIN d)
     /\ delivering' = [delivering EXCEPT ![o] = None]
     /\ UNCHANGED <<quote, accepting, releasing>>

\* The delivery is refused (a reservation vanished before it was read, or the
\* stock is not there) or its transaction fails; nothing of it remains.
DeliverOrderRefused(o) ==
  /\ ~Idle(o)
  /\ delivering' = [delivering EXCEPT ![o] = None]
  /\ UNCHANGED <<onHand, order, resv, quote, ar, invoiced, accepting, releasing>>

-----------------------------------------------------------------------------
ReleasedFor(o) == IF order[o].status = "confirmed" THEN Open(o) ELSE {}

\* salesRestoreQuoteForCancelledOrder.
RestoredQuote(o) ==
  LET q == order[o].quote
  IN IF q # None /\ quote[q].status = "accepted" /\ quote[q].order = o
     THEN [quote EXCEPT ![q].status = "sent", ![q].order = None]
     ELSE quote

CancelOrder(o) ==
  /\ Idle(o) /\ order[o].status \in {"draft", "confirmed"}
  /\ \A l \in DOMAIN order[o].lines : order[o].lines[l].delivered = 0
  /\ order' = [order EXCEPT ![o].status = "cancelled", ![o].backordered = FALSE]
  /\ resv' = [r \in ResvIds |->
       IF r \in ReleasedFor(o) THEN [resv[r] EXCEPT !.status = "released"] ELSE resv[r]]
  /\ quote' = RestoredQuote(o)
  /\ UNCHANGED <<onHand, ar, invoiced, delivering, accepting, releasing>>

-----------------------------------------------------------------------------
\* Reservations outside orders, and stock that comes and goes by other doors.

\* inventoryAvailableToPromise.
Promisable(i) ==
  IF onHand[i] < OpenReserved(i) THEN 0 ELSE onHand[i] - OpenReserved(i)

ReserveStock(h, i, n) ==
  /\ resv[h].status = "none"
  /\ n <= Promisable(i)
  /\ resv' = [resv EXCEPT ![h] = [status |-> "open", item |-> i, qty |-> n, by |-> None]]
  /\ UNCHANGED <<onHand, order, quote, ar, invoiced, delivering, accepting, releasing>>

\* inventoryReleaseReservation reads the status without a lock ...
ReleaseReservationRead(r) ==
  /\ resv[r].status = "open"
  /\ releasing' = releasing \cup {r}
  /\ UNCHANGED <<onHand, order, resv, quote, ar, invoiced, delivering, accepting>>

\* ... and then writes released whatever the row says now.
ReleaseReservation(r) ==
  /\ r \in releasing
  /\ releasing' = releasing \ {r}
  /\ resv' = [resv EXCEPT ![r].status = "released"]
  /\ UNCHANGED <<onHand, order, quote, ar, invoiced, delivering, accepting>>

\* A receipt, a return or a correction brings stock in (module Stock).
StockArrives(i) ==
  /\ i \in Stocked /\ onHand[i] < MaxStock
  /\ onHand' = [onHand EXCEPT ![i] = @ + 1]
  /\ UNCHANGED <<order, resv, quote, ar, invoiced, delivering, accepting, releasing>>

\* The customer pays some of what is open (module Receivables).
CustomerPays ==
  /\ ar > 0
  /\ ar' = 0
  /\ UNCHANGED <<onHand, order, resv, quote, invoiced, delivering, accepting, releasing>>

Next ==
  \/ \E q \in Quotes : \/ \E in \in LineInputs : CreateQuote(q, in)
                       \/ LapseQuote(q) \/ AcceptQuoteRead(q)
                       \/ AcceptQuoteClaim(q) \/ DeclineQuote(q)
                       \/ \E o \in Orders : CreateOrderFromQuote(o, q)
  \/ ExpireQuote
  \/ \E o \in Orders : \/ \E in \in LineInputs : CreateOrder(o, in) \/ UpdateDraftOrder(o, in)
                       \/ \E b \in BOOLEAN : ConfirmOrder(o, b)
                       \/ \E d \in Deliveries(o) : DeliverOrderRead(o, d)
                       \/ DeliverOrder(o) \/ DeliverOrderRefused(o) \/ CancelOrder(o)
  \/ \E h \in Holds, i \in Items, n \in 1..MaxQty : ReserveStock(h, i, n)
  \/ \E r \in ResvIds : ReleaseReservationRead(r) \/ ReleaseReservation(r)
  \/ \E i \in Items : StockArrives(i)
  \/ CustomerPays

Spec == Init /\ [][Next]_vars

-----------------------------------------------------------------------------
TypeOK ==
  /\ onHand \in [Items -> 0..MaxStock]
  /\ \A o \in Orders : /\ order[o].status \in OrderStatuses
                       /\ \A l \in DOMAIN order[o].lines : order[o].lines[l] \in OrderLines
                       /\ order[o].quote \in Quotes \cup {None}
                       /\ invoiced[o] \in [1..MaxLines -> 0..MaxQty]
  /\ \A r \in ResvIds : resv[r].status \in {"none", "open", "released", "consumed"}
  /\ \A q \in Quotes : /\ quote[q].status \in QuoteStatuses
                       /\ quote[q].order \in Orders \cup {None}
  /\ ar \in Nat
  /\ accepting \subseteq Quotes /\ releasing \subseteq ResvIds

\* A line is invoiced for exactly what left the warehouse, over any number of
\* partial deliveries, refused ones included, and never ships more than was
\* reserved for it (salesDeliverOrder, "invoices exactly what shipped").
InvoicedIsShipped ==
  \A o \in Orders : \A l \in DOMAIN order[o].lines :
    LET ln == order[o].lines[l]
    IN /\ invoiced[o][l] = ln.delivered
       /\ ln.item \in Stocked => ln.delivered <= ln.reserved

\* What lines have reserved of an item and not shipped.
Due(lines, i) ==
  SumFunctionOnSet([l \in DOMAIN lines |-> lines[l].reserved - lines[l].delivered],
    {l \in DOMAIN lines : lines[l].item = i})

\* The reservations still open for an order never exceed what its lines have
\* reserved and not shipped, and an order that is cancelled or delivered keeps
\* none: what deliveries, cancellations and releases in any order leave open is
\* stock nobody else may be promised.
OpenMatchesLines ==
  \A o \in Orders, i \in Stocked :
    LET open == Reserved(Open(o), i)
    IN IF order[o].status = "confirmed" THEN open <= Due(order[o].lines, i) ELSE open = 0

\* A quote becomes one document: an invoice or an order that is not cancelled,
\* never both, however acceptances, orders made from it and their cancellations
\* interleave (acceptQuote against salesCreateOrderFromQuote).
QuoteConvertsOnce ==
  \A q \in Quotes :
    LET live == {o \in Orders : order[o].quote = q /\ order[o].status # "cancelled"}
    IN /\ Cardinality(live) <= 1
       /\ quote[q].invoice => live = {} /\ quote[q].status = "accepted"
       /\ live # {} => quote[q].status = "accepted" /\ quote[q].order \in live

\* Promising stock never takes open reservations over what is on hand: repeated
\* lines of one order, other orders and manual holds share one budget per item
\* (salesConfirmOrder, inventoryReserveStock).
PromisesAreBacked ==
  \A i \in Stocked : OpenReserved(i)' > OpenReserved(i) => OpenReserved(i)' <= onHand'[i]

\* A delivery ships from what was promised to its own order, so it never leaves
\* the promises made to others without stock: whoever commits first owns the
\* stock, and a delivery whose reservation vanished is refused.
DeliveryKeepsPromises ==
  \A i \in Stocked : onHand'[i] < onHand[i] /\ OpenReserved(i) <= onHand[i]
       => OpenReserved(i)' <= onHand'[i]

\* Whatever holds, confirmations, deliveries, cancellations and quotations
\* interleave: stock stays real, what is invoiced was shipped, the open
\* reservations are those of the open lines, and a quotation becomes at most one
\* order or invoice (confirmOrder, deliverOrder, cancelOrder, acceptQuote).
OrdersKeepTheirWord ==
  /\ TypeOK /\ InvoicedIsShipped /\ OpenMatchesLines /\ QuoteConvertsOnce

-----------------------------------------------------------------------------
(* The inductive invariant of the proofs (see SalesOrdersProofs).          *)

LineRows == UNION {[1..n -> OrderLines] : n \in 0..MaxLines}

OrderRows == [status : OrderStatuses, lines : LineRows, backordered : BOOLEAN,
              quote : Quotes \cup {None}]
ResvRows == [status : {"none", "open", "released", "consumed"}, item : Items \cup {None},
             qty : 0..MaxQty, by : Orders \cup {None}]
QuoteRows == [status : QuoteStatuses, lines : {<<>>} \cup LineInputs, lapsed : BOOLEAN,
              order : Orders \cup {None}, invoice : BOOLEAN]

Shapes ==
  /\ onHand \in [Items -> 0..MaxStock]
  /\ order \in [Orders -> OrderRows]
  /\ resv \in [ResvIds -> ResvRows]
  /\ quote \in [Quotes -> QuoteRows]
  /\ ar \in Nat
  /\ invoiced \in [Orders -> [1..MaxLines -> 0..MaxQty]]
  /\ DOMAIN delivering = Orders
  /\ accepting \subseteq Quotes /\ releasing \subseteq ResvIds

\* A line never ships more than it has reserved (a service: than it asks), nothing
\* before the order is confirmed, and everything once the order is delivered.
LinesShip ==
  \A o \in Orders : \A l \in DOMAIN order[o].lines :
    LET ln == order[o].lines[l]
    IN /\ ln.reserved <= ln.qty /\ ln.delivered <= ln.qty
       /\ ln.item \in Stocked => ln.delivered <= ln.reserved
       /\ order[o].status \in {"none", "draft"} => ln.delivered = 0
       /\ order[o].status = "delivered" => ln.delivered = ln.qty

Billing ==
  \A o \in Orders : \A l \in 1..MaxLines :
    invoiced[o][l] = IF l \in DOMAIN order[o].lines THEN order[o].lines[l].delivered ELSE 0

\* A reservation is a hold or belongs to a line of an order that was confirmed, and
\* only one that was open is being released.
RowsBelong ==
  \A r \in ResvIds : resv[r].status # "none" \/ r \in releasing =>
    /\ resv[r].status # "none"
    /\ \/ r \in Holds /\ resv[r].by = None
       \/ /\ resv[r].by \in Orders /\ order[resv[r].by].status \notin {"none", "draft"}
          /\ \E l \in 1..MaxLines : r = <<resv[r].by, l>>

\* What a delivery has read still fits the order, whose row it has locked.
ReadsHold ==
  \A o \in Orders : ~Idle(o) =>
    /\ order[o].status \in {"confirmed", "delivered"}
    /\ delivering[o].lines \in Deliveries(o)
    /\ delivering[o].open \subseteq {r \in ResvIds : resv[r].status # "none" /\ resv[r].by = o}

\* The reservations a delivery has read count as long as it may consume them, even
\* those released meanwhile.
Held(o) == Open(o) \cup (IF Idle(o) THEN {} ELSE delivering[o].open)
BudgetOf(o) ==
  IF order[o].status \in {"confirmed", "delivered"}
  THEN \A i \in Stocked : Reserved(Held(o), i) <= Due(order[o].lines, i)
  ELSE Open(o) = {}
Budgeted == \A o \in Orders : BudgetOf(o)

\* An order that lives on a quote is the one its quote names.
QuotesNameOrders ==
  /\ \A o \in Orders : LET q == order[o].quote
       IN q # None /\ order[o].status # "cancelled" =>
            quote[q].status = "accepted" /\ quote[q].order = o /\ ~quote[q].invoice
  /\ \A q \in Quotes : /\ quote[q].invoice => quote[q].status = "accepted"
                       /\ quote[q].status # "none" => quote[q].lines \in LineInputs

IInv == /\ Shapes /\ LinesShip /\ Billing /\ RowsBelong /\ ReadsHold /\ Budgeted
        /\ QuotesNameOrders
=============================================================================
