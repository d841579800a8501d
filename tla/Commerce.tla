------------------------------ MODULE Commerce -------------------------------
(***************************************************************************)
(* Selling and serving, for TLC.  The components meet in the books and in  *)
(* stock only through the amounts each of them posts, which each of them   *)
(* models, so a behaviour of this module is a behaviour of one of them on  *)
(* one small instance: the scene.  SalesOrders, PointOfSale and            *)
(* Receivables are extended, so that CommerceProofs can prove about them:  *)
(* their constants are those of this module, and their scenes differ in    *)
(* their bounds.                                                           *)
(***************************************************************************)
EXTENDS Integers, Sequences, FiniteSets, TLC, SalesOrders, PointOfSale, Receivables

CONSTANTS o2, h2, s2, x2, conv1, wx, wy, conv2

VARIABLES scene,
  clock, convs, msgs, job, settings, undos, counters, slots, begun, tries, counter,
  reader, overlap, cust, merges, edits, imports, deals, tasks, conversions, raced,
  excused, touched

sceneVars == <<scene,
  onHand, order, resv, quote, ar, invoiced, delivering, accepting, releasing, session,
  sale, stock, reserved, books, drawer, invoice, payments, credits, balances, clock,
  convs, msgs, job, settings, undos, counters, slots, begun, tries, counter, reader,
  overlap, cust, merges, edits, imports, deals, tasks, conversions, raced, excused,
  touched>>

WithoutSalesOrders == <<session, sale, stock, reserved, books, drawer, invoice,
                          payments, credits, balances, clock, convs, msgs, job,
                          settings, undos, counters, slots, begun, tries, counter,
                          reader, overlap, cust, merges, edits, imports, deals, tasks,
                          conversions, raced, excused, touched>>
WithoutPointOfSale == <<onHand, order, resv, quote, ar, invoiced, delivering,
                          accepting, releasing, invoice, payments, credits, balances,
                          clock, convs, msgs, job, settings, undos, counters, slots,
                          begun, tries, counter, reader, overlap, cust, merges, edits,
                          imports, deals, tasks, conversions, raced, excused, touched>>
WithoutReceivables == <<onHand, order, resv, quote, ar, invoiced, delivering,
                          accepting, releasing, session, sale, stock, reserved, books,
                          drawer, clock, convs, msgs, job, settings, undos, counters,
                          slots, begun, tries, counter, reader, overlap, cust, merges,
                          edits, imports, deals, tasks, conversions, raced, excused,
                          touched>>
WithoutSupport == <<onHand, order, resv, quote, ar, invoiced, delivering, accepting,
                      releasing, session, sale, stock, reserved, books, drawer,
                      invoice, payments, credits, balances, cust, merges, edits,
                      imports, deals, tasks, conversions, raced, excused, touched>>
WithoutCustomers == <<onHand, order, resv, quote, ar, invoiced, delivering,
                        accepting, releasing, session, sale, stock, reserved, books,
                        drawer, invoice, payments, credits, balances, convs, msgs,
                        settings, undos, counters, slots, begun, tries, counter,
                        reader, overlap>>

SupportDesk == INSTANCE Support WITH
  Conversations <- {conv1}, Workers <- {wx,wy},
  Uses <- {"widget","poll","post","escalate","resolve","reopen","human","message"},
  Switches <- {}, Horizon <- 1, MaxMessages <- 4, MaxUpdates <- 0, Window <- 2,
  Ttl <- 2, DraftTime <- 1, AttemptLimit <- 3, DraftLimit <- 1, OrgLimit <- 1,
  Slots <- 0
SupportReplies == INSTANCE Support WITH
  Conversations <- {conv1,conv2}, Workers <- {wx,wy},
  Uses <- {"widget","message","human"}, Switches <- {"off"}, Horizon <- 2,
  MaxMessages <- 4, MaxUpdates <- 1, Window <- 1, Ttl <- 2, DraftTime <- 1,
  AttemptLimit <- 2, DraftLimit <- 1, OrgLimit <- 1, Slots <- 1
CustomerMerges == INSTANCE Customers WITH
  Known <- <<[who |-> "a", phone |-> None, stop |-> FALSE], [who |-> "b", phone |-> "1", stop |-> TRUE], [who |-> "c", phone |-> None, stop |-> FALSE]>>,
  People <- {}, Files <- {}, Actors <- {}, Workers <- {}, Stages <- {},
  MaxCustomers <- 3, MaxMerges <- 2, MaxEdits <- 1, MaxImports <- 0, MaxDeals <- 0,
  Horizon <- 0
CustomerImports == INSTANCE Customers WITH
  Known <- <<>>, People <- {},
  Files <- {<<[who |-> "a", allow |-> FALSE], [who |-> "b", allow |-> FALSE]>>, <<[who |-> "b", allow |-> FALSE]>>},
  Actors <- {"u1"}, Workers <- {"w1","w2"}, Stages <- {}, MaxCustomers <- 2,
  MaxMerges <- 0, MaxEdits <- 1, MaxImports <- 2, MaxDeals <- 0, Horizon <- 1
CustomerLeads == INSTANCE Customers WITH
  Known <- <<[who |-> "a", phone |-> None, stop |-> FALSE]>>, People <- {},
  Files <- {}, Actors <- {}, Workers <- {}, Stages <- {"won"}, MaxCustomers <- 2,
  MaxMerges <- 0, MaxEdits <- 0, MaxImports <- 0, MaxDeals <- 2, Horizon <- 1

\* The servers that answer are interchangeable; no other scene has them.
Servers == Permutations({wx, wy})

\* The bounds of the scenes of SalesOrders: two orders of one line and a hold for
\* one item; one order of two lines and two holds; a quote, two orders and a
\* service.
SalesBounds ==
  /\ \A lines \in {order[o].lines : o \in Orders} \cup {quote[q].lines : q \in Quotes} :
       /\ scene # "SalesOrderLines" => Len(lines) <= 1
       /\ \A l \in DOMAIN lines : IF scene = "SalesQuotes" THEN lines[l].qty = 1
                                  ELSE lines[l].item \notin Services
  /\ IF scene = "SalesQuotes"
     THEN (\A h \in Holds : resv[h].status = "none") /\ \A i \in Items : onHand[i] <= 1
     ELSE \A q \in Quotes : quote[q].status = "none"
  /\ scene = "SalesOrders" => resv[h2].status = "none"
  /\ scene = "SalesOrderLines" => order[o2].status = "none"

\* Those of PointOfSale: one shift, a sale of any quantity at prices that do not
\* divide and a sale of one part, beside orders that reserve; two shifts with sales
\* of one part each.
TillBounds ==
  /\ \A x \in Sales : \A l \in DOMAIN sale[x].lines :
       /\ x = x2 => sale[x].lines[l].qty = 1
       /\ scene = "PosShifts" => sale[x].lines[l].qty = 1 /\ sale[x].lines[l].price = 3
  /\ IF scene = "PosShifts" THEN \A i \in Goods : reserved[i] = 0
     ELSE session[s2].status = "none"

\* Those of Receivables: an invoice in the organization's currency, with and without
\* tax, paid and credited in parts; one in either currency at rates that round.
ReceivablesBounds ==
  IF scene = "ReceivablesBase"
  THEN /\ \A i \in Invoices : invoice[i].currency = Base
       /\ \A n \in DOMAIN payments : payments[n].amount # 3
       /\ \A n \in DOMAIN credits : credits[n].amount # 3
  ELSE /\ \A i \in Invoices : invoice[i].total \in {0, 3} /\ invoice[i].tax = 0
       /\ Len(credits) <= 1

\* A variable that the component of the scene does not have is None.
SceneInit ==
  \/ /\ \/ scene = "SalesOrders" /\ Init /\ SalesBounds
        \/ scene = "SalesOrderLines" /\ Init /\ SalesBounds
        \/ scene = "SalesQuotes" /\ Init /\ SalesBounds
     /\ session = None /\ sale = None /\ stock = None /\ reserved = None /\
        books = None /\ drawer = None /\ invoice = None /\ payments = None /\
        credits = None /\ balances = None /\ clock = None /\ convs = None /\
        msgs = None /\ job = None /\ settings = None /\ undos = None /\
        counters = None /\ slots = None /\ begun = None /\ tries = None /\
        counter = None /\ reader = None /\ overlap = None /\ cust = None /\
        merges = None /\ edits = None /\ imports = None /\ deals = None /\
        tasks = None /\ conversions = None /\ raced = None /\ excused = None /\
        touched = None
  \/ /\ \/ scene = "PosSales" /\ TillInit /\ TillBounds
        \/ scene = "PosShifts" /\ TillInit /\ TillBounds
     /\ onHand = None /\ order = None /\ resv = None /\ quote = None /\ ar = None /\
        invoiced = None /\ delivering = None /\ accepting = None /\ releasing = None /\
        invoice = None /\ payments = None /\ credits = None /\ balances = None /\
        clock = None /\ convs = None /\ msgs = None /\ job = None /\ settings = None /\
        undos = None /\ counters = None /\ slots = None /\ begun = None /\
        tries = None /\ counter = None /\ reader = None /\ overlap = None /\
        cust = None /\ merges = None /\ edits = None /\ imports = None /\
        deals = None /\ tasks = None /\ conversions = None /\ raced = None /\
        excused = None /\ touched = None
  \/ /\ \/ scene = "ReceivablesBase" /\ ReceivablesInit /\ ReceivablesBounds
        \/ scene = "ReceivablesForeign" /\ ReceivablesInit /\ ReceivablesBounds
     /\ onHand = None /\ order = None /\ resv = None /\ quote = None /\ ar = None /\
        invoiced = None /\ delivering = None /\ accepting = None /\ releasing = None /\
        session = None /\ sale = None /\ stock = None /\ reserved = None /\
        books = None /\ drawer = None /\ clock = None /\ convs = None /\ msgs = None /\
        job = None /\ settings = None /\ undos = None /\ counters = None /\
        slots = None /\ begun = None /\ tries = None /\ counter = None /\
        reader = None /\ overlap = None /\ cust = None /\ merges = None /\
        edits = None /\ imports = None /\ deals = None /\ tasks = None /\
        conversions = None /\ raced = None /\ excused = None /\ touched = None
  \/ /\ \/ scene = "SupportDesk" /\ SupportDesk!Init
        \/ scene = "SupportReplies" /\ SupportReplies!Init
     /\ onHand = None /\ order = None /\ resv = None /\ quote = None /\ ar = None /\
        invoiced = None /\ delivering = None /\ accepting = None /\ releasing = None /\
        session = None /\ sale = None /\ stock = None /\ reserved = None /\
        books = None /\ drawer = None /\ invoice = None /\ payments = None /\
        credits = None /\ balances = None /\ cust = None /\ merges = None /\
        edits = None /\ imports = None /\ deals = None /\ tasks = None /\
        conversions = None /\ raced = None /\ excused = None /\ touched = None
  \/ /\ \/ scene = "CustomerMerges" /\ CustomerMerges!Init
        \/ scene = "CustomerImports" /\ CustomerImports!Init
        \/ scene = "CustomerLeads" /\ CustomerLeads!Init
     /\ onHand = None /\ order = None /\ resv = None /\ quote = None /\ ar = None /\
        invoiced = None /\ delivering = None /\ accepting = None /\ releasing = None /\
        session = None /\ sale = None /\ stock = None /\ reserved = None /\
        books = None /\ drawer = None /\ invoice = None /\ payments = None /\
        credits = None /\ balances = None /\ convs = None /\ msgs = None /\
        settings = None /\ undos = None /\ counters = None /\ slots = None /\
        begun = None /\ tries = None /\ counter = None /\ reader = None /\
        overlap = None

SceneNext ==
  \/ scene = "SalesOrders" /\ Next /\ UNCHANGED <<scene, WithoutSalesOrders>> /\ SalesBounds'
  \/ scene = "SalesOrderLines" /\ Next /\ UNCHANGED <<scene, WithoutSalesOrders>> /\ SalesBounds'
  \/ scene = "SalesQuotes" /\ Next /\ UNCHANGED <<scene, WithoutSalesOrders>> /\ SalesBounds'
  \/ scene = "PosSales" /\ TillNext /\ UNCHANGED <<scene, WithoutPointOfSale>> /\ TillBounds'
  \/ scene = "PosShifts" /\ TillNext /\ UNCHANGED <<scene, WithoutPointOfSale>> /\ TillBounds'
  \/ scene = "ReceivablesBase" /\ ReceivablesNext /\ UNCHANGED <<scene, WithoutReceivables>> /\ ReceivablesBounds'
  \/ scene = "ReceivablesForeign" /\ ReceivablesNext /\ UNCHANGED <<scene, WithoutReceivables>> /\ ReceivablesBounds'
  \/ scene = "SupportDesk" /\ SupportDesk!Next /\ UNCHANGED <<scene, WithoutSupport>>
  \/ scene = "SupportReplies" /\ SupportReplies!Next /\ UNCHANGED <<scene, WithoutSupport>>
  \/ scene = "CustomerMerges" /\ CustomerMerges!Next /\ UNCHANGED <<scene, WithoutCustomers>>
  \/ scene = "CustomerImports" /\ CustomerImports!Next /\ UNCHANGED <<scene, WithoutCustomers>>
  \/ scene = "CustomerLeads" /\ CustomerLeads!Next /\ UNCHANGED <<scene, WithoutCustomers>>

SceneSpec == SceneInit /\ [][SceneNext]_sceneVars

-----------------------------------------------------------------------------
\* Whoever is served: a support conversation is answered only while it is open,
\* drafts are bounded, the transcript and the tickets are true; a customer record
\* keeps its consent through merges and their undoing, and an import undoes only
\* what it made (support.go, crm_writes.go, crm_deals.go).
CustomersAreRespected ==
  /\ scene = "SupportDesk" => SupportDesk!SupportKeepsFaith
  /\ scene = "SupportReplies" => SupportReplies!SupportKeepsFaith
  /\ scene = "CustomerMerges" => CustomerMerges!CustomersAreKept
  /\ scene = "CustomerImports" => CustomerImports!CustomersAreKept
  /\ scene = "CustomerLeads" => CustomerLeads!CustomersAreKept

\* Whatever holds, confirmations, deliveries, cancellations and quotations
\* interleave: stock stays real, what is invoiced was shipped, the open
\* reservations are those of the open lines, and a quotation becomes at most one
\* order or invoice (confirmOrder, deliverOrder, cancelOrder, acceptQuote).
SalesKeepTheirWord ==
  scene \in {"SalesOrders", "SalesOrderLines", "SalesQuotes"}
    => OrdersKeepTheirWord

\* Promising stock never takes open reservations over what is on hand: repeated
\* lines of one order, other orders and manual holds share one budget per item
\* (salesConfirmOrder, inventoryReserveStock).
SalesAreBacked ==
  [][(scene \in {"SalesOrders", "SalesOrderLines"})
    => PromisesAreBacked]_sceneVars

\* However sales, partial returns, shifts and reservations interleave, refunds add
\* up to what was sold, and the books, the stock and the drawer agree with the
\* sales (completeSale, returnSale, closeSession).
RegistersAreTrue == scene \in {"PosSales", "PosShifts"}
    => TillIsTrue

\* Invoices, the accounts, the foreign settlements, the statuses and the customer
\* statement tell one story, however invoices are paid, credited and reversed in
\* parts and in two currencies (recordPayment, reversePayment, creditNote).
InvoicesReconcile ==
  scene \in {"ReceivablesBase", "ReceivablesForeign"}
    => ReceivablesReconcile

\* A delivery ships from what was promised to its own order, so it never leaves
\* the promises made to others without stock: whoever commits first owns the
\* stock, and a delivery whose reservation vanished is refused.
DeliveriesKeepPromises ==
  [][scene = "SalesOrders" => DeliveryKeepsPromises]_sceneVars

=============================================================================
