---------------------------- MODULE GoodsAndMoney ----------------------------
(***************************************************************************)
(* Goods and money, for TLC: each behaviour is one of a single component   *)
(* on one small instance, the scene.                                       *)
(***************************************************************************)
EXTENDS Integers, Sequences, FiniteSets

CONSTANTS i1, locA, locB, t1, t2, Nowhere, None, t3, i2, c1, w1, w2, w3, Done, p1, p2, r1, r2,
  v1, v2, o1, o2, l1, l2, b1, c2, b2, steel, sub, fin, order1, bx, bz, item_p, item_q,
  item_r, item_s

VARIABLES scene,
  balance, moves, external, transfer, count, clock, writer, ledger, entries, poster,
  reverser, closed, active, request, rfq, order, billed, bills, onHand, used, bill,
  payments, run, reading, credits, books, bom, defining, build, runs, stock, sold,
  raced, lines, allocs, claims, policy, job, versions, orders, today, ticked,
  unmatched, exposure, revals, closings, overtaken, docs, foreign, returns, filings

vars == <<scene,
  balance, moves, external, transfer, count, clock, writer, ledger, entries, poster,
  reverser, closed, active, request, rfq, order, billed, bills, onHand, used, bill,
  payments, run, reading, credits, books, bom, defining, build, runs, stock, sold,
  raced, lines, allocs, claims, policy, job, versions, orders, today, ticked,
  unmatched, exposure, revals, closings, overtaken, docs, foreign, returns, filings>>

WithoutStock == <<clock, writer, ledger, entries, poster, reverser, closed, active,
                    request, rfq, order, billed, bills, onHand, used, bill, payments,
                    run, reading, credits, books, bom, defining, build, runs, stock,
                    sold, raced, lines, allocs, claims, policy, job, versions, orders,
                    today, ticked, unmatched, exposure, revals, closings, overtaken,
                    docs, foreign, returns, filings>>
WithoutStockValuation == <<balance, moves, external, transfer, count, active,
                             request, rfq, order, billed, bills, onHand, used, bill,
                             payments, run, reading, credits, books, bom, defining,
                             build, runs, stock, sold, raced, lines, allocs, claims,
                             policy, job, versions, orders, today, ticked, unmatched,
                             exposure, revals, closings, overtaken, docs, foreign,
                             returns, filings>>
WithoutProcurement == <<balance, moves, external, transfer, count, clock, writer,
                          ledger, entries, poster, reverser, closed, bill, payments,
                          run, reading, credits, books, bom, defining, build, runs,
                          stock, sold, raced, lines, allocs, claims, policy, job,
                          versions, orders, today, ticked, unmatched, exposure, revals,
                          closings, overtaken, docs, foreign, returns, filings>>
WithoutPayables == <<balance, moves, external, transfer, count, clock, writer,
                       ledger, entries, poster, reverser, closed, active, request, rfq,
                       order, billed, bills, onHand, used, bom, defining, build, runs,
                       stock, sold, raced, lines, allocs, claims, policy, job,
                       versions, orders, today, ticked, unmatched, exposure, revals,
                       closings, overtaken, docs, foreign, returns, filings>>
WithoutManufacturing == <<balance, moves, external, transfer, count, clock, writer,
                            ledger, entries, poster, reverser, closed, active, request,
                            rfq, billed, onHand, used, bill, payments, run, reading,
                            credits, books, lines, allocs, claims, policy, job,
                            versions, orders, today, ticked, unmatched, exposure,
                            revals, closings, overtaken, docs, foreign, returns,
                            filings>>
WithoutTreasury == <<balance, moves, external, transfer, count, clock, writer,
                       ledger, entries, poster, reverser, closed, active, request, rfq,
                       order, billed, bills, onHand, used, bill, payments, run,
                       reading, credits, books, bom, defining, build, stock, sold,
                       versions, orders, today, ticked, unmatched, exposure, revals,
                       closings, overtaken, docs, foreign, returns, filings>>
WithoutBudgets == <<balance, moves, external, transfer, count, clock, writer, ledger,
                      poster, reverser, closed, active, request, rfq, order, billed,
                      onHand, used, bill, payments, run, reading, credits, books, bom,
                      defining, build, runs, stock, sold, raced, lines, allocs, claims,
                      policy, job, today, ticked, unmatched, exposure, revals,
                      closings, overtaken, docs, foreign, returns, filings>>
WithoutGeneralLedger == <<balance, moves, external, transfer, count, clock, writer,
                            ledger, poster, reverser, active, request, rfq, order,
                            billed, bills, onHand, used, bill, payments, run, reading,
                            credits, books, bom, defining, build, runs, stock, sold,
                            raced, lines, allocs, claims, policy, job, versions,
                            orders, docs, foreign, returns, filings>>
WithoutTaxFiling == <<balance, moves, external, transfer, count, clock, writer,
                        ledger, entries, poster, reverser, closed, active, request,
                        rfq, order, billed, bills, onHand, used, bill, payments, run,
                        reading, credits, books, bom, defining, build, runs, stock,
                        sold, raced, lines, allocs, claims, policy, job, versions,
                        orders, today, ticked, unmatched, exposure, revals, closings,
                        overtaken>>

StockTransfers == INSTANCE Stock WITH
  Items <- {i1}, Locations <- {locA, locB}, Transfers <- {t1, t2}, Counts <- {},
  MaxQty <- 2, MaxMoves <- 6
StockReversals == INSTANCE Stock WITH
  Items <- {i1}, Locations <- {locA, locB}, Transfers <- {t1, t2, t3}, Counts <- {},
  MaxQty <- 1, MaxMoves <- 6
StockCounts == INSTANCE Stock WITH
  Items <- {i1, i2}, Locations <- {locA}, Transfers <- {}, Counts <- {c1}, MaxQty <- 1,
  MaxMoves <- 2
StockValue == INSTANCE StockValuation WITH
  Writers <- {w1,w2,w3}, Posters <- {}, Reversers <- {}, Unit <- 2, MaxQty <- 3,
  Costs <- {1,3}
StockSummary == INSTANCE StockValuation WITH
  Writers <- {w1,w2}, Posters <- {p1,p2}, Reversers <- {r1}, Unit <- 2, MaxQty <- 2,
  Costs <- {1,3}
ProcureRequests == INSTANCE Procurement WITH
  Requests <- {r1,r2}, Vendors <- {v1,v2}, Orders <- {o1,o2}, Lines <- {l1},
  Goods <- {}, MaxQty <- 1, Prices <- {1}, MaxReceipts <- 0, MaxBills <- 0,
  MaxUse <- 0, Tolerances <- {0}
ProcureReceipts == INSTANCE Procurement WITH
  Requests <- {}, Vendors <- {v1}, Orders <- {o1}, Lines <- {l1}, Goods <- {l1},
  MaxQty <- 3, Prices <- {1}, MaxReceipts <- 3, MaxBills <- 2, MaxUse <- 1,
  Tolerances <- {0,50}
ProcureService == INSTANCE Procurement WITH
  Requests <- {}, Vendors <- {v1}, Orders <- {o1}, Lines <- {l1,l2}, Goods <- {l1},
  MaxQty <- 2, Prices <- {50}, MaxReceipts <- 2, MaxBills <- 0, MaxUse <- 0,
  Tolerances <- {0}
PayablesBills == INSTANCE Payables WITH
  Bills <- {b1}, Runs <- {}, Totals <- {3}, Taxes <- {1}, MaxPayments <- 3,
  MaxCredits <- 3, Readers <- {c1,c2}
PayablesRuns == INSTANCE Payables WITH
  Bills <- {b1,b2}, Runs <- {r1}, Totals <- {2}, Taxes <- {0}, MaxPayments <- 3,
  MaxCredits <- 1, Readers <- {c1}
ManufacturingRuns == INSTANCE Manufacturing WITH
  Items <- {steel,sub,fin}, Assemblies <- {sub,fin}, Start <- 3, Orders <- {order1},
  Builders <- {bx,bz}, Scrappy <- {fin}, Bills <- {{steel},{sub,steel}},
  Given <- {<<sub,steel>>,<<fin,sub>>}, Planned <- 2, Scale <- 2, PctScale <- 2,
  MaxDepth <- 4, MaxRuns <- 2, MaxBills <- 1, MaxSold <- 1
ManufacturingBills == INSTANCE Manufacturing WITH
  Items <- {item_p,item_q,item_r,item_s}, Assemblies <- {item_p,item_q,item_r,item_s},
  Start <- 0, Orders <- {}, Builders <- {}, Scrappy <- {},
  Bills <- {{item_p},{item_q},{item_r},{item_s},{item_q,item_s}},
  Given <- {<<item_q,item_r>>,<<item_s,item_p>>}, Planned <- 2, Scale <- 2,
  PctScale <- 2, MaxDepth <- 4, MaxRuns <- 0, MaxBills <- 3, MaxSold <- 0
BankLines == INSTANCE Treasury WITH
  Workers <- {"w1"},
  Feeds <- {{[key |-> 1, amount |-> 3], [key |-> 2, amount |-> 2]}, {[key |-> 2, amount |-> 2]}},
  Receipts <- [pay \in {1, 2} |-> IF pay = 1 THEN 2 ELSE 3],
  Postings <- [post \in {<<"entry", 1>>} |-> [cash |-> 2, run |-> FALSE]],
  Slices <- {-1, 0, 1}, ClaimAmounts <- {}, Limits <- {-1}, MaxLines <- 2,
  MaxClaims <- 0
BankRaces == INSTANCE Treasury WITH
  Workers <- {"w1", "w2"},
  Feeds <- {{[key |-> 1, amount |-> 2]}, {[key |-> 2, amount |-> -2]}},
  Receipts <- [pay \in {1} |-> 2],
  Postings <- [post \in {<<"entry", 1>>, <<"entry", 2>>} |-> [cash |-> IF post[2] = 1 THEN 2 ELSE -2, run |-> post[2] = 2]],
  Slices <- {0}, ClaimAmounts <- {}, Limits <- {-1}, MaxLines <- 3, MaxClaims <- 0
ExpenseClaims == INSTANCE Treasury WITH
  Workers <- {"w1"},
  Feeds <- {{[key |-> 1, amount |-> -1]}, {[key |-> 2, amount |-> -1]}},
  Receipts <- [pay \in {} |-> 0],
  Postings <- [post \in {} |-> [cash |-> 0, run |-> FALSE]], Slices <- {0},
  ClaimAmounts <- {1, 2}, Limits <- {-1, 1}, MaxLines <- 2, MaxClaims <- 2
BudgetVersions == INSTANCE Budgets WITH
  Months <- {1}, Plans <- {0, 3}, Orders <- {}, BillLines <- {}, MaxVersions <- 5,
  MaxOrders <- 0, MaxBills <- 0
BudgetOrders == INSTANCE Budgets WITH
  Months <- {1, 2}, Plans <- {10}, Orders <- {[quantity |-> 1500, price |-> 5]},
  BillLines <- {[quantity |-> 500, price |-> 5, rate |-> 0, incl |-> FALSE], [quantity |-> 1000, price |-> 10, rate |-> 1000, incl |-> TRUE]},
  MaxVersions <- 1, MaxOrders <- 2, MaxBills <- 2
LedgerYear == INSTANCE GeneralLedger WITH
  Months <- 2, YearLength <- 2, Callers <- {p1,p2}, MaxEntries <- 5, Kinds <- {"year"},
  Events <- {"sale"}
LedgerMonth == INSTANCE GeneralLedger WITH
  Months <- 1, YearLength <- 1, Callers <- {p1}, MaxEntries <- 4,
  Kinds <- {"fx","close"}, Events <- {"sale"}
LedgerStatements == INSTANCE GeneralLedger WITH
  Months <- 2, YearLength <- 2, Callers <- {p1}, MaxEntries <- 3, Kinds <- {"year"},
  Events <- {"sale","cost","purchase","funding","invoicing"}
TaxReturns == INSTANCE TaxFiling WITH
  Windows <- {<<1, 1>>, <<1, 2>>},
  Documents <- {[kind |-> "invoice", day |-> 1, base |-> 2, tax |-> 1], [kind |-> "bill", day |-> 2, base |-> 1, tax |-> 1]},
  MaxDocs <- 2, MaxReturns <- 3, Kinds <- {"returns"}
TaxCreditNotes == INSTANCE TaxFiling WITH
  Windows <- {<<1, 1>>},
  Documents <- {[kind |-> "invoice", day |-> 1, base |-> 2, tax |-> 1], [kind |-> "credit", day |-> 1, base |-> 1, tax |-> 1]},
  MaxDocs <- 3, MaxReturns <- 1, Kinds <- {"returns", "foreign"}

\* A variable that the component of the scene does not have is None.
Init ==
  \/ /\ \/ scene = "StockTransfers" /\ StockTransfers!Init
        \/ scene = "StockReversals" /\ StockReversals!Init
        \/ scene = "StockCounts" /\ StockCounts!Init
     /\ clock = None /\ writer = None /\ ledger = None /\ entries = None /\
        poster = None /\ reverser = None /\ closed = None /\ active = None /\
        request = None /\ rfq = None /\ order = None /\ billed = None /\
        bills = None /\ onHand = None /\ used = None /\ bill = None /\
        payments = None /\ run = None /\ reading = None /\ credits = None /\
        books = None /\ bom = None /\ defining = None /\ build = None /\ runs = None /\
        stock = None /\ sold = None /\ raced = None /\ lines = None /\ allocs = None /\
        claims = None /\ policy = None /\ job = None /\ versions = None /\
        orders = None /\ today = None /\ ticked = None /\ unmatched = None /\
        exposure = None /\ revals = None /\ closings = None /\ overtaken = None /\
        docs = None /\ foreign = None /\ returns = None /\ filings = None
  \/ /\ \/ scene = "StockValue" /\ StockValue!Init
        \/ scene = "StockSummary" /\ StockSummary!Init
     /\ balance = None /\ moves = None /\ external = None /\ transfer = None /\
        count = None /\ active = None /\ request = None /\ rfq = None /\
        order = None /\ billed = None /\ bills = None /\ onHand = None /\
        used = None /\ bill = None /\ payments = None /\ run = None /\
        reading = None /\ credits = None /\ books = None /\ bom = None /\
        defining = None /\ build = None /\ runs = None /\ stock = None /\
        sold = None /\ raced = None /\ lines = None /\ allocs = None /\
        claims = None /\ policy = None /\ job = None /\ versions = None /\
        orders = None /\ today = None /\ ticked = None /\ unmatched = None /\
        exposure = None /\ revals = None /\ closings = None /\ overtaken = None /\
        docs = None /\ foreign = None /\ returns = None /\ filings = None
  \/ /\ \/ scene = "ProcureRequests" /\ ProcureRequests!Init
        \/ scene = "ProcureReceipts" /\ ProcureReceipts!Init
        \/ scene = "ProcureService" /\ ProcureService!Init
     /\ balance = None /\ moves = None /\ external = None /\ transfer = None /\
        count = None /\ clock = None /\ writer = None /\ ledger = None /\
        entries = None /\ poster = None /\ reverser = None /\ closed = None /\
        bill = None /\ payments = None /\ run = None /\ reading = None /\
        credits = None /\ books = None /\ bom = None /\ defining = None /\
        build = None /\ runs = None /\ stock = None /\ sold = None /\ raced = None /\
        lines = None /\ allocs = None /\ claims = None /\ policy = None /\
        job = None /\ versions = None /\ orders = None /\ today = None /\
        ticked = None /\ unmatched = None /\ exposure = None /\ revals = None /\
        closings = None /\ overtaken = None /\ docs = None /\ foreign = None /\
        returns = None /\ filings = None
  \/ /\ \/ scene = "PayablesBills" /\ PayablesBills!Init
        \/ scene = "PayablesRuns" /\ PayablesRuns!Init
     /\ balance = None /\ moves = None /\ external = None /\ transfer = None /\
        count = None /\ clock = None /\ writer = None /\ ledger = None /\
        entries = None /\ poster = None /\ reverser = None /\ closed = None /\
        active = None /\ request = None /\ rfq = None /\ order = None /\
        billed = None /\ bills = None /\ onHand = None /\ used = None /\ bom = None /\
        defining = None /\ build = None /\ runs = None /\ stock = None /\
        sold = None /\ raced = None /\ lines = None /\ allocs = None /\
        claims = None /\ policy = None /\ job = None /\ versions = None /\
        orders = None /\ today = None /\ ticked = None /\ unmatched = None /\
        exposure = None /\ revals = None /\ closings = None /\ overtaken = None /\
        docs = None /\ foreign = None /\ returns = None /\ filings = None
  \/ /\ \/ scene = "ManufacturingRuns" /\ ManufacturingRuns!Init
        \/ scene = "ManufacturingBills" /\ ManufacturingBills!Init
     /\ balance = None /\ moves = None /\ external = None /\ transfer = None /\
        count = None /\ clock = None /\ writer = None /\ ledger = None /\
        entries = None /\ poster = None /\ reverser = None /\ closed = None /\
        active = None /\ request = None /\ rfq = None /\ billed = None /\
        onHand = None /\ used = None /\ bill = None /\ payments = None /\ run = None /\
        reading = None /\ credits = None /\ books = None /\ lines = None /\
        allocs = None /\ claims = None /\ policy = None /\ job = None /\
        versions = None /\ orders = None /\ today = None /\ ticked = None /\
        unmatched = None /\ exposure = None /\ revals = None /\ closings = None /\
        overtaken = None /\ docs = None /\ foreign = None /\ returns = None /\
        filings = None
  \/ /\ \/ scene = "BankLines" /\ BankLines!Init
        \/ scene = "BankRaces" /\ BankRaces!Init
        \/ scene = "ExpenseClaims" /\ ExpenseClaims!Init
     /\ balance = None /\ moves = None /\ external = None /\ transfer = None /\
        count = None /\ clock = None /\ writer = None /\ ledger = None /\
        entries = None /\ poster = None /\ reverser = None /\ closed = None /\
        active = None /\ request = None /\ rfq = None /\ order = None /\
        billed = None /\ bills = None /\ onHand = None /\ used = None /\ bill = None /\
        payments = None /\ run = None /\ reading = None /\ credits = None /\
        books = None /\ bom = None /\ defining = None /\ build = None /\
        stock = None /\ sold = None /\ versions = None /\ orders = None /\
        today = None /\ ticked = None /\ unmatched = None /\ exposure = None /\
        revals = None /\ closings = None /\ overtaken = None /\ docs = None /\
        foreign = None /\ returns = None /\ filings = None
  \/ /\ \/ scene = "BudgetVersions" /\ BudgetVersions!Init
        \/ scene = "BudgetOrders" /\ BudgetOrders!Init
     /\ balance = None /\ moves = None /\ external = None /\ transfer = None /\
        count = None /\ clock = None /\ writer = None /\ ledger = None /\
        poster = None /\ reverser = None /\ closed = None /\ active = None /\
        request = None /\ rfq = None /\ order = None /\ billed = None /\
        onHand = None /\ used = None /\ bill = None /\ payments = None /\ run = None /\
        reading = None /\ credits = None /\ books = None /\ bom = None /\
        defining = None /\ build = None /\ runs = None /\ stock = None /\
        sold = None /\ raced = None /\ lines = None /\ allocs = None /\
        claims = None /\ policy = None /\ job = None /\ today = None /\
        ticked = None /\ unmatched = None /\ exposure = None /\ revals = None /\
        closings = None /\ overtaken = None /\ docs = None /\ foreign = None /\
        returns = None /\ filings = None
  \/ /\ \/ scene = "LedgerYear" /\ LedgerYear!Init
        \/ scene = "LedgerMonth" /\ LedgerMonth!Init
        \/ scene = "LedgerStatements" /\ LedgerStatements!Init
     /\ balance = None /\ moves = None /\ external = None /\ transfer = None /\
        count = None /\ clock = None /\ writer = None /\ ledger = None /\
        poster = None /\ reverser = None /\ active = None /\ request = None /\
        rfq = None /\ order = None /\ billed = None /\ bills = None /\ onHand = None /\
        used = None /\ bill = None /\ payments = None /\ run = None /\
        reading = None /\ credits = None /\ books = None /\ bom = None /\
        defining = None /\ build = None /\ runs = None /\ stock = None /\
        sold = None /\ raced = None /\ lines = None /\ allocs = None /\
        claims = None /\ policy = None /\ job = None /\ versions = None /\
        orders = None /\ docs = None /\ foreign = None /\ returns = None /\
        filings = None
  \/ /\ \/ scene = "TaxReturns" /\ TaxReturns!Init
        \/ scene = "TaxCreditNotes" /\ TaxCreditNotes!Init
     /\ balance = None /\ moves = None /\ external = None /\ transfer = None /\
        count = None /\ clock = None /\ writer = None /\ ledger = None /\
        entries = None /\ poster = None /\ reverser = None /\ closed = None /\
        active = None /\ request = None /\ rfq = None /\ order = None /\
        billed = None /\ bills = None /\ onHand = None /\ used = None /\ bill = None /\
        payments = None /\ run = None /\ reading = None /\ credits = None /\
        books = None /\ bom = None /\ defining = None /\ build = None /\ runs = None /\
        stock = None /\ sold = None /\ raced = None /\ lines = None /\ allocs = None /\
        claims = None /\ policy = None /\ job = None /\ versions = None /\
        orders = None /\ today = None /\ ticked = None /\ unmatched = None /\
        exposure = None /\ revals = None /\ closings = None /\ overtaken = None

Next ==
  \/ scene = "StockTransfers" /\ StockTransfers!Next /\ UNCHANGED <<scene, WithoutStock>>
  \/ scene = "StockReversals" /\ StockReversals!Next /\ UNCHANGED <<scene, WithoutStock>>
  \/ scene = "StockCounts" /\ StockCounts!Next /\ UNCHANGED <<scene, WithoutStock>>
  \/ scene = "StockValue" /\ StockValue!Next /\ UNCHANGED <<scene, WithoutStockValuation>>
  \/ scene = "StockSummary" /\ StockSummary!Next /\ UNCHANGED <<scene, WithoutStockValuation>>
  \/ scene = "ProcureRequests" /\ ProcureRequests!Next /\ UNCHANGED <<scene, WithoutProcurement>>
  \/ scene = "ProcureReceipts" /\ ProcureReceipts!Next /\ UNCHANGED <<scene, WithoutProcurement>>
  \/ scene = "ProcureService" /\ ProcureService!Next /\ UNCHANGED <<scene, WithoutProcurement>>
  \/ scene = "PayablesBills" /\ PayablesBills!Next /\ UNCHANGED <<scene, WithoutPayables>>
  \/ scene = "PayablesRuns" /\ PayablesRuns!Next /\ UNCHANGED <<scene, WithoutPayables>>
  \/ scene = "ManufacturingRuns" /\ ManufacturingRuns!Next /\ UNCHANGED <<scene, WithoutManufacturing>>
  \/ scene = "ManufacturingBills" /\ ManufacturingBills!Next /\ UNCHANGED <<scene, WithoutManufacturing>>
  \/ scene = "BankLines" /\ BankLines!Next /\ UNCHANGED <<scene, WithoutTreasury>>
  \/ scene = "BankRaces" /\ BankRaces!Next /\ UNCHANGED <<scene, WithoutTreasury>>
  \/ scene = "ExpenseClaims" /\ ExpenseClaims!Next /\ UNCHANGED <<scene, WithoutTreasury>>
  \/ scene = "BudgetVersions" /\ BudgetVersions!Next /\ UNCHANGED <<scene, WithoutBudgets>>
  \/ scene = "BudgetOrders" /\ BudgetOrders!Next /\ UNCHANGED <<scene, WithoutBudgets>>
  \/ scene = "LedgerYear" /\ LedgerYear!Next /\ UNCHANGED <<scene, WithoutGeneralLedger>>
  \/ scene = "LedgerMonth" /\ LedgerMonth!Next /\ UNCHANGED <<scene, WithoutGeneralLedger>>
  \/ scene = "LedgerStatements" /\ LedgerStatements!Next /\ UNCHANGED <<scene, WithoutGeneralLedger>>
  \/ scene = "TaxReturns" /\ TaxReturns!Next /\ UNCHANGED <<scene, WithoutTaxFiling>>
  \/ scene = "TaxCreditNotes" /\ TaxCreditNotes!Next /\ UNCHANGED <<scene, WithoutTaxFiling>>

Spec == Init /\ [][Next]_vars

-----------------------------------------------------------------------------
\* Every unit on hand is explained: by the movements of its item, and for a
\* produced or consumed item by the production runs that stand, each order counting
\* its own; a bill of materials is a cycle only after a race; and the value of the
\* stock follows it to zero and is what the summaries that stand have posted
\* (inventory_stock.go, inventory_valuation.go, manufacturing_work_orders.go,
\* manufacturing_bom.go).
GoodsAreAccountedFor ==
  /\ scene = "StockTransfers" => StockTransfers!MovementsAddUp
  /\ scene = "StockReversals" => StockReversals!MovementsAddUp
  /\ scene = "StockCounts" => StockCounts!MovementsAddUp
  /\ scene = "StockValue" => StockValue!ValueFollowsStock
  /\ scene = "StockSummary" => StockSummary!ValueFollowsStock
  /\ scene = "ManufacturingRuns" => ManufacturingRuns!ProductionIsSound
  /\ scene = "ManufacturingBills" => ManufacturingBills!ProductionIsSound

\* The bank explains the books, and the budget shows what it should: every matched
\* statement line is backed by the payments or entries it claims, reports follow the
\* lines, a budget has one current version and hides no overspending
\* (banking_reconciliation.go, accounting_budgets.go).
MoneyIsExplained ==
  /\ scene = "BankLines" => BankLines!BankMatchesBooks
  /\ scene = "BankRaces" => BankRaces!BankMatchesBooks
  /\ scene = "ExpenseClaims" => ExpenseClaims!BankMatchesBooks
  /\ scene = "BudgetVersions" => BudgetVersions!BudgetIsHonest
  /\ scene = "BudgetOrders" => BudgetOrders!BudgetIsHonest

\* The books balance, stay sealed where they were closed and are reversed once; the
\* tax returns settle each window once and their settlements add up
\* (accounting.go, accounting_period_close.go, accounting_tax_returns.go).
BooksAndTaxAreSound ==
  /\ scene = "LedgerYear" => LedgerYear!BooksAreSound
  /\ scene = "LedgerMonth" => LedgerMonth!BooksAreSound
  /\ scene = "LedgerStatements" => LedgerStatements!BooksAreSound
  /\ scene = "TaxReturns" => TaxReturns!TaxIsSettledOnce

\* Posting a count leaves the books at what was counted, however long ago the
\* count was opened and whatever moved meanwhile: a stale variance is refused
\* (inventoryPostCycleCount).
CountMakesTrue ==
  [][scene = "StockCounts" => StockCounts!CountMakesTrue]_vars

\* Overlapping summaries may book one variance twice, and a movement or a
\* reversal between the reads leaves a wrong figure; a summary during which
\* nothing is committed repairs all of it: the account is worth what the ledger
\* is until the next movement, summary or reversal
\* (inventoryPostValuationSummary).
SummaryRepairs == scene = "StockSummary" => StockSummary!SummaryRepairs

\* One award per request; what was received, refused, returned and billed stays
\* within the order and its authority, and the order's status says so
\* (selectWinningQuote, receiveGoods, returnGoods, createBill).
OrdersAreHonoured ==
  /\ scene = "ProcureRequests" => ProcureRequests!OrdersAreHonoured
  /\ scene = "ProcureReceipts" => ProcureReceipts!OrdersAreHonoured
  /\ scene = "ProcureService" => ProcureService!OrdersAreHonoured

\* Bills, payments, runs, the accounts and the reports tell one story, however
\* bills are paid, credited, reversed and paid in runs, and whatever a caller read
\* before it had the lock (payBill, reverseVendorPayment, instructPaymentRun).
PayablesReconcile ==
  /\ scene = "PayablesBills" => PayablesBills!PayablesReconcile
  /\ scene = "PayablesRuns" => PayablesRuns!PayablesReconcile

(* What a step may not do: change a month that is closed before and after, *)
(* close a month whose revaluation no longer stands, or let a roll touch   *)
(* the income statement; and a roll computed from what still holds leaves  *)
(* every nominal account at zero.                                          *)
SealedBooks ==
  [][(scene = "LedgerYear" => LedgerYear!SealedBooks) /\ (scene = "LedgerMonth" => LedgerMonth!SealedBooks)]_vars

\* taxReturnSalesWindow reports "credit notes reducing the reported
\* totals": a window whose rows arrive in any order can be prepared.
CreditNotesReconcile ==
  scene = "TaxCreditNotes" => TaxCreditNotes!CreditNotesReconcile

(* "One reconciled payment or entry belongs to exactly one statement line" *)
(* (docs/adr/0048-bank-matching-equivalence.md), said here of entries.     *)
OneLinePerEntry == scene = "ExpenseClaims" => ExpenseClaims!OneLinePerEntry

=============================================================================
