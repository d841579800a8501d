----------------------------- MODULE RouteTable ------------------------------
(***************************************************************************)
(* What every route of the HTTP API asks of a request before it runs a     *)
(* capability, which capability each of its actions runs, what it does     *)
(* with the caller's idempotency key and how it answers, and what the      *)
(* capabilities' specifications ask in turn.  A capability is a pair       *)
(* <<module, name>>; a guard is a pair <<name, status>>, and a request is  *)
(* refused with the status of the first guard it fails.                    *)
(***************************************************************************)
EXTENDS Naturals, Sequences, TLC

-----------------------------------------------------------------------------
(* The specifications: <<permission, risk, module, names>>.                *)

CoreSpecs ==
  {<<"accounting.post", "money", "accounting", {"payExpenseClaim", "recordPayment", "reversePayment"}>>,
   <<"accounting.post", "write", "accounting", {"recordFxRate"}>>,
   <<"accounting.read", "read", "accounting", {"listQuotes", "listRecurringTemplates"}>>,
   <<"accounting.write", "write", "accounting", {"acceptQuote", "createInvoice", "createQuote",
                                                "createRecurringTemplate", "declineQuote", "expireQuote",
                                                "pauseRecurringTemplate", "resumeRecurringTemplate"}>>,
   <<"crm.read", "read", "crm", {"listCustomerCollection", "listCustomerViews", "listDeals"}>>,
   <<"crm.write", "write", "crm", {"completeTask", "convertLead", "createCustomer", "createDeal",
                                  "createTask", "deactivateCustomer", "importCustomers", "mergeCustomers",
                                  "moveDealStage", "restoreCustomerMerge", "saveCustomerView",
                                  "undoCustomerImport", "updateCustomerProfiles", "updateTaskDetails"}>>,
   <<"documents.read", "read", "documents", {"getDocVersion", "listDocVersions"}>>,
   <<"expenses.decide", "read", "accounting", {"listExpenseClaims", "listExpensePolicies"}>>,
   <<"expenses.decide", "write", "accounting", {"decideExpenseClaim", "setExpensePolicy"}>>,
   <<"expenses.submit", "write", "accounting", {"submitExpenseClaim"}>>,
   <<"hr.read", "read", "hr", {"report"}>>,
   <<"hr.write", "write", "hr", {"deactivateEmployee", "hireEmployee", "updateEmployeeStructure"}>>,
   <<"inventory.read", "read", "inventory", {"listCycleCounts", "listTransfers"}>>,
   <<"inventory.write", "write", "inventory", {"adjustStock", "cancelCycleCount", "cancelTransfer",
                                              "confirmTransfer", "createCycleCount", "createTransfer",
                                              "postCycleCount", "recordCycleCounts", "reverseTransfer"}>>,
   <<"purchasing.post", "money", "purchasing", {"payBill", "reverseVendorPayment"}>>,
   <<"purchasing.write", "money", "purchasing", {"createPurchaseOrder"}>>,
   <<"purchasing.write", "write", "purchasing", {"createBill", "createVendor", "receiveGoods", "returnGoods"}>>,
   <<"sales.read", "read", "sales", {"listOrders"}>>,
   <<"sales.write", "write", "sales", {"cancelOrder", "confirmOrder", "createOrder", "deliverOrder"}>>}
TradeSpecs ==
  {<<"accounting.admin", "destructive", "accounting", {"closePeriod", "closeYear", "reopenPeriod"}>>,
   <<"accounting.admin", "write", "accounting", {"activateTaxCode", "archiveTaxCode", "createTaxCode",
                                                "createTaxProfile", "recordTaxReturnAcknowledgment",
                                                "removeTaxProfile"}>>,
   <<"accounting.post", "money", "accounting", {"creditNote", "fileSalesTaxReturn",
                                               "recordTaxReturnSubmission", "reverseEntry"}>>,
   <<"accounting.read", "read", "accounting", {"budgetActualVsPlan", "listBankingWorkspace",
                                              "listBudgetScenarios", "periodCloseWorkbench"}>>,
   <<"accounting.write", "write", "accounting", {"addBankAccount", "cancelTaxReturnDraft", "createTaxReturn",
                                                "createTaxReturnAmendment", "deleteBankTransaction",
                                                "excludeBankTransaction", "importBankFeed",
                                                "matchBankTransaction", "saveBudgetScenario",
                                                "undoBudgetScenarioVersion", "unexcludeBankTransaction",
                                                "unmatchBankTransaction", "updatePeriodCloseCheck"}>>,
   <<"hr.read", "read", "hr", {"pendingTimeEntries", "timeReport"}>>,
   <<"hr.write", "destructive", "hr", {"reversePayrollPosting", "voidPayrollRun"}>>,
   <<"hr.write", "money", "hr", {"executePayrollRun"}>>,
   <<"hr.write", "write", "hr", {"addApplicant", "cancelLeave", "clockIn", "clockOut", "createPayrollRun",
                                "decideLeave", "decideTimeEntry", "hireApplicant", "logTime",
                                "moveApplicant", "requestLeave"}>>,
   <<"inventory.read", "read", "inventory", {"itemHistory", "listItemMetadata", "listLocationRecords",
                                            "listLots", "listReservations", "lookupByBarcode",
                                            "stockReport"}>>,
   <<"inventory.write", "money", "inventory", {"postValuationSummary", "reverseValuationSummary"}>>,
   <<"inventory.write", "write", "inventory", {"archiveItem", "createItem", "createLocation", "importItems",
                                              "releaseReservation", "reserveStock", "undoItemImport",
                                              "updateItem"}>>,
   <<"pos.read", "read", "pos", {"shiftSummary"}>>,
   <<"pos.sell", "money", "pos", {"completeSale", "returnSale"}>>,
   <<"pos.write", "write", "pos", {"closeSession", "openSession"}>>,
   <<"purchasing.post", "money", "purchasing", {"instructPaymentRun", "reversePaymentRun"}>>,
   <<"purchasing.read", "read", "purchasing", {"listPaymentRuns", "listReceipts"}>>,
   <<"purchasing.write", "money", "purchasing", {"billCreditNote", "selectWinningQuote"}>>,
   <<"purchasing.write", "write", "purchasing", {"cancelPaymentRunDraft", "closePurchaseOrder",
                                                "createPaymentRun", "createPurchaseRequest", "createRfq",
                                                "decidePurchaseRequest", "recordQuote",
                                                "restorePaymentRunDraft"}>>}
PlatformSpecs ==
  {<<"accounting.post", "money", "accounting", {"revalueForeignReceivables"}>>,
   <<"accounting.read", "read", "accounting", {"balanceSheet", "cashFlow", "incomeStatement", "overview",
                                              "reportCurrencyMetadata", "salesTaxReport",
                                              "unrealizedFxExposure"}>>,
   <<"accounting.read", "read", "analytics", {"invoiceAging", "revenueByMonth", "salesByCustomer"}>>,
   <<"analytics.report", "read", "analytics", {"askYourBusiness", "explainChange", "renderReport"}>>,
   <<"crm.read", "read", "analytics", {"pipelineByStage"}>>,
   <<"inventory.read", "read", "analytics", {"stockLevels"}>>,
   <<"hr.write", "write", "hr", {"closeOpening", "createOpening"}>>,
   <<"iam.admin", "destructive", "iam", {"revokeSCIMToken"}>>,
   <<"iam.admin", "identity", "iam", {"assignRole", "createRole", "setModules", "setOrgPolicy",
                                     "updateRolePermissions"}>>,
   <<"iam.admin", "secret", "iam", {"createSCIMToken"}>>,
   <<"iam.admin", "write", "iam", {"inviteMember", "setModuleConfig", "setOrgBranding"}>>,
   <<"manufacturing.read", "read", "manufacturing", {"bomReport", "bomTree", "checkProductionFeasibility",
                                                    "costPreview", "lotTrace", "overviewReport"}>>,
   <<"manufacturing.write", "destructive", "manufacturing", {"deleteBom", "reverseProductionRun"}>>,
   <<"manufacturing.write", "write", "manufacturing", {"cancelWorkOrder", "completeWorkOrder",
                                                      "createWorkOrder", "defineBom", "produceFromBom",
                                                      "releaseWorkOrder"}>>,
   <<"marketing.read", "read", "marketing", {"campaignAnalytics", "overviewSnapshot"}>>,
   <<"marketing.write", "write", "marketing", {"createCampaign", "createSegment", "sendCampaign"}>>,
   <<"projects.read", "read", "projects", {"list", "listBoard"}>>,
   <<"projects.write", "write", "projects", {"archiveProject", "assignTask", "createProject", "createTask",
                                            "moveTask"}>>,
   <<"purchasing.read", "read", "purchasing", {"listWorkspace", "priceHistory", "supplierStatement"}>>,
   <<"routines.read", "read", "routines", {"list"}>>,
   <<"routines.write", "write", "routines", {"create", "delete", "runNow", "update"}>>,
   <<"support.read", "read", "support", {"listConversations", "listLibrary", "readConversation",
                                        "suggestCategory"}>>,
   <<"support.write", "write", "support", {"createCannedResponse", "createKbArticle", "escalateConversation",
                                          "postMessage", "reopenConversation", "resolveConversation",
                                          "startConversation", "updateTicket"}>>}
DocumentSpecs ==
  {<<"documents.read", "read", "documents", {"getDoc", "getTemplate", "listDocuments", "listFolders",
                                            "listTemplates", "searchRecords"}>>,
   <<"documents.write", "destructive", "documents", {"deleteDoc", "deleteDocument", "deleteFolder",
                                                    "deleteOrgMemory", "deleteTemplate"}>>,
   <<"documents.write", "write", "documents", {"allocateNumber", "createDoc", "createDocument",
                                              "createFolder", "createTemplate", "renameFolder",
                                              "restoreDocVersion", "saveDocVersion", "suggestCoding",
                                              "updateDocMetadata"}>>}
SettingsSpecs ==
  {<<"iam.admin", "identity", "iam", {"createSSOConnection", "disableSSOConnection"}>>,
   <<"iam.admin", "secret", "settings", {"configureAiProvider"}>>}
MessagingSpecs ==
  {<<"messaging.read", "read", "messaging", {"listConversations", "listPeople", "readMessages",
                                            "searchMessages"}>>,
   <<"messaging.write", "destructive", "messaging", {"deleteConversation"}>>,
   <<"messaging.write", "secret", "messaging", {"deletePendingAttachment", "uploadMessageAttachment"}>>,
   <<"messaging.write", "write", "messaging", {"addMember", "advanceReadCursor", "archiveConversation",
                                              "createConversation", "deleteMessage", "editMessage",
                                              "leaveConversation", "sendMessage", "setMessagePin",
                                              "setMessageReaction", "updateConversation",
                                              "updateConversationPresence"}>>}

Specs == CoreSpecs \cup TradeSpecs \cup PlatformSpecs \cup DocumentSpecs \cup SettingsSpecs \cup MessagingSpecs

SpecOf(c) == CHOOSE s \in Specs : s[3] = c[1] /\ c[2] \in s[4]
PermissionOf(c) == SpecOf(c)[1]
RiskOf(c) == SpecOf(c)[2]
RequiresActionIntent(c) == RiskOf(c) \in {"money", "destructive", "identity"}
OneTimeOutput == {<<"iam", "createSCIMToken">>}
ApprovalExempt == {<<"messaging", "uploadMessageAttachment">>}
HumanOnly == {<<"crm", "listCustomerCollection">>}

-----------------------------------------------------------------------------
(* Guards.                                                                 *)

Bad(what) == <<what, 400>>
No(what) == <<what, 403>>
Missing(what) == <<what, 404>>
Body == Bad("body")
Action == Bad("action")
Key == Bad("key")
Input == Bad("input")
Origin == No("origin")
May == No("permission")
Module == No("module")
Signed == <<<<"method", 405>>, Bad("selector"), <<"session", 401>>, No("organization")>>
Known == <<<<"method", 405>>, <<"selector", 401>>, <<"session", 401>>, <<"organization", 401>>>>

(* A route answers a filed approval request, a missing permission and a    *)
(* disabled module with these; asks[a] is the permission it looks for      *)
(* itself, free the actions whose key is optional, varies those whose      *)
(* payload differs at each attempt, once those whose answer is not         *)
(* repeated.                                                               *)
On(m, names) == [n \in names |-> <<m, n>>]
Asks(permission, runs) == [a \in DOMAIN runs |-> permission]
Answers(pending, denied, off) == [pending |-> pending, denied |-> denied, off |-> off]
Get(gate, permission, runs, answers) ==
  [gate |-> gate, key |-> "none", runs |-> runs, asks |-> Asks(permission, runs), answers |-> answers]
Nothing == Get(<<>>, "", <<>>, Answers(202, 422, 422))
Post(gate, key, runs, asks, answers, reads) ==
  [gate |-> gate, key |-> key, runs |-> runs, asks |-> asks, answers |-> answers, reads |-> reads,
   free |-> {}, varies |-> {}, once |-> {}]
ReadOnly(reads, answers) == Post(<<>>, "none", <<>>, <<>>, answers, reads)

-----------------------------------------------------------------------------
(* The books.                                                              *)

BudgetsGate == Signed \o <<Origin, May, Body, Action, Key, Input>>
BudgetsAnswers == Answers(202, 422, 422)
BudgetsReads == Get(Signed \o <<May>>, "accounting.read", On("accounting", {"listBudgetScenarios", "budgetActualVsPlan"}), BudgetsAnswers)
BudgetsRuns == ("save" :> <<"accounting", "saveBudgetScenario">>) @@ ("undo" :> <<"accounting", "undoBudgetScenarioVersion">>)
Budgets == Post(BudgetsGate, "required", BudgetsRuns, Asks("accounting.write", BudgetsRuns), BudgetsAnswers, BudgetsReads)

FinanceSession == Signed
FinanceAuthorize == <<May, Module>>
FinanceAnswers == Answers(202, 403, 422)
QuotesGate == FinanceSession \o FinanceAuthorize \o <<Origin>>
QuotesReads == Get(FinanceSession \o FinanceAuthorize, "accounting.read", On("accounting", {"listQuotes"}), Answers(422, 403, 422))
QuotesRuns == ("create" :> <<"accounting", "createQuote">>) @@ ("accept" :> <<"accounting", "acceptQuote">>)
              @@ ("decline" :> <<"accounting", "declineQuote">>) @@ ("expire" :> <<"accounting", "expireQuote">>)
Quotes == Post(QuotesGate \o <<Body, Action, Key, Input>>, "fresh", QuotesRuns, Asks("accounting.write", QuotesRuns),
               FinanceAnswers, QuotesReads)
RecurringReads == Get(FinanceSession \o FinanceAuthorize, "accounting.read", On("accounting", {"listRecurringTemplates"}), Answers(422, 403, 422))
RecurringGate == FinanceSession \o FinanceAuthorize \o <<Origin>>
RecurringRuns == ("create" :> <<"accounting", "createRecurringTemplate">>) @@ ("pause" :> <<"accounting", "pauseRecurringTemplate">>)
                 @@ ("resume" :> <<"accounting", "resumeRecurringTemplate">>)
Recurring == Post(RecurringGate \o <<Body, Action, Key, Input>>, "fresh", RecurringRuns,
                  Asks("accounting.write", RecurringRuns), FinanceAnswers, RecurringReads)
ReportsReads == Get(FinanceSession \o FinanceAuthorize, "accounting.read", On("accounting",
                    {"reportCurrencyMetadata", "incomeStatement", "balanceSheet", "cashFlow", "unrealizedFxExposure"}), Answers(500, 403, 500))
Reports == ReadOnly(ReportsReads, FinanceAnswers)

BankingGate == Signed \o <<Origin>>
BankingReads == Get(Signed, "", On("accounting", {"listBankingWorkspace"}), Answers(500, 500, 500))
BankingRuns == On("accounting", {"addBankAccount", "importBankFeed", "matchBankTransaction", "unmatchBankTransaction",
                                 "excludeBankTransaction", "unexcludeBankTransaction", "deleteBankTransaction"})
BankingAnswers == Answers(202, 422, 422)
Banking == Post(BankingGate \o <<Body, Key, Input>>, "required", BankingRuns, <<>>, BankingAnswers, BankingReads)

AccountingGate == Signed \o <<Module, Origin>>
AccountingRuns == On("accounting", {"closeYear", "reopenPeriod", "recordFxRate", "revalueForeignReceivables", "creditNote",
                                    "recordPayment", "reversePayment", "createInvoice"})
                  @@ ("reverse" :> <<"accounting", "reverseEntry">>)
AccountingAsks == [a \in {"closeYear", "reopenPeriod"} |-> "accounting.admin"]
                  @@ [a \in {"recordFxRate", "revalueForeignReceivables", "reverse", "creditNote", "recordPayment", "reversePayment"} |->
                        "accounting.post"]
                  @@ ("createInvoice" :> "accounting.write")
AccountingAnswers == Answers(202, 422, 422)
AccountingReads == Get(Signed \o <<Module, May>>, "accounting.read", On("accounting", {"overview"}), AccountingAnswers)
Accounting == Post(AccountingGate \o <<Body, Action, May, Key, Input>>, "required", AccountingRuns, AccountingAsks,
                   AccountingAnswers, AccountingReads)

TaxGate == Signed \o <<Origin>>
TaxRuns == ("report" :> <<"accounting", "salesTaxReport">>) @@ ("profile" :> <<"accounting", "createTaxProfile">>)
           @@ ("removeProfile" :> <<"accounting", "removeTaxProfile">>) @@ ("createCode" :> <<"accounting", "createTaxCode">>)
           @@ ("archiveCode" :> <<"accounting", "archiveTaxCode">>) @@ ("activateCode" :> <<"accounting", "activateTaxCode">>)
           @@ ("acknowledge" :> <<"accounting", "recordTaxReturnAcknowledgment">>) @@ ("prepare" :> <<"accounting", "createTaxReturn">>)
           @@ ("amend" :> <<"accounting", "createTaxReturnAmendment">>) @@ ("cancelDraft" :> <<"accounting", "cancelTaxReturnDraft">>)
           @@ ("submit" :> <<"accounting", "recordTaxReturnSubmission">>) @@ ("settle" :> <<"accounting", "fileSalesTaxReturn">>)
TaxAsks == [a \in {"profile", "removeProfile", "createCode", "archiveCode", "activateCode", "acknowledge"} |-> "accounting.admin"]
           @@ [a \in {"prepare", "amend", "cancelDraft"} |-> "accounting.write"]
           @@ [a \in {"submit", "settle"} |-> "accounting.post"] @@ ("report" :> "accounting.read")
Tax == [Post(TaxGate \o <<Body, Action, May, Key, Input>>, "required", TaxRuns, TaxAsks, Answers(202, 422, 422), Nothing) EXCEPT !.free = {"report"}]

PeriodGate == Signed \o <<Origin>>
PeriodAnswers == Answers(202, 422, 422)
PeriodReads == Get(Signed, "", On("accounting", {"periodCloseWorkbench"}), PeriodAnswers)
PeriodRuns == ("checklist" :> <<"accounting", "updatePeriodCloseCheck">>) @@ ("revalue" :> <<"accounting", "revalueForeignReceivables">>)
              @@ ("close" :> <<"accounting", "closePeriod">>) @@ ("reopen" :> <<"accounting", "reopenPeriod">>)
Period == Post(PeriodGate \o <<Body, Key, Action, Input>>, "required", PeriodRuns, <<>>, PeriodAnswers, PeriodReads)

ExpensesGate == Signed \o <<Origin>>
ExpensesReads == Get(Signed, "", On("accounting", {"listExpenseClaims", "listExpensePolicies"}), Answers(500, 403, 422))
ExpensesRuns == ("submit" :> <<"accounting", "submitExpenseClaim">>) @@ ("decide" :> <<"accounting", "decideExpenseClaim">>)
                @@ ("pay" :> <<"accounting", "payExpenseClaim">>) @@ ("setPolicy" :> <<"accounting", "setExpensePolicy">>)
ExpensesAnswers == Answers(202, 403, 422)
Expenses == Post(ExpensesGate \o <<Body, Key, Action, Input>>, "required", ExpensesRuns, <<>>, ExpensesAnswers, ExpensesReads)

-----------------------------------------------------------------------------
(* Selling, buying, making.                                                *)

SalesRuns == ("create" :> <<"sales", "createOrder">>) @@ ("confirm" :> <<"sales", "confirmOrder">>)
             @@ ("deliver" :> <<"sales", "deliverOrder">>) @@ ("cancel" :> <<"sales", "cancelOrder">>)
SalesListed == Get(Signed, "", On("sales", {"listOrders"}), Answers(422, 422, 422))
Sales == Post(FinanceSession \o FinanceAuthorize \o <<Origin, Body, Action, Key, Input>>, "fresh", SalesRuns,
              Asks("sales.write", SalesRuns), FinanceAnswers, SalesListed)

InventoryGate == FinanceSession \o <<Origin, Body, Action, May, Module, Key, Input>>
InventoryRuns == On("inventory", {"createItem", "updateItem", "archiveItem", "createLocation", "adjustStock", "reserveStock",
                                  "releaseReservation", "createCycleCount", "recordCycleCounts", "postCycleCount", "cancelCycleCount",
                                  "lookupByBarcode", "createTransfer", "confirmTransfer", "cancelTransfer", "reverseTransfer",
                                  "postValuationSummary", "reverseValuationSummary"})
                 @@ ("stockHistory" :> <<"inventory", "itemHistory">>) @@ ("startCycleCount" :> <<"inventory", "createCycleCount">>)
InventoryAsks == [a \in {"lookupByBarcode", "stockHistory"} |-> "inventory.read"] @@ Asks("inventory.write", InventoryRuns)
InventoryCatalog == On("inventory", {"stockReport", "listItemMetadata", "listLocationRecords", "listReservations", "listCycleCounts",
                                     "listLots", "listTransfers"})
InventoryReads == Get(Signed \o <<May, Module>>, "inventory.read", On("inventory", {"itemHistory"}) @@ InventoryCatalog, Answers(403, 403, 403))
Inventory == Post(InventoryGate, "fresh", InventoryRuns, InventoryAsks, FinanceAnswers, InventoryReads)

PosGate == Signed \o <<Origin>>
PosRuns == ("open" :> <<"pos", "openSession">>) @@ ("sale" :> <<"pos", "completeSale">>) @@ ("close" :> <<"pos", "closeSession">>)
           @@ ("returnSale" :> <<"pos", "returnSale">>) @@ ("shiftSummary" :> <<"pos", "shiftSummary">>)
Pos == [Post(PosGate \o <<Body, Action, Key, Input>>, "required", PosRuns, <<>>, Answers(202, 403, 422), Nothing)
         EXCEPT !.free = {"shiftSummary"}]
ShiftSummary == Post(PosGate \o <<Body, Key, Input>>, "passed", "summary" :> <<"pos", "shiftSummary">>, <<>>, Answers(422, 403, 422), Nothing)

PurchasingGate == Signed \o <<Origin>>
PurchasingReads == Get(Signed, "", On("purchasing", {"listWorkspace"}), Answers(500, 403, 404))
PurchasingRuns == On("purchasing", {"closePurchaseOrder", "billCreditNote", "reverseVendorPayment", "createVendor", "createBill",
                                    "payBill", "createPurchaseRequest", "decidePurchaseRequest", "createRfq", "recordQuote",
                                    "selectWinningQuote", "createPurchaseOrder", "receiveGoods", "returnGoods", "priceHistory",
                                    "supplierStatement"}) @@ ("receiptDetail" :> <<"purchasing", "listReceipts">>)
PurchasingAnswers == Answers(202, 403, 404)
PurchasingFree == {"receiptDetail", "priceHistory", "supplierStatement"}
Purchasing == [Post(PurchasingGate \o <<Body, Action, Key, Input>>, "required", PurchasingRuns, <<>>, PurchasingAnswers, PurchasingReads)
                EXCEPT !.free = PurchasingFree]
PaymentRunsGate == Signed \o <<Origin>>
PaymentRunsRuns == ("create" :> <<"purchasing", "createPaymentRun">>) @@ ("instruct" :> <<"purchasing", "instructPaymentRun">>)
                   @@ ("cancel" :> <<"purchasing", "cancelPaymentRunDraft">>) @@ ("restore" :> <<"purchasing", "restorePaymentRunDraft">>)
                   @@ ("reverse" :> <<"purchasing", "reversePaymentRun">>)
PaymentRuns == Post(PaymentRunsGate \o <<Body, Action, Key, Input>>, "required", PaymentRunsRuns, <<>>, PurchasingAnswers,
                    Get(Signed, "", On("purchasing", {"listPaymentRuns"}), Answers(500, 403, 404)))

ManufacturingGate == Signed \o <<Missing("module")>>
ManufacturingAnswers == Answers(202, 403, 404)
ManufacturingReads == Get(ManufacturingGate, "", On("manufacturing", {"lotTrace", "overviewReport"}), ManufacturingAnswers)
ManufacturingRuns == On("manufacturing", {"defineBom", "deleteBom", "bomReport", "bomTree", "checkProductionFeasibility", "costPreview",
                                          "produceFromBom", "reverseProductionRun", "createWorkOrder", "releaseWorkOrder",
                                          "completeWorkOrder", "cancelWorkOrder"})
Manufacturing == Post(ManufacturingGate \o <<Origin, Body, Action>>, "passed", ManufacturingRuns, <<>>, ManufacturingAnswers, ManufacturingReads)

-----------------------------------------------------------------------------
(* People, customers, campaigns.                                           *)

HrGate == Signed \o <<Origin, Module>>
HrAnswers == Answers(202, 422, 422)
HrReads == Get(Signed \o <<Module>>, "", On("hr", {"report"}), HrAnswers)
HrRuns == On("hr", {"hireEmployee", "deactivateEmployee", "requestLeave", "decideLeave", "cancelLeave", "createPayrollRun",
                    "executePayrollRun", "voidPayrollRun", "reversePayrollPosting", "clockIn", "clockOut", "createOpening",
                    "closeOpening", "addApplicant", "moveApplicant", "hireApplicant"})
          @@ ("updateStructure" :> <<"hr", "updateEmployeeStructure">>)
Hr == Post(HrGate \o <<Body, Action, Key, Input>>, "required", HrRuns, <<>>, HrAnswers, HrReads)

TimeGate == Signed \o <<Origin>>
TimeAnswers == Answers(422, 422, 422)
TimeReads == Get(Signed \o <<Module>>, "", On("hr", {"pendingTimeEntries", "timeReport"}), TimeAnswers)
TimeRuns == ("log" :> <<"hr", "logTime">>) @@ ("decide" :> <<"hr", "decideTimeEntry">>)
Time == Post(TimeGate \o <<Body, Key, Action, Input>>, "required", TimeRuns, <<>>, TimeAnswers, TimeReads)

ProjectsGate == Known
ProjectsReads == Get(Known \o <<May>>, "projects.read", On("projects", {"list", "listBoard"}), Answers(422, 403, 422))
ProjectsRuns == On("projects", {"createProject", "createTask", "assignTask", "moveTask", "archiveProject"})
Projects == Post(ProjectsGate \o <<Origin, Body, Input, Key>>, "required", ProjectsRuns, <<>>, Answers(202, 422, 422), ProjectsReads)

CrmGate == Signed \o <<Origin, Body, Action, Key, Input>>
CrmRuns == On("crm", {"convertLead", "createTask", "completeTask", "updateTaskDetails"})
           @@ ("create" :> <<"crm", "createCustomer">>) @@ ("deactivate" :> <<"crm", "deactivateCustomer">>)
           @@ ("merge" :> <<"crm", "mergeCustomers">>) @@ ("undoMerge" :> <<"crm", "restoreCustomerMerge">>)
           @@ ("updateProfile" :> <<"crm", "updateCustomerProfiles">>) @@ ("createDeal" :> <<"crm", "createDeal">>)
           @@ ("move" :> <<"crm", "moveDealStage">>) @@ ("saveView" :> <<"crm", "saveCustomerView">>)
CrmReads == Get(Signed \o <<May, Module>>, "crm.read", On("crm", {"listCustomerViews", "listDeals", "listCustomerCollection"}), Answers(422, 403, 422))
CrmAnswers == Answers(202, 422, 422)
Crm == Post(CrmGate, "passed", CrmRuns, <<>>, CrmAnswers, CrmReads)

(* Service products without a SKU get a random one, so the same rows are   *)
(* another payload at each attempt.                                        *)
ImportGate == Signed \o <<Origin, Body, Action, May, <<"limit", 429>>, Input>>
ImportRuns == ("customers" :> <<"crm", "importCustomers">>) @@ ("undoCustomers" :> <<"crm", "undoCustomerImport">>)
              @@ ("products" :> <<"inventory", "importItems">>) @@ ("services" :> <<"inventory", "importItems">>)
              @@ ("undoProducts" :> <<"inventory", "undoItemImport">>)
ImportAsks == [a \in {"customers", "undoCustomers"} |-> "crm.write"] @@ Asks("inventory.write", ImportRuns)
ImportVaries == {"services"}
Import == [Post(ImportGate, "passed", ImportRuns, ImportAsks, Answers(202, 422, 422), Nothing) EXCEPT !.varies = ImportVaries]

MarketingGate == Signed \o <<Origin>>
MarketingRuns == On("marketing", {"createSegment", "createCampaign", "sendCampaign", "campaignAnalytics"})
MarketingAsks == ("campaignAnalytics" :> "marketing.read") @@ Asks("marketing.write", MarketingRuns)
MarketingReads == Get(Signed \o <<May>>, "marketing.read", On("marketing", {"overviewSnapshot"}), Answers(422, 422, 422))
Marketing == Post(MarketingGate \o <<Body, Key, Action, Input, May>>, "required", MarketingRuns, MarketingAsks,
                  Answers(202, 422, 422), MarketingReads)

SupportActions == On("support", {"escalateConversation", "updateTicket", "suggestCategory", "createCannedResponse", "createKbArticle"})
                  @@ ("create" :> <<"support", "startConversation">>) @@ ("message" :> <<"support", "postMessage">>)
                  @@ ("resolve" :> <<"support", "resolveConversation">>) @@ ("reopen" :> <<"support", "reopenConversation">>)
SupportAsks == ("suggestCategory" :> "support.read") @@ Asks("support.write", SupportActions)
SupportGate == Signed \o <<Missing("module")>>
SupportReads == Get(SupportGate \o <<May>>, "support.read", On("support", {"listLibrary", "readConversation", "listConversations"}), Answers(422, 403, 404))
SupportAnswers == Answers(202, 403, 404)
Support == Post(SupportGate \o <<Body, Action, May, Origin, Key>>, "passed", SupportActions, SupportAsks, SupportAnswers, SupportReads)

-----------------------------------------------------------------------------
(* Documents and conversations.                                            *)

DocumentsSession == Signed
DocumentsGate == DocumentsSession \o <<Origin, Body, Action, Key, Input>>
DocumentsAnswers == Answers(202, 403, 403)
DocumentsRuns == On("documents", {"createDoc", "createTemplate", "deleteDoc", "deleteTemplate", "saveDocVersion", "restoreDocVersion",
                                  "updateDocMetadata", "createFolder", "renameFolder", "deleteFolder"})
DocumentsLists == On("documents", {"listDocuments", "listTemplates", "getTemplate"})
DocumentsItem == On("documents", {"getDoc", "getDocVersion", "listDocVersions"})
DocumentsRecords == On("documents", {"searchRecords"})
NextNumber == On("documents", {"allocateNumber"})
Documents == Post(DocumentsGate, "passed", DocumentsRuns, <<>>, DocumentsAnswers,
                  Get(DocumentsSession, "", DocumentsLists @@ DocumentsItem @@ DocumentsRecords @@ NextNumber
                                            @@ On("documents", {"listFolders"}), DocumentsAnswers))
IngestRuns == ("create" :> <<"documents", "createDocument">>) @@ ("suggest" :> <<"documents", "suggestCoding">>)
              @@ ("delete" :> <<"documents", "deleteDocument">>)
Ingest == Post(DocumentsSession \o <<Origin, Body, Action, Key, Input>>, "passed", IngestRuns, <<>>, DocumentsAnswers, Nothing)

MessagingGate == Known \o <<Origin, May, Module>>
MessagingAnswers == Answers(202, 403, 403)
MessagingUpdates == ("update" :> <<"messaging", "updateConversation">>) @@ ("archive" :> <<"messaging", "archiveConversation">>)
                    @@ ("leave" :> <<"messaging", "leaveConversation">>) @@ ("addMember" :> <<"messaging", "addMember">>)
                    @@ ("delete" :> <<"messaging", "deleteConversation">>)
MessagingSends == On("messaging", {"sendMessage"})
MessagingEdits == On("messaging", {"createConversation", "editMessage", "deleteMessage"})
MessagingReads == Get(Known \o <<May, Module>>, "messaging.read",
                      On("messaging", {"listConversations", "readMessages", "listPeople", "searchMessages"}), MessagingAnswers)
MessagingKeyed == MessagingUpdates @@ MessagingSends @@ MessagingEdits
Conversations == Post(MessagingGate \o <<Body, Key, Input>>, "passed", MessagingKeyed, Asks("messaging.write", MessagingKeyed),
                      MessagingAnswers, MessagingReads)
(* Marks, pins, reactions and uploads take no key.                         *)
MessagingUploads == On("messaging", {"uploadMessageAttachment", "deletePendingAttachment"})
MessagingMarks == On("messaging", {"advanceReadCursor", "setMessagePin", "setMessageReaction"}) @@ MessagingUploads
Marks == Post(MessagingGate \o <<Body, Input>>, "none", MessagingMarks, Asks("messaging.write", MessagingMarks), MessagingAnswers, Nothing)
PresenceGate == Known \o <<Origin, May, Module>>
PresenceRuns == "update" :> <<"messaging", "updateConversationPresence">>
Presence == Post(PresenceGate \o <<Body, Key, Input>>, "required", PresenceRuns, Asks("messaging.write", PresenceRuns),
                 Answers(202, 403, 422), Nothing)

-----------------------------------------------------------------------------
(* The organization.                                                       *)

TeamGate == Known \o <<Origin>>
TeamRuns == ("createRole" :> <<"iam", "createRole">>) @@ ("setPermissions" :> <<"iam", "updateRolePermissions">>)
            @@ ("assignRole" :> <<"iam", "assignRole">>) @@ ("invite" :> <<"iam", "inviteMember">>)
Team == Post(TeamGate \o <<Body, Key, Action, Input>>, "required", TeamRuns, <<>>, Answers(202, 422, 422), Nothing)
ModulesBody == <<Body, Key>>
Modules == Post(<<<<"method", 405>>, Bad("selector"), <<"session", 401>>, <<"organization", 401>>, May, Origin>> \o ModulesBody, "passed",
                "set" :> <<"iam", "setModules">>, "set" :> "iam.admin", Answers(202, 422, 422), Nothing)
SsoGate == Known \o <<May, Origin>>
SsoRuns == ("create" :> <<"iam", "createSSOConnection">>) @@ ("disable" :> <<"iam", "disableSSOConnection">>)
SsoAnswers == Answers(202, 422, 422)
Sso == Post(SsoGate \o <<Body, Key, Input>>, "required", SsoRuns, Asks("iam.admin", SsoRuns), SsoAnswers, Nothing)
ScimTokensGate == Signed \o <<May, Origin>>
(* A token is shown once: a replay is answered 409.                        *)
TokenCreation == "create" :> <<"iam", "createSCIMToken">>
TokenRevocation == "revoke" :> <<"iam", "revokeSCIMToken">>
ScimTokens == [Post(ScimTokensGate \o <<Body, Key>>, "required", TokenCreation @@ TokenRevocation,
                    Asks("iam.admin", TokenCreation @@ TokenRevocation), Answers(202, 422, 422), Nothing) EXCEPT !.once = {"create"}]

SettingsAnswers == Answers(202, 422, 422)
AiConfigGate == Known \o <<Origin>>
AiConfig == Post(AiConfigGate \o <<Body, Key, Input>>, "required", "save" :> <<"settings", "configureAiProvider">>, <<>>, SettingsAnswers, Nothing)
BrandingGate == Known \o <<Origin>>
Branding == Post(BrandingGate \o <<Body, Key, Input>>, "passed", "save" :> <<"iam", "setOrgBranding">>, <<>>, SettingsAnswers, Nothing)
ModuleSettingsGate == Known \o <<Origin>>
ModuleSettings == Post(ModuleSettingsGate \o <<Body, Key, Input>>, "fresh", "save" :> <<"iam", "setModuleConfig">>, <<>>, SettingsAnswers, Nothing)
PolicyGate == Known \o <<Origin>>
Policy == Post(PolicyGate \o <<Body, Key, Input>>, "fresh", "save" :> <<"iam", "setOrgPolicy">>, <<>>, SettingsAnswers, Nothing)
MemoryGate == Known \o <<Origin>>
Memory == Post(MemoryGate \o <<Body, Key, Input>>, "fresh", "delete" :> <<"documents", "deleteOrgMemory">>, <<>>, SettingsAnswers, Nothing)
RoutinesGate == Known \o <<Origin>>
RoutinesRuns == ("create" :> <<"routines", "create">>) @@ ("update" :> <<"routines", "update">>)
                @@ ("delete" :> <<"routines", "delete">>) @@ ("runNow" :> <<"routines", "runNow">>)
RoutinesReads == Get(Known, "", On("routines", {"list"}), SettingsAnswers)
Routines == Post(RoutinesGate \o <<Body, Action, Key, Input>>, "required", RoutinesRuns, <<>>, SettingsAnswers, RoutinesReads)

(* Questions and datasets are read with query parameters; a report is      *)
(* posted: its datasets are read as by GET, then rendered.                 *)
AnalyticsQuestions == On("analytics", {"askYourBusiness", "explainChange"})
AnalyticsDatasets == On("analytics", {"pipelineByStage", "revenueByMonth", "invoiceAging", "salesByCustomer", "stockLevels"})
AnalyticsGate == Signed
AnalyticsAnswers == Answers(403, 403, 403)
AnalyticsReads == Get(AnalyticsGate \o <<Input>>, "", AnalyticsQuestions @@ AnalyticsDatasets, AnalyticsAnswers)
AnalyticsReport == "report" :> <<"analytics", "renderReport">>
Analytics == Post(AnalyticsGate \o <<Body, Input>>, "none", AnalyticsReport, <<>>, Answers(500, 500, 500), AnalyticsReads)

-----------------------------------------------------------------------------
(* Any capability: a person's through the session route, an agent's or a   *)
(* person's through an assertion signed by the web server.  Sample stands  *)
(* for the capabilities, one of each risk.                                 *)

Sample == [assign |-> <<"iam", "assignRole">>, erase |-> <<"documents", "deleteDoc">>, pay |-> <<"accounting", "recordPayment">>,
           task |-> <<"crm", "createTask">>, upload |-> <<"messaging", "uploadMessageAttachment">>,
           list |-> <<"accounting", "listQuotes">>, people |-> <<"crm", "listCustomerCollection">>]
SessionGate == Known \o <<Origin, Body>>
SessionAnswers == Answers(202, 422, 422)
SessionFree == {a \in DOMAIN Sample : ~RequiresActionIntent(Sample[a])}
Session == [Post(SessionGate \o <<Key, Input>>, "required", Sample, <<>>, SessionAnswers, Nothing) EXCEPT !.free = SessionFree]
AssertionGate == <<<<"session", 401>>, Body, <<"input", 401>>>>
Assertion == Post(AssertionGate, "passed", Sample, <<>>, Answers(202, 422, 422), Nothing)

Routes ==
  [budgets |-> Budgets, quotes |-> Quotes, recurring |-> Recurring, reports |-> Reports,
   banking |-> Banking, accounting |-> Accounting, tax |-> Tax, period |-> Period,
   expenses |-> Expenses, sales |-> Sales, inventory |-> Inventory, pos |-> Pos,
   shiftSummary |-> ShiftSummary, purchasing |-> Purchasing, paymentRuns |-> PaymentRuns, manufacturing |-> Manufacturing,
   hr |-> Hr, time |-> Time, projects |-> Projects, crm |-> Crm,
   import |-> Import, marketing |-> Marketing, support |-> Support, documents |-> Documents,
   ingest |-> Ingest, conversations |-> Conversations, marks |-> Marks, presence |-> Presence,
   team |-> Team, modules |-> Modules, sso |-> Sso, scimTokens |-> ScimTokens,
   aiConfig |-> AiConfig, branding |-> Branding, moduleSettings |-> ModuleSettings, policy |-> Policy,
   memory |-> Memory, routines |-> Routines, analytics |-> Analytics, session |-> Session,
   assertion |-> Assertion]

=============================================================================
