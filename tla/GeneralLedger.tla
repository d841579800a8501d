--------------------------- MODULE GeneralLedger ---------------------------
(***************************************************************************)
(* The books: the posting door every capability goes through, the reversal *)
(* of an entry, the revaluation of foreign receivables, the monthly close  *)
(* and its checklist, the year-end roll, and the statements derived from   *)
(* the entries.  Time is counted in months, YearLength months to a year,   *)
(* and amounts are debits less credits.  Posting, closing and reopening    *)
(* take one advisory lock per organization, so each is one step; only      *)
(* closeYear reads twice before it takes the lock, and is three.           *)
(***************************************************************************)
EXTENDS Integers, Sequences, SequencesExt, FiniteSetsExt

CONSTANTS Months, YearLength, Callers, MaxEntries, Kinds, Events, None

VARIABLES today, entries, closed, ticked, unmatched, exposure, revals, closings,
          overtaken

vars == <<today, entries, closed, ticked, unmatched, exposure, revals, closings,
          overtaken>>

Type == [cash |-> "asset", receivable |-> "asset", equipment |-> "asset",
         capital |-> "equity", retained |-> "equity",
         sales |-> "income", rent |-> "expense"]
Accounts == DOMAIN Type
Nominal == {a \in Accounts : Type[a] \in {"income", "expense"}}
Year(m) == (m + YearLength - 1) \div YearLength
December(y) == y * YearLength
Years == {Year(m) : m \in 1 .. Months}

Lines(debit, credit, n) == [a \in Accounts |->
    IF a = debit THEN n ELSE IF a = credit THEN -n ELSE 0]
Mirror(lines) == [a \in Accounts |-> -lines[a]]

(* What other capabilities post, with the account pair and the source.     *)
Postings == [sale      |-> [source |-> "manual", lines |-> Lines("cash", "sales", 2)],
             cost      |-> [source |-> "manual", lines |-> Lines("rent", "cash", 1)],
             purchase  |-> [source |-> "manual", lines |-> Lines("equipment", "cash", 1)],
             funding   |-> [source |-> "manual", lines |-> Lines("cash", "capital", 1)],
             invoicing |-> [source |-> "invoice", lines |-> Lines("receivable", "sales", 1)]]

Init == /\ today = 1 /\ entries = <<>> /\ closed = {} /\ ticked = {}
        /\ unmatched = {} /\ exposure = None
        /\ revals = [m \in 1 .. Months |-> None]
        /\ closings = [c \in Callers |-> None]
        /\ overtaken = FALSE

-----------------------------------------------------------------------------
(* The posting door.                                                       *)

Entry(m, kind, source, rev, lines) ==
  [month |-> m, kind |-> kind, source |-> source, rev |-> rev, lines |-> lines]
IsReversed(log, i) == i \in {log[j].rev : j \in DOMAIN log}
Balanced(lines) ==
  /\ \E a \in Accounts : lines[a] # 0
  /\ MapThenSumSet(LAMBDA a : lines[a], Accounts) = 0
LetsThrough(log, shut, e) ==
  /\ e.month \notin shut
  /\ e.rev # 0 => e.rev \in DOMAIN log /\ ~IsReversed(log, e.rev)
  /\ Balanced(e.lines)
PostJournalEntry(e) == /\ Len(entries) < MaxEntries /\ LetsThrough(entries, closed, e)
                       /\ entries' = Append(entries, e)

Post == /\ \E p \in Events : PostJournalEntry(
               Entry(today, "operational", Postings[p].source, 0, Postings[p].lines))
        /\ UNCHANGED <<today, closed, ticked, unmatched, exposure, revals, closings, overtaken>>

(* A reversal, a roll and what a domain workflow undoes are not mirrored.  *)
Mirrors(e) == /\ e.source \notin {"reversal", "invoice"}
              /\ e.kind # "year_end_close"

ReverseEntry(i) ==
  /\ i \in DOMAIN entries /\ Mirrors(entries[i])
  /\ PostJournalEntry(Entry(today, "correction", "reversal", i, Mirror(entries[i].lines)))
  /\ UNCHANGED <<today, closed, ticked, unmatched, exposure, revals, closings, overtaken>>

NextMonth == /\ today < Months /\ today' = today + 1
             /\ UNCHANGED <<entries, closed, ticked, unmatched, exposure, revals, closings, overtaken>>

-----------------------------------------------------------------------------
(* The month: bank lines, the checklist, revaluation, close and reopen.    *)

(* Statement lines arrive and are matched; foreign invoices are issued and *)
(* settled and rates recorded: exposure is the gain at the closing rate.   *)
Surroundings ==
  /\ "fx" \in Kinds
  /\ \/ \E m \in 1 .. today : /\ unmatched' = (unmatched \ {m}) \cup ({m} \ unmatched)
                              /\ UNCHANGED exposure
     \/ \E x \in {None, -1, 0, 1} : exposure' = x /\ UNCHANGED unmatched
  /\ UNCHANGED <<today, entries, closed, ticked, revals, closings, overtaken>>

PersistCheck(m) ==
  /\ "close" \in Kinds
  /\ ticked' = (ticked \ {m}) \cup ({m} \ ticked)
  /\ UNCHANGED <<today, entries, closed, unmatched, exposure, revals, closings, overtaken>>

LiveReval(m) == revals[m] # None /\ ~revals[m].reversed
FxDelta(x) == IF x = None THEN 0 ELSE x
(* A zero adjustment is recorded without an entry.                         *)
RevalueForeignReceivables(m) ==
  LET d == FxDelta(exposure)
      lines == IF d > 0 THEN Lines("receivable", "sales", d) ELSE Lines("rent", "receivable", -d)
  IN /\ "fx" \in Kinds /\ m <= today /\ ~LiveReval(m)
     /\ IF d = 0 THEN UNCHANGED entries
                 ELSE PostJournalEntry(Entry(m, "operational", "fx_revaluation", 0, lines))
     /\ revals' = [revals EXCEPT ![m] =
          [entry |-> IF d = 0 THEN 0 ELSE Len(entries) + 1, reversed |-> FALSE]]
     /\ UNCHANGED <<today, closed, ticked, unmatched, exposure, closings, overtaken>>
ReverseRevaluation(m) ==
  /\ LiveReval(m)
  /\ LET i == revals[m].entry
     IN IF i = 0 THEN UNCHANGED entries
        ELSE PostJournalEntry(Entry(today, "operational", "fx_revaluation_reversal", i,
                                    Mirror(entries[i].lines)))
  /\ revals' = [revals EXCEPT ![m].reversed = TRUE]
  /\ UNCHANGED <<today, closed, ticked, unmatched, exposure, closings, overtaken>>

(* Mutant: a revaluation undone by a bare mirror still counts as reviewed. *)
ReadyIfRecorded(m) == m \in ticked /\ m \notin unmatched /\ (exposure = None \/ LiveReval(m))
FxReviewed(m) == \/ exposure = None
                 \/ /\ LiveReval(m)
                    /\ revals[m].entry = 0 \/ ~IsReversed(entries, revals[m].entry)
ReadyToClose(m) == m \in ticked /\ m \notin unmatched /\ FxReviewed(m)

ClosePeriod(m) ==
  /\ "close" \in Kinds /\ ReadyToClose(m) /\ closed' = closed \cup {m}
  /\ UNCHANGED <<today, entries, ticked, unmatched, exposure, revals, closings, overtaken>>
ReopenPeriod(m) ==
  /\ m \in closed /\ closed' = closed \ {m}
  /\ overtaken' = (overtaken \/ \E c \in Callers : closings[c] # None)
  /\ UNCHANGED <<today, entries, ticked, unmatched, exposure, revals, closings>>

-----------------------------------------------------------------------------
(* The year: closeYear reads the balances, then the live roll, then posts. *)

Sum(log, a, Counts(_)) ==
  MapThenSumSet(LAMBDA i : IF Counts(log[i]) THEN log[i].lines[a] ELSE 0, DOMAIN log)
(* Every date counts; only the rolls of the year itself do not.            *)
YearEndBalances(y) ==
  [a \in Nominal |-> Sum(entries, a, LAMBDA e : ~(e.kind = "year_end_close" /\ Year(e.month) = y))]
LiveRolls(log, y) == {i \in DOMAIN log : /\ log[i].kind = "year_end_close" /\ log[i].rev = 0
                                         /\ Year(log[i].month) = y
                                         /\ ~\E j \in DOMAIN log : /\ log[j].rev = i
                                                                   /\ log[j].kind = "year_end_close"}
ReadYear(c, y) ==
  /\ "year" \in Kinds /\ closings[c] = None
  /\ \E a \in Nominal : YearEndBalances(y)[a] # 0
  /\ closings' = [closings EXCEPT ![c] =
       [year |-> y, balances |-> YearEndBalances(y), live |-> None]]
  /\ UNCHANGED <<today, entries, closed, ticked, unmatched, exposure, revals, overtaken>>
ReadLiveRoll(c) ==
  /\ closings[c] # None /\ closings[c].live = None
  /\ LET rolls == LiveRolls(entries, closings[c].year)
     IN \E i \in IF rolls = {} THEN {0} ELSE rolls :
          closings' = [closings EXCEPT ![c].live = i]
  /\ UNCHANGED <<today, entries, closed, ticked, unmatched, exposure, revals, overtaken>>

(* One line per nominal account and one on retained earnings; a line of a  *)
(* zero or negative amount is refused by the posting door.                 *)
NetIncome(b) == -MapThenSumSet(LAMBDA a : b[a], Nominal)
YearEndClose(b) == [a \in Accounts |-> IF a \in Nominal THEN -b[a]
                                       ELSE IF a = "retained" THEN -NetIncome(b) ELSE 0]
WellFormed(b) == /\ NetIncome(b) # 0
                 /\ \A a \in Nominal : IF Type[a] = "income" THEN b[a] <= 0 ELSE b[a] >= 0
(* Mutant: the roll it replaces is not reversed.                           *)
CloseYearTwice(c) ==
  LET s == closings[c]
      fresh == Entry(December(s.year), "year_end_close", "manual", 0, YearEndClose(s.balances))
  IN /\ s # None /\ s.live # None /\ WellFormed(s.balances) /\ Len(entries) + 1 <= MaxEntries
     /\ LetsThrough(entries, closed, fresh)
     /\ entries' = Append(entries, fresh)
     /\ closed' = closed \cup {December(s.year)}
     /\ closings' = [closings EXCEPT ![c] = None]
     /\ UNCHANGED <<today, ticked, unmatched, exposure, revals, overtaken>>
CloseYear(c) ==
  LET s == closings[c]
      back == Entry(entries[s.live].month, "year_end_close", "reversal", s.live,
                    Mirror(entries[s.live].lines))
      undone == IF s.live = 0 THEN entries ELSE Append(entries, back)
      fresh == Entry(December(s.year), "year_end_close", "manual", 0, YearEndClose(s.balances))
  IN /\ s # None /\ s.live # None /\ WellFormed(s.balances) /\ Len(undone) < MaxEntries
     /\ s.live # 0 => LetsThrough(entries, closed, back)
     /\ LetsThrough(undone, closed, fresh)
     /\ entries' = Append(undone, fresh)
     /\ closed' = closed \cup {December(s.year)}
     /\ closings' = [closings EXCEPT ![c] = None]
     /\ UNCHANGED <<today, ticked, unmatched, exposure, revals, overtaken>>
(* The posting door refuses: the transaction rolls back.                   *)
CloseYearFails(c) ==
  /\ closings[c] # None /\ closings' = [closings EXCEPT ![c] = None]
  /\ UNCHANGED <<today, entries, closed, ticked, unmatched, exposure, revals, overtaken>>

Next == \/ Post \/ NextMonth \/ Surroundings
        \/ \E i \in DOMAIN entries : ReverseEntry(i)
        \/ \E m \in 1 .. Months : \/ PersistCheck(m) \/ ClosePeriod(m) \/ ReopenPeriod(m)
                                  \/ RevalueForeignReceivables(m) \/ ReverseRevaluation(m)
        \/ \E c \in Callers : \/ \E y \in Years : ReadYear(c, y)
                              \/ ReadLiveRoll(c) \/ CloseYear(c) \/ CloseYearFails(c)
Spec == Init /\ [][Next]_vars

-----------------------------------------------------------------------------
(* The statements.                                                         *)

Operating(e) == e.kind # "year_end_close"
Signed(a, n) == IF Type[a] \in {"asset", "expense"} THEN n ELSE -n
Total(log, type, Counts(_)) ==
  MapThenSumSet(LAMBDA a : Signed(a, Sum(log, a, Counts)), {a \in Accounts : Type[a] = type})
IncomeStatement(log) == Total(log, "income", Operating) - Total(log, "expense", Operating)
BalanceSheet(log) ==
  LET All(e) == TRUE
  IN [assets |-> Total(log, "asset", All), equity |-> Total(log, "equity", All),
      result |-> Total(log, "income", All) - Total(log, "expense", All)]

Counters(e) == {a \in Accounts \ {"cash"} : e.lines[a] # 0}
CashCategory(e) ==
  IF e.lines["cash"] = 0 THEN "none"
  ELSE IF \E a \in Counters(e) : Type[a] = "equity" THEN "financing"
  ELSE IF \A a \in Counters(e) : Type[a] = "asset" /\ a # "receivable" THEN "investing"
  ELSE "operating"
CashFlow(cat) == Sum(entries, "cash", LAMBDA e : CashCategory(e) = cat)
InWindow(e, from, to) == from <= e.month /\ e.month < to
CashBasis(from, to) ==
  [in |-> Sum(entries, "cash", LAMBDA e : InWindow(e, from, to) /\ e.lines["cash"] > 0),
   out |-> -Sum(entries, "cash", LAMBDA e : InWindow(e, from, to) /\ e.lines["cash"] < 0)]

-----------------------------------------------------------------------------
(* Properties.                                                             *)

(* postJournalEntry refuses a second reversal: every entry is undone at    *)
(* most once, by its mirror, whichever door undid it.                      *)
UndoneOnce == \A i, j \in DOMAIN entries :
  /\ entries[i].rev = j => entries[i].lines = Mirror(entries[j].lines)
  /\ (i # j /\ entries[i].rev # 0) => entries[i].rev # entries[j].rev

(* A year has one live roll, unless a month was reopened while a closeYear *)
(* stood between its read and its lock.                                    *)
OneRoll == overtaken \/ \A y \in Years : Cardinality(LiveRolls(entries, y)) <= 1

(* The statements agree with each other and with the entries: assets equal *)
(* equity and result, the cash flow by category ties to the cash account,  *)
(* and the cash basis of the months adds up to it.                         *)
StatementsTie ==
  LET b == BalanceSheet(entries)
      cash == Sum(entries, "cash", LAMBDA e : TRUE)
  IN /\ b.assets = b.equity + b.result
     /\ CashFlow("operating") + CashFlow("investing") + CashFlow("financing") = cash
     /\ MapThenSumSet(LAMBDA m : CashBasis(m, m + 1).in - CashBasis(m, m + 1).out,
                      1 .. Months) = cash

(* The books as a whole: every entry undone at most once by its mirror,    *)
(* one roll a year, and statements that tie.                               *)
BooksAreSound == UndoneOnce /\ OneRoll /\ StatementsTie

(* What a step may not do: change a month that is closed before and after, *)
(* close a month whose revaluation no longer stands, or let a roll touch   *)
(* the income statement; and a roll computed from what still holds leaves  *)
(* every nominal account at zero.                                          *)
SealedBooks ==
  LET Of(log, m) == SelectSeq(log, LAMBDA e : e.month = m)
      isRoll == Len(entries') > Len(entries) /\ Last(entries').kind = "year_end_close"
  IN /\ \A m \in closed \cap closed' : Of(entries', m) = Of(entries, m)
     /\ isRoll => IncomeStatement(entries') = IncomeStatement(entries)
     /\ (closed' \ closed # {} /\ ~isRoll) =>
          \A m \in closed' \ closed : exposure = None \/
             Sum(entries, "receivable", LAMBDA e : e.source = "fx_revaluation" /\ e.month = m)
               + Sum(entries, "receivable", LAMBDA e :
                       e.rev # 0 /\ entries[e.rev].source = "fx_revaluation"
                                 /\ entries[e.rev].month = m)
               = IF revals[m].entry = 0 THEN 0 ELSE entries[revals[m].entry].lines["receivable"]
     /\ \A c \in Callers :
          (isRoll /\ closings[c] # None /\ closings'[c] = None
             /\ closings[c].balances = YearEndBalances(closings[c].year)
             /\ LiveRolls(entries, closings[c].year) \subseteq {closings[c].live}) =>
          \A a \in Nominal : Sum(entries', a, LAMBDA e : TRUE) = 0
=============================================================================
