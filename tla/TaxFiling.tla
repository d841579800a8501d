----------------------------- MODULE TaxFiling -----------------------------
(***************************************************************************)
(* Sales tax: the documents of a window, the report over them and the      *)
(* breakdown by tax code that must reconcile with it, and the returns      *)
(* drawn from them: drafted, cancelled, restored, submitted, acknowledged, *)
(* amended and settled against the books.  Preparing and settling take one *)
(* advisory lock and the other operations are one conditional update, so   *)
(* each is one step.                                                       *)
(***************************************************************************)
EXTENDS Integers, Sequences, SequencesExt, FiniteSetsExt

CONSTANTS Windows, Documents, MaxDocs, MaxReturns, Kinds

VARIABLES docs, foreign, returns, filings

vars == <<docs, foreign, returns, filings>>

Init == docs = <<>> /\ foreign = FALSE /\ returns = <<>> /\ filings = <<>>

(* Documents are [kind, day, base, tax]; credit notes carry what they take *)
(* back.                                                                   *)
Issue(d) == /\ Len(docs) < MaxDocs /\ docs' = Append(docs, d)
            /\ UNCHANGED <<foreign, returns, filings>>
ForeignDocument == /\ "foreign" \in Kinds /\ foreign' = ~foreign
                   /\ UNCHANGED <<docs, returns, filings>>

-----------------------------------------------------------------------------
(* The report.                                                             *)

In(w) == {i \in DOMAIN docs : w[1] <= docs[i].day /\ docs[i].day <= w[2]}
SumOf(w, kind, f) ==
  MapThenSumSet(LAMBDA i : IF docs[i].kind = kind THEN docs[i][f] ELSE 0, In(w))
SalesTaxReport(w) ==
  [sales |-> SumOf(w, "invoice", "base") - SumOf(w, "credit", "base"),
   output |-> SumOf(w, "invoice", "tax") - SumOf(w, "credit", "tax"),
   input |-> SumOf(w, "bill", "tax") - SumOf(w, "supplierCredit", "tax")]

(* One row per credit note and account: 4000 takes back base, 2100 tax.    *)
CreditRows(w) == {[doc |-> i, code |-> f, amount |-> docs[i][f]] :
                    i \in {j \in In(w) : docs[j].kind = "credit"}, f \in {"base", "tax"}}
Rows(w) == SetToSeqs({r \in CreditRows(w) : r.amount # 0})

(* The adjustment line of the breakdown.  Its amounts are pointers: the    *)
(* first row stores the shared zero itself for the amount it does not      *)
(* have, and later rows add into it.                                       *)
NoLine == [seen |-> FALSE, base |-> 0, tax |-> 0, zero |-> 0, holds |-> "none"]
ValueOf(l, f) == IF l.holds = f THEN l.zero ELSE l[f]
AddTo(l, f, n) == IF l.holds = f THEN [l EXCEPT !.zero = @ + n] ELSE [l EXCEPT ![f] = @ + n]
Other(f) == IF f = "base" THEN "tax" ELSE "base"
AddRow(l, r) ==
  IF ~l.seen THEN [NoLine EXCEPT !.seen = TRUE, ![r.code] = -r.amount, !.zero = l.zero,
                                 !.holds = Other(r.code)]
  ELSE IF r.code = "base"
       THEN LET m == AddTo(l, "base", -r.amount) IN AddTo(m, "tax", m.zero)
       ELSE LET m == AddTo(l, "base", l.zero) IN AddTo(m, "tax", -r.amount)
Adjustment(rows) == FoldLeft(AddRow, NoLine, rows)
Resolves(w, rows) ==
  LET a == Adjustment(rows)
      r == SalesTaxReport(w)
  IN /\ SumOf(w, "invoice", "tax") + ValueOf(a, "tax") = r.output
     /\ SumOf(w, "invoice", "base") + ValueOf(a, "base") = r.sales

-----------------------------------------------------------------------------
(* The returns.                                                            *)

Overlap(v, w) == v[1] <= w[2] /\ w[1] <= v[2]
Active(r) == returns[r].status # "cancelled"
Amendments(r) == {s \in DOMAIN returns : returns[s].amends = r /\ Active(s)}
Amendable(r) == returns[r].status \in {"accepted", "rejected"}

InsertSnapshot(w, amends) ==
  LET t == SalesTaxReport(w)
  IN /\ Len(returns) < MaxReturns /\ ~foreign
     /\ \E rows \in Rows(w) : Resolves(w, rows)
     /\ returns' = Append(returns,
          [window |-> w, output |-> t.output, input |-> t.input, status |-> "draft",
           amends |-> amends, settled |-> FALSE, paidOut |-> 0, paidIn |-> 0])
     /\ UNCHANGED <<docs, foreign, filings>>
CreateReturn(w) ==
  /\ \A r \in DOMAIN returns : Active(r) => ~Overlap(returns[r].window, w)
  /\ \A f \in DOMAIN filings : filings[f].ret = 0 => ~Overlap(filings[f].window, w)
  /\ InsertSnapshot(w, 0)
(* createTaxReturn may name the return it amends: only the other door      *)
(* looks for an active amendment.                                          *)
CreateAmending(r) == Amendable(r) /\ InsertSnapshot(returns[r].window, r)
CreateAmendment(r) ==
  /\ Amendable(r) /\ Amendments(r) = {} /\ InsertSnapshot(returns[r].window, r)

Turn(r, from, to) == /\ returns[r].status \in from
                     /\ returns' = [returns EXCEPT ![r].status = to]
                     /\ UNCHANGED <<docs, foreign, filings>>
CancelDraft(r) == Turn(r, {"draft"}, "cancelled")
RestoreDraft(r) == Turn(r, {"cancelled"}, "draft")
RecordSubmission(r) == Turn(r, {"draft"}, "submitted")
RecordAcknowledgment(r) ==
  \E s \in {"accepted", "rejected", "unknown"} : Turn(r, {"submitted", "unknown"}, s)

Lineage(r) ==
  LET up[n \in 0 .. MaxReturns] == IF n = 0 THEN {}
        ELSE LET below == up[n - 1] \cup {r}
             IN ({returns[s].amends : s \in below} \ {0}) \cup up[n - 1]
  IN up[MaxReturns]
(* Mutant: the return amended counts as settled.                           *)
BaselineOfParent(r) ==
  LET p == returns[r].amends
  IN IF p = 0 THEN [output |-> 0, input |-> 0]
     ELSE [output |-> returns[p].output, input |-> returns[p].input]
(* The totals last settled on the way up from r.                           *)
Baseline(r) ==
  LET settled == {s \in Lineage(r) : returns[s].settled}
  IN IF settled = {} THEN [output |-> 0, input |-> 0]
     ELSE LET s == CHOOSE x \in settled : settled \ {x} \subseteq Lineage(x)
          IN [output |-> returns[s].output, input |-> returns[s].input]
(* LIMIT 1 without an order: any overlapping filing may be the one looked  *)
(* at.                                                                     *)
OutsideLineage(r) ==
  LET over == {f \in DOMAIN filings : Overlap(filings[f].window, returns[r].window)}
  IN IF over = {} THEN {FALSE} ELSE {filings[f].ret \notin Lineage(r) : f \in over}
FileReturn(r) ==
  LET b == Baseline(r)
      out == returns[r].output - b.output
      inp == returns[r].input - b.input
  IN /\ returns[r].status \in {"submitted", "accepted"} /\ ~returns[r].settled
     /\ returns[r].output >= 0 /\ returns[r].input >= 0
     /\ Amendments(r) = {}
     /\ out # 0 \/ inp # 0
     /\ FALSE \in OutsideLineage(r)
     /\ returns' = [returns EXCEPT ![r].settled = TRUE, ![r].paidOut = out, ![r].paidIn = inp]
     /\ filings' = Append(filings, [window |-> returns[r].window, ret |-> r])
     /\ UNCHANGED <<docs, foreign>>

Next == \/ \E d \in Documents : Issue(d)
        \/ ForeignDocument
        \/ \E w \in Windows : "returns" \in Kinds /\ CreateReturn(w)
        \/ \E r \in DOMAIN returns : \/ CreateAmending(r) \/ CreateAmendment(r)
                                     \/ CancelDraft(r) \/ RestoreDraft(r) \/ RecordSubmission(r)
                                     \/ RecordAcknowledgment(r) \/ FileReturn(r)
Spec == Init /\ [][Next]_vars

-----------------------------------------------------------------------------
(* Properties.                                                             *)

Settled == {r \in DOMAIN returns : returns[r].settled}
Chain(r) == {s \in Lineage(r) \cup {r} : returns[s].settled}

\* executeFileSalesTaxReturn posts the difference to what was settled
\* before: along any chain of amendments, settled in part or not, the
\* postings add up to the tax of its last settled return.
SettlementsAddUp == \A r \in Settled :
  /\ MapThenSumSet(LAMBDA s : returns[s].paidOut, Chain(r)) = returns[r].output
  /\ MapThenSumSet(LAMBDA s : returns[s].paidIn, Chain(r)) = returns[r].input

\* Two settled returns of overlapping windows belong to one chain, however
\* drafts were cancelled and restored; two active amendments of one return
\* are the exception, since only one door refuses the second.
OneChainPerWindow ==
  \/ \E r \in DOMAIN returns : Cardinality(Amendments(r)) > 1
  \/ \A r, s \in Settled : Overlap(returns[r].window, returns[s].window) =>
       r = s \/ r \in Lineage(s) \/ s \in Lineage(r)

\* What is settled with the authority is the tax of the returns.
TaxIsSettledOnce == SettlementsAddUp /\ OneChainPerWindow

\* taxReturnSalesWindow reports "credit notes reducing the reported
\* totals": a window whose rows arrive in any order can be prepared.
CreditNotesReconcile == \A w \in Windows : \A rows \in Rows(w) : Resolves(w, rows)
=============================================================================
