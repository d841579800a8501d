------------------------------ MODULE Treasury ------------------------------
(***************************************************************************)
(* Money in the bank: the statement lines imported from feeds, their       *)
(* allocation to customer payments and to journal entries, and the expense *)
(* claims whose reimbursement posts an entry a statement line will show.   *)
(* A match holds the statement line, and the payment when it has one, by a *)
(* row lock.  An entry cannot be locked and a feed takes no lock, so these *)
(* two read in one step and write in another.                              *)
(***************************************************************************)
EXTENDS Integers, Sequences, FiniteSets, FiniteSetsExt, SequencesExt

CONSTANTS Workers,      \* concurrent imports and entry matches
          Feeds,        \* sets of rows [key, amount] a bank may deliver
          Receipts,     \* the customer payments: id -> amount
          Postings,     \* entries with a cash effect: id -> [cash, run]
          Slices,       \* partial amounts, fees and exchange differences
          ClaimAmounts, Limits, MaxLines, MaxClaims

VARIABLES lines, allocs, runs, claims, policy, job, raced

vars == <<lines, allocs, runs, claims, policy, job, raced>>

Idle == [op |-> "idle"]

Init == /\ lines = <<>> /\ allocs = {} /\ claims = <<>>
        /\ runs = [e \in {x \in DOMAIN Postings : Postings[x].run} |-> "instructed"]
        /\ policy \in Limits /\ job = [w \in Workers |-> Idle] /\ raced = FALSE

-----------------------------------------------------------------------------
(* Importing a feed.                                                       *)

Live == {l \in DOMAIN lines : lines[l].status # "deleted"}
Seen == {lines[l].key : l \in Live}

ImportRead(w, feed) ==
  /\ job[w] = Idle
  /\ job' = [job EXCEPT ![w] = [op |-> "import", fresh |-> {r \in feed : r.key \notin Seen}]]
  /\ raced' = (raced \/ \E v \in Workers : job[v].op = "import")
  /\ UNCHANGED <<lines, allocs, runs, claims, policy>>
ImportBankFeed(w) ==
  /\ job[w].op = "import" /\ Len(lines) + Cardinality(job[w].fresh) <= MaxLines
  /\ LET new == SetToSeq(job[w].fresh)
     IN lines' = lines \o [i \in DOMAIN new |->
          [key |-> new[i].key, amount |-> new[i].amount, status |-> "unmatched"]]
  /\ job' = [job EXCEPT ![w] = Idle]
  /\ UNCHANGED <<allocs, runs, claims, policy, raced>>

-----------------------------------------------------------------------------
(* Allocations are [line, kind, ref, amount]; what one line takes of one   *)
(* payment or entry is only ever summed, so its slices are kept as one.    *)

OfLine(l) == {a \in allocs : a.line = l}
OfEntry(e) == {a \in allocs : a.kind = "entry" /\ a.ref = e}
OfPayment(p) == {a \in allocs : a.kind = "payment" /\ a.ref = p}
Amount(as) == MapThenSumSet(LAMBDA a : a.amount, as)
Unexplained(l) == lines[l].amount - Amount(OfLine(l))
Abs(n) == IF n < 0 THEN -n ELSE n
Sign(n) == IF n > 0 THEN 1 ELSE IF n < 0 THEN -1 ELSE 0

(* The postings of reimbursed claims follow the given ones.                *)
PaidClaims == {c \in DOMAIN claims : claims[c].status = "paid"}
Entries == DOMAIN Postings \cup {<<"claim", c>> : c \in PaidClaims}
CashNet(e) == IF e \in DOMAIN Postings THEN Postings[e].cash ELSE -claims[e[2]].amount

(* The row lock of a line that a match in flight holds.                    *)
Free(l) == \A w \in Workers : job[w].op = "match" => job[w].line # l

\* Mutant: each slice fits the line, whatever is on it already.
PlanEachAlone(l, proposed) ==
  \A a \in proposed : /\ a.amount # 0 /\ Sign(a.amount) = Sign(lines[l].amount)
                      /\ Abs(a.amount) <= Abs(lines[l].amount)
PlanAllocations(l, proposed) ==
  /\ \A a \in proposed : a.amount # 0 /\ Sign(a.amount) = Sign(lines[l].amount)
  /\ Abs(Amount(OfLine(l)) + Amount(proposed)) <= Abs(lines[l].amount)
PaymentRemaining(p, n) == Receipts[p] - Amount(OfPayment(p)) - n

Slice(l, kind, p, n) == [line |-> l, kind |-> kind, ref |-> p, amount |-> n]
Proposed(l, p, fee, fx) ==
  {Slice(l, "payment", p, Receipts[p])}
    \cup (IF fee > 0 THEN {Slice(l, "fee", p, fee)} ELSE {})
    \cup (IF fx # 0 THEN {Slice(l, "fx", p, fx)} ELSE {})

SameSlice(a, b) == a.line = b.line /\ a.kind = b.kind /\ a.ref = b.ref
Allocate(l, proposed) ==
  /\ allocs' = {a \in allocs : \A n \in proposed : ~SameSlice(a, n)}
       \cup {[n EXCEPT !.amount = @ + Amount({a \in allocs : SameSlice(a, n)})] : n \in proposed}
  /\ lines' = [lines EXCEPT ![l].status = "matched"]

(* With an amount of its own the slice may leave a rest; without one the   *)
(* payment, fee and difference explain the rest of the line.               *)
MatchPayment(l, p, proposed) ==
  /\ Free(l) /\ lines[l].status \in {"unmatched", "matched"}
  /\ lines[l].amount > 0
  /\ PlanAllocations(l, proposed)
  /\ PaymentRemaining(p, Amount({a \in proposed : a.kind = "payment"})) >= 0
  /\ Allocate(l, proposed)
  /\ UNCHANGED <<runs, claims, policy, job, raced>>
MatchPart(l, p) == \E n \in Slices : MatchPayment(l, p, {Slice(l, "payment", p, n)})
MatchWhole(l, p) ==
  \E fee \in {n \in Slices : n >= 0}, fx \in Slices :
    /\ Receipts[p] + fee + fx = Unexplained(l)
    /\ MatchPayment(l, p, Proposed(l, p, fee, fx))

MatchEntryRead(w, l, e) ==
  /\ job[w] = Idle /\ Free(l) /\ lines[l].status \in {"unmatched", "matched"}
  /\ CashNet(e) = Unexplained(l)
  /\ Amount(OfEntry(e)) + Unexplained(l) <= CashNet(e)
  /\ job' = [job EXCEPT ![w] = [op |-> "match", line |-> l, entry |-> e]]
  /\ raced' = (raced \/ \E v \in Workers : job[v].op = "match" /\ job[v].entry = e)
  /\ UNCHANGED <<lines, allocs, runs, claims, policy>>
MatchEntry(w) ==
  /\ job[w].op = "match"
  /\ LET l == job[w].line
         e == job[w].entry
     IN /\ Allocate(l, {[line |-> l, kind |-> "entry", ref |-> e, amount |-> Unexplained(l)]})
        /\ runs' = IF e \in DOMAIN runs /\ CashNet(e) < 0
                   THEN [runs EXCEPT ![e] = "confirmed"] ELSE runs
  /\ job' = [job EXCEPT ![w] = Idle]
  /\ UNCHANGED <<claims, policy, raced>>

Unmatch(l) == /\ Free(l) /\ lines[l].status = "matched"
              /\ allocs' = allocs \ OfLine(l)
              /\ lines' = [lines EXCEPT ![l].status = "unmatched"]
              /\ UNCHANGED <<runs, claims, policy, job, raced>>
Turn(l, from, to) == /\ Free(l) /\ lines[l].status = from
                     /\ lines' = [lines EXCEPT ![l].status = to]
                     /\ UNCHANGED <<allocs, runs, claims, policy, job, raced>>
DeleteTransaction(l) == Turn(l, "unmatched", "deleted")
Exclude(l) == Turn(l, "unmatched", "excluded")
Unexclude(l) == Turn(l, "excluded", "unmatched")

-----------------------------------------------------------------------------
(* Expense claims.                                                         *)

SetExpensePolicy(n) == /\ policy' = n /\ n # policy
                       /\ UNCHANGED <<lines, allocs, runs, claims, job, raced>>
OverLimit(n) == policy # -1 /\ n > policy
SubmitClaim(n) ==
  /\ Len(claims) < MaxClaims
  /\ claims' = Append(claims, [amount |-> n, status |-> "submitted", over |-> OverLimit(n)])
  /\ UNCHANGED <<lines, allocs, runs, policy, job, raced>>
TurnClaim(c, from, to) == /\ claims[c].status = from
                          /\ claims' = [claims EXCEPT ![c].status = to]
                          /\ UNCHANGED <<lines, allocs, runs, policy, job, raced>>
DecideClaim(c) == \E s \in {"approved", "rejected"} : TurnClaim(c, "submitted", s)
PayClaim(c, n) == n = claims[c].amount /\ TurnClaim(c, "approved", "paid")

-----------------------------------------------------------------------------
(* What the reports say.                                                   *)

Counted == {l \in Live : lines[l].status # "excluded"}
LinesTotal == MapThenSumSet(LAMBDA l : lines[l].amount, Counted)
AllocatedTotal == MapThenSumSet(LAMBDA l : Amount(OfLine(l)), Counted)
Reconciled == LinesTotal = AllocatedTotal
(* The payments and entries the workspace offers for matching.             *)
OpenPayments == {p \in DOMAIN Receipts : Receipts[p] - Amount(OfPayment(p)) > 0}
OpenEntries == {e \in Entries : CashNet(e) # 0 /\ OfEntry(e) = {}}
Summary == [in |-> MapThenSumSet(LAMBDA l : Max({lines[l].amount, 0}), Live),
            out |-> MapThenSumSet(LAMBDA l : Max({-lines[l].amount, 0}), Live)]

Next == \/ \E w \in Workers : \/ \E f \in Feeds : ImportRead(w, f)
                              \/ ImportBankFeed(w) \/ MatchEntry(w)
        \/ \E l \in DOMAIN lines : \/ \E p \in DOMAIN Receipts : MatchPart(l, p) \/ MatchWhole(l, p)
                                   \/ \E w \in Workers, e \in Entries : MatchEntryRead(w, l, e)
                                   \/ Unmatch(l) \/ DeleteTransaction(l)
                                   \/ Exclude(l) \/ Unexclude(l)
        \/ \E n \in Limits : SetExpensePolicy(n)
        \/ \E n \in ClaimAmounts : SubmitClaim(n)
        \/ \E c \in DOMAIN claims : DecideClaim(c) \/ \E n \in ClaimAmounts : PayClaim(c, n)
Spec == Init /\ [][Next]_vars

-----------------------------------------------------------------------------
(* Properties.                                                             *)

(* Only a matched line is explained, and never beyond its amount, however  *)
(* payments, fees, differences and entries are put on it and taken off.    *)
LinesAreExplained == \A l \in DOMAIN lines :
  /\ (OfLine(l) # {}) = (lines[l].status = "matched")
  /\ Abs(Amount(OfLine(l))) <= Abs(lines[l].amount)
  /\ Unexplained(l) * lines[l].amount >= 0

(* No payment explains more money than was received, and the workspace     *)
(* still offers each one that has a rest.                                  *)
PaymentsAreNotStretched == \A p \in DOMAIN Receipts :
  /\ Amount(OfPayment(p)) <= Receipts[p]
  /\ p \notin OpenPayments => Amount(OfPayment(p)) = Receipts[p]

(* A statement row imported twice is one line, and a receipt entry on the  *)
(* books explains one line, unless two imports or two matches overlapped.  *)
OnceUnlessRaced == raced \/
  /\ \A k, l \in Live : lines[k].key = lines[l].key => k = l
  /\ \A e \in Entries : CashNet(e) > 0 => Cardinality(OfEntry(e)) <= 1

(* A payment run is confirmed while a line shows its money leaving, and a  *)
(* statement of receipts that reconciles has each of its lines explained.  *)
ReportsFollowLines ==
  /\ \A e \in DOMAIN runs : OfEntry(e) # {} /\ CashNet(e) < 0 => runs[e] = "confirmed"
  /\ Reconciled /\ Summary.out = 0 => \A l \in Counted : Unexplained(l) = 0

(* Statement lines, payments, entries and reports agree.                   *)
BankMatchesBooks == LinesAreExplained /\ PaymentsAreNotStretched /\ OnceUnlessRaced
                      /\ ReportsFollowLines

(* "One reconciled payment or entry belongs to exactly one statement line" *)
(* (docs/adr/0048-bank-matching-equivalence.md), said here of entries.     *)
OneLinePerEntry == \A e \in Entries : Cardinality(OfEntry(e)) <= 1
=============================================================================
