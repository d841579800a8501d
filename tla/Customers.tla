------------------------------ MODULE Customers ------------------------------
(***************************************************************************)
(* Customers and the leads that become customers: profiles, merging two    *)
(* records into one, importing many, converting a lead, and the undo of    *)
(* each.  An undo trusts the server's own receipt and applies only while   *)
(* every record still is as the receipt left it, which it learns from      *)
(* values and from times cut to the millisecond, never from a version.     *)
(* All but the import lock the rows they change first.                     *)
(***************************************************************************)
EXTENDS Integers, Sequences, FiniteSets, FiniteSetsExt, SequencesExt

CONSTANTS Known,        \* the customers at the start: [who, phone, stop]
          People,       \* whom a new row may describe
          Files,        \* the files imported: sequences of [who, allow]
          Actors, Workers,
          Stages,       \* the stages a deal may be moved to
          MaxCustomers, MaxMerges, MaxEdits, MaxImports, MaxDeals, Horizon,
          None

VARIABLES clock, cust, merges, edits, imports, job, deals, tasks, conversions,
          raced, excused, touched

vars == <<clock, cust, merges, edits, imports, job, deals, tasks, conversions,
          raced, excused, touched>>
leadVars == <<deals, tasks, conversions>>
importVars == <<imports, job, raced, excused>>

New(who, phone, stop) ==
  [who |-> who, phone |-> phone, stop |-> stop, off |-> None, into |-> None,
   at |-> clock, edited |-> None]
Init == /\ clock = 0 /\ merges = <<>> /\ edits = {} /\ imports = <<>>
        /\ cust = [i \in DOMAIN Known |-> New(Known[i].who, Known[i].phone, Known[i].stop)]
        /\ job = [w \in Workers |-> None] /\ deals = <<>> /\ tasks = {} /\ conversions = <<>>
        /\ raced = FALSE /\ excused = {} /\ touched = {}

(* Each operation takes the time once; two may fall in one millisecond.    *)
Tick == /\ clock < Horizon /\ clock' = clock + 1
        /\ UNCHANGED <<cust, merges, edits, importVars, leadVars, touched>>

Ids == {c \in DOMAIN cust : cust[c] # None}
Room == Len(cust) < MaxCustomers
Merged(c) == cust[c].into # None
Children(d) == {c \in Ids : cust[c].into = d}

-----------------------------------------------------------------------------
(* Profiles.                                                               *)

CreateCustomer(who, stop) ==
  /\ Room /\ cust' = Append(cust, New(who, None, stop))
  /\ excused' = excused \cup {Len(cust) + 1}
  /\ UNCHANGED <<clock, merges, edits, imports, job, raced, leadVars, touched>>

Profile(c) == [phone |-> cust[c].phone, stop |-> cust[c].stop]
SetProfile(c, p) ==
  /\ cust' = [cust EXCEPT ![c].phone = p.phone, ![c].stop = p.stop,
                          ![c].at = clock, ![c].edited = clock]
  /\ touched' = touched \cup Children(c) \cup {d \in {c} : Merged(d)}
  /\ UNCHANGED <<clock, merges, importVars, leadVars>>
UpdateProfiles(c, p) ==
  /\ Cardinality(edits) < MaxEdits /\ p # Profile(c)
  /\ SetProfile(c, p)
  /\ edits' = edits \cup {[customer |-> c, previous |-> Profile(c), current |-> p]}
ApplyProfileSnapshots(e) == /\ e.customer \in Ids /\ Profile(e.customer) = e.current
                            /\ SetProfile(e.customer, e.previous) /\ UNCHANGED edits

DeactivateCustomer(c) ==
  /\ cust[c].off # clock /\ cust' = [cust EXCEPT ![c].off = clock, ![c].edited = clock]
  /\ UNCHANGED <<clock, merges, edits, importVars, leadVars, touched>>

-----------------------------------------------------------------------------
(* Merging.                                                                *)

Snapshot(r) == [phone |-> r.phone, stop |-> r.stop, off |-> r.off, into |-> r.into]
FirstOf(x, y) == IF x # None THEN x ELSE y

\* Mutant: the survivor keeps its own consent.
SurvivorOnly(s, d) == [cust[s] EXCEPT !.phone = FirstOf(cust[s].phone, cust[d].phone), !.at = clock]
Survivor(s, d) == [cust[s] EXCEPT !.phone = FirstOf(cust[s].phone, cust[d].phone),
                                  !.stop = cust[s].stop \/ cust[d].stop, !.at = clock]
Absorbed(c, s) == [cust[c] EXCEPT !.into = s, !.off = clock, !.at = clock]
MergeCustomers(s, d) ==
  /\ s # d /\ Len(merges) < MaxMerges
  /\ ~Merged(s) /\ ~Merged(d) /\ cust[d].off = None
  /\ LET all == {s, d} \cup Children(d)
         now == [c \in all |-> IF c = s THEN Survivor(s, d) ELSE Absorbed(c, s)]
     IN /\ cust' = [c \in DOMAIN cust |-> IF c \in all THEN [now[c] EXCEPT !.edited = clock] ELSE cust[c]]
        /\ merges' = Append(merges, [survivor |-> s, duplicate |-> d,
             previous |-> [c \in all |-> Snapshot(cust[c])], merged |-> [c \in all |-> Snapshot(now[c])]])
  /\ UNCHANGED <<clock, edits, importVars, leadVars, touched>>

(* The rows, their count and each of their values, must be the receipt's.  *)
RestoreCustomerMerge(m) ==
  LET all == DOMAIN merges[m].previous
      old == merges[m].previous
  IN /\ \A c \in all : c \in Ids /\ Snapshot(cust[c]) = merges[m].merged[c]
     /\ cust' = [c \in DOMAIN cust |-> IF c \notin all THEN cust[c]
          ELSE [cust[c] EXCEPT !.phone = old[c].phone, !.stop = old[c].stop, !.off = old[c].off,
                               !.into = old[c].into, !.at = clock, !.edited = clock]]
     /\ excused' = excused \cup all
     /\ touched' = touched \cup {c \in Ids \ all : cust[c].into \in all}
     /\ UNCHANGED <<clock, merges, edits, imports, job, raced, leadVars>>

(* What the customer list counts: each record's purchases, one per record  *)
(* here, under the record it was merged into.                              *)
Listed == {c \in Ids : ~Merged(c)}
Canonical(c) == FirstOf(cust[c].into, c)
PurchaseCount(c) == Cardinality({d \in Ids : Canonical(d) = c})

-----------------------------------------------------------------------------
(* Importing: look for duplicates among the active customers, then insert. *)

Active == {c \in Ids : cust[c].off = None}
FindDuplicate(seen, who) == who \in seen
Accepted(file, seen) ==
  SelectSeq([i \in DOMAIN file |-> [who |-> file[i].who,
       keep |-> file[i].allow \/ ~FindDuplicate(seen \cup {file[k].who : k \in 1..i-1}, file[i].who),
       allow |-> file[i].allow]], LAMBDA r : r.keep)
ImportRead(w, file) ==
  /\ job[w] = None /\ Len(imports) < MaxImports
  /\ job' = [job EXCEPT ![w] = Accepted(file, {cust[c].who : c \in Active})]
  /\ raced' = (raced \/ \E v \in Workers : job[v] # None)
  /\ UNCHANGED <<clock, cust, merges, edits, imports, excused, leadVars, touched>>
ImportCustomers(w, actor) ==
  /\ job[w] # None /\ Len(cust) + Len(job[w]) <= MaxCustomers
  /\ LET ids == {Len(cust) + i : i \in DOMAIN job[w]}
     IN /\ cust' = cust \o [i \in DOMAIN job[w] |-> New(job[w][i].who, None, FALSE)]
        /\ imports' = Append(imports, [ids |-> ids, at |-> clock, actor |-> actor,
                                       undone |-> None, restored |-> FALSE])
        /\ excused' = excused \cup {Len(cust) + i : i \in {k \in DOMAIN job[w] : job[w][k].allow}}
  /\ job' = [job EXCEPT ![w] = None]
  /\ UNCHANGED <<clock, merges, edits, raced, leadVars, touched>>

Untouched(i) == {c \in imports[i].ids : cust[c].off = None /\ cust[c].at = imports[i].at}
UndoImport(i, actor) ==
  /\ imports[i].actor = actor /\ imports[i].ids # {} /\ imports[i].undone = None
  /\ Untouched(i) = imports[i].ids
  /\ cust' = [c \in DOMAIN cust |-> IF c \in imports[i].ids
                                    THEN [cust[c] EXCEPT !.off = clock, !.at = clock] ELSE cust[c]]
  /\ imports' = [imports EXCEPT ![i].undone = clock]
  /\ UNCHANGED <<clock, merges, edits, job, raced, excused, leadVars, touched>>
RestoreImport(i, actor) ==
  /\ imports[i].actor = actor /\ imports[i].undone # None /\ ~imports[i].restored
  /\ \A c \in imports[i].ids : cust[c].off = imports[i].undone /\ cust[c].at = imports[i].undone
  /\ cust' = [c \in DOMAIN cust |-> IF c \in imports[i].ids
                                    THEN [cust[c] EXCEPT !.off = None, !.at = clock] ELSE cust[c]]
  /\ imports' = [imports EXCEPT ![i].restored = TRUE]
  /\ excused' = excused \cup imports[i].ids
  /\ UNCHANGED <<clock, merges, edits, job, raced, leadVars, touched>>

-----------------------------------------------------------------------------
(* Leads.                                                                  *)

Attachable == Ids \cup {None}
CreateDeal(c) == /\ Len(deals) < MaxDeals
                 /\ deals' = Append(deals, [stage |-> "lead", customer |-> c, at |-> clock, moved |-> FALSE])
                 /\ UNCHANGED <<clock, cust, merges, edits, importVars, tasks, conversions, touched>>
MoveDealStage(d, stage) ==
  /\ deals[d].stage # stage
  /\ deals' = [deals EXCEPT ![d].stage = stage, ![d].at = clock, ![d].moved = TRUE]
  /\ UNCHANGED <<clock, cust, merges, edits, importVars, tasks, conversions, touched>>
CreateTask(c) == /\ c \notin tasks /\ tasks' = tasks \cup {c}
                 /\ UNCHANGED <<clock, cust, merges, edits, importVars, deals, conversions, touched>>
CompleteTask(c) == /\ tasks' = tasks \ {c}
                   /\ UNCHANGED <<clock, cust, merges, edits, importVars, deals, conversions, touched>>

Convert(d, c, row) ==
  /\ deals' = [deals EXCEPT ![d] = [stage |-> "qualified", customer |-> c, at |-> clock, moved |-> FALSE]]
  /\ conversions' = Append(conversions, [deal |-> d, customer |-> c, previous |-> deals[d].customer,
                                         row |-> row, at |-> clock, undone |-> None])
ConvertLead(d, c) ==
  /\ deals[d].stage = "lead" /\ Len(conversions) < MaxDeals
  /\ \/ c # None /\ Convert(d, c, None) /\ UNCHANGED <<cust, excused>>
     \/ /\ c = None /\ Room
        /\ LET row == New("lead", None, FALSE)
           IN cust' = Append(cust, row) /\ Convert(d, Len(cust) + 1, row)
        /\ excused' = excused \cup {Len(cust) + 1}
  /\ UNCHANGED <<clock, merges, edits, imports, job, raced, tasks, touched>>

(* Columns that reference customers; a task names one without a key.       *)
HasReferences(c, others) ==
  (\E d \in DOMAIN deals \ others : deals[d].customer = c) \/ (\E x \in Ids : cust[x].into = c)
UndoLeadConversion(k) ==
  LET v == conversions[k]
      d == deals[v.deal]
  IN /\ d.stage = "qualified" /\ d.customer = v.customer /\ d.at = v.at
     /\ v.previous \in Attachable
     /\ v.row # None => cust[v.customer] = v.row /\ ~HasReferences(v.customer, {v.deal})
                        /\ v.previous # v.customer
     /\ deals' = [deals EXCEPT ![v.deal].stage = "lead", ![v.deal].customer = v.previous, ![v.deal].at = clock]
     /\ cust' = IF v.row # None THEN [cust EXCEPT ![v.customer] = None] ELSE cust
     /\ conversions' = [conversions EXCEPT ![k].undone = clock]
     /\ UNCHANGED <<clock, merges, edits, importVars, tasks, touched>>
ReapplyLeadConversion(k) ==
  LET v == conversions[k]
      d == deals[v.deal]
  IN /\ v.undone # None
     /\ d.stage = "lead" /\ d.customer = v.previous /\ d.at = v.undone
     /\ IF v.row # None THEN v.customer \notin Ids ELSE v.customer \in Ids
     /\ cust' = IF v.row # None THEN [cust EXCEPT ![v.customer] = v.row] ELSE cust
     /\ deals' = [deals EXCEPT ![v.deal].stage = "qualified", ![v.deal].customer = v.customer, ![v.deal].at = v.at]
     /\ conversions' = [conversions EXCEPT ![k].undone = None]
     /\ UNCHANGED <<clock, merges, edits, importVars, tasks, touched>>

-----------------------------------------------------------------------------
CustomerNext ==
  \/ \E who \in People, s \in BOOLEAN : CreateCustomer(who, s)
  \/ \E c \in Ids : \/ \E p \in {"none", "1"}, s \in BOOLEAN :
                         UpdateProfiles(c, [phone |-> IF p = "none" THEN None ELSE p, stop |-> s])
                    \/ DeactivateCustomer(c)
  \/ \E e \in edits : ApplyProfileSnapshots(e)
  \/ \E s, d \in Ids : MergeCustomers(s, d)
  \/ \E m \in DOMAIN merges : RestoreCustomerMerge(m)
ImportNext == \/ \E w \in Workers : \/ \E f \in Files : ImportRead(w, f)
                                    \/ \E a \in Actors : ImportCustomers(w, a)
              \/ \E i \in DOMAIN imports, a \in Actors : UndoImport(i, a) \/ RestoreImport(i, a)
LeadNext == \/ \E c \in Attachable : CreateDeal(c)
            \/ \E d \in DOMAIN deals : \/ \E s \in Stages : MoveDealStage(d, s)
                                       \/ \E c \in Attachable : ConvertLead(d, c)
            \/ MaxDeals > 0 /\ \E c \in Ids : CreateTask(c)
            \/ \E c \in tasks : CompleteTask(c)
            \/ \E k \in DOMAIN conversions : UndoLeadConversion(k) \/ ReapplyLeadConversion(k)
Next == Tick \/ CustomerNext \/ ImportNext \/ LeadNext
Spec == Init /\ [][Next]_vars

-----------------------------------------------------------------------------
(* Properties.                                                             *)

(* A merged record points at a record that is not merged, in whatever      *)
(* order merges are made and undone, so every purchase is listed once.     *)
MergesAreFlat ==
  /\ \A c \in Ids : Merged(c) => cust[c].off # None /\ cust[c].into \in Listed
  /\ MapThenSumSet(LAMBDA c : PurchaseCount(c), Listed) = Cardinality(Ids)

(* Whoever asked not to be contacted is not contacted under the record     *)
(* theirs became, unless one of the two was edited after the merge, or a   *)
(* merge before it was undone: that puts the survivor's old consent back   *)
(* when the later merge changed none of its values.                        *)
ConsentSurvives == \A c \in Ids :
  Merged(c) /\ cust[c].stop /\ c \notin touched => cust[cust[c].into].stop

(* An undone import takes no customer away that was edited after it, save  *)
(* for an edit in the millisecond of the import.                           *)
ImportsUndoOnlyThemselves == \A i \in DOMAIN imports :
  imports[i].undone # None => \A c \in imports[i].ids :
    cust[c].edited = None \/ cust[c].edited = imports[i].at \/ cust[c].edited >= imports[i].undone

(* Two active customers describe one person only by hand, by leave, by an  *)
(* undo, or because imports overlapped.                                    *)
DuplicatesAreExcused == \A c, d \in Active :
  c # d /\ cust[c].who = cust[d].who => raced \/ c \in excused \/ d \in excused \/ c \in DOMAIN Known

(* No deal names a customer that is gone, however often conversions are    *)
(* undone and reapplied, and a conversion that is not undone is visible in *)
(* its deal unless the deal was converted or moved again.                  *)
DealsAreAttached ==
  /\ \A d \in DOMAIN deals : deals[d].customer \in Attachable
  /\ \A k \in DOMAIN conversions : conversions[k].undone = None =>
       \/ deals[conversions[k].deal].customer = conversions[k].customer
       \/ deals[conversions[k].deal].moved
       \/ \E j \in DOMAIN conversions : j # k /\ conversions[j].deal = conversions[k].deal

(* Merges, consent, imports, duplicates and leads stay consistent.         *)
CustomersAreKept == /\ MergesAreFlat /\ ConsentSurvives /\ ImportsUndoOnlyThemselves
                    /\ DuplicatesAreExcused /\ DealsAreAttached
=============================================================================
