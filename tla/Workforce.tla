------------------------------ MODULE Workforce ------------------------------
(***************************************************************************)
(* Employees, their leave, their hours and their pay, and the applicants   *)
(* who become employees.  Payroll, hiring and clocking in read first and   *)
(* write later without a lock on what they read; only the posting door of  *)
(* the books serialises, so what overlapped is remembered in raced.        *)
(***************************************************************************)
EXTENDS Integers, Sequences, FiniteSets, FiniteSetsExt, SequencesExt

CONSTANTS Staff,       \* at the start: sequence of [salary, rate]
          Spans,       \* leave that may be asked for: [kind, from, to]
          Months,      \* the months paid, a range of numbers
          MonthDays,   \* days of a month
          Applicants, Workers,
          Bosses,      \* the employees others may report to
          Entitlement, \* days of annual leave
          MaxStaff, MaxLeaves, MaxEntries, Horizon, None

VARIABLES clock, staff, leaves, runs, posted, hours, opening, applicants, job, raced

vars == <<clock, staff, leaves, runs, posted, hours, opening, applicants, job, raced>>
payVars == <<runs, posted>>
hireVars == <<opening, applicants>>

Employee(salary, rate, from) ==
  [salary |-> salary, rate |-> rate, active |-> TRUE, boss |-> None, from |-> from]
Init == /\ clock = 0 /\ leaves = <<>> /\ posted = <<>> /\ hours = <<>> /\ raced = {}
        /\ staff = [i \in DOMAIN Staff |-> Employee(Staff[i].salary, Staff[i].rate, None)]
        /\ runs = [m \in Months |-> None] /\ opening = "open"
        /\ applicants = [x \in Applicants |-> None] /\ job = [w \in Workers |-> None]
Tick == /\ clock < Horizon /\ clock' = clock + 1
        /\ UNCHANGED <<staff, leaves, payVars, hours, hireVars, job, raced>>

(* A caller that has read and not yet written.                             *)
Reading(what) == {w \in Workers : job[w] # None /\ job[w].what = what}
Read(w, note) == /\ job[w] = None /\ job' = [job EXCEPT ![w] = note]
                 /\ raced' = IF Reading(note.what) = {} THEN raced ELSE raced \cup {note.what}
Done(w) == job' = [job EXCEPT ![w] = None]
Abandon(w) == /\ job[w] # None /\ Done(w)
              /\ UNCHANGED <<clock, staff, leaves, payVars, hours, hireVars, raced>>

-----------------------------------------------------------------------------
(* Employees.                                                              *)

HireEmployee(salary, rate) ==
  /\ Len(staff) < MaxStaff /\ staff' = Append(staff, Employee(salary, rate, None))
  /\ UNCHANGED <<clock, leaves, payVars, hours, hireVars, job, raced>>
DeactivateEmployee(e) ==
  /\ staff[e].active /\ staff' = [staff EXCEPT ![e].active = FALSE]
  /\ UNCHANGED <<clock, leaves, payVars, hours, hireVars, job, raced>>
UpdateEmployeeStructure(e, boss) ==
  /\ boss # e /\ staff' = [staff EXCEPT ![e].boss = boss]
  /\ UNCHANGED <<clock, leaves, payVars, hours, hireVars, job, raced>>

-----------------------------------------------------------------------------
(* Leave, by day; both ends are taken.                                     *)

CalendarDaysBetween(from, to) == to - from + 1
RequestLeave(e, span) ==
  /\ Len(leaves) < MaxLeaves /\ span.to >= span.from
  /\ leaves' = Append(leaves, [employee |-> e, kind |-> span.kind, from |-> span.from, to |-> span.to,
                               status |-> "pending"])
  /\ UNCHANGED <<clock, staff, payVars, hours, hireVars, job, raced>>
DecideLeave(l, status) ==
  /\ leaves[l].status = "pending" /\ leaves' = [leaves EXCEPT ![l].status = status]
  /\ UNCHANGED <<clock, staff, payVars, hours, hireVars, job, raced>>
CancelLeave(l) == DecideLeave(l, "cancelled")

Approved(e, kind) == {l \in DOMAIN leaves :
  leaves[l].employee = e /\ leaves[l].kind = kind /\ leaves[l].status = "approved"}
Taken(e, yearStart) == MapThenSumSet(LAMBDA l : CalendarDaysBetween(leaves[l].from, leaves[l].to),
                                     {l \in Approved(e, "annual") : leaves[l].from >= yearStart})
LeaveBalance(e, yearStart) == Entitlement - Taken(e, yearStart)

-----------------------------------------------------------------------------
(* Payroll.                                                                *)

FirstDay(m) == (m - 1) * MonthDays + 1
RoundHalfUp(n, d) == (2 * n + d) \div (2 * d)
Clip(m, from, to) == Max({0, Min({to + 1, FirstDay(m + 1)}) - Max({from, FirstDay(m)})})
UnpaidLeaveDaysInMonth(m, spans) ==
  Min({MonthDays, MapThenSumSet(LAMBDA l : Clip(m, leaves[l].from, leaves[l].to), spans)})
WorkedFraction(days) == RoundHalfUp((MonthDays - days) * 1000, MonthDays)
ComputePayslip(e, days) ==
  LET gross == RoundHalfUp(staff[e].salary * WorkedFraction(days), 1000)
      tax == RoundHalfUp(gross * staff[e].rate, 10000)
  IN [days |-> days, gross |-> gross, tax |-> tax, net |-> gross - tax]
Total(slips, F(_)) == MapThenSumSet(LAMBDA e : F(slips[e]), DOMAIN slips)
Summary(slips) == [gross |-> Total(slips, LAMBDA s : s.gross), tax |-> Total(slips, LAMBDA s : s.tax),
                   net |-> Total(slips, LAMBDA s : s.net)]

Active == {e \in DOMAIN staff : staff[e].active}
DraftRead(w, m) == /\ runs[m] = None /\ Active # {}
                   /\ Read(w, [what |-> <<"draft", m>>, staff |-> Active])
                   /\ UNCHANGED <<clock, staff, leaves, payVars, hours, hireVars>>
CreatePayrollRun(w, m) ==
  /\ job[w] # None /\ job[w].what = <<"draft", m>>
  /\ runs[m] = None
  /\ LET slips == [e \in job[w].staff |->
                     ComputePayslip(e, UnpaidLeaveDaysInMonth(m, Approved(e, "unpaid")))]
     IN /\ \A e \in DOMAIN slips : slips[e].net >= 0
        /\ runs' = [runs EXCEPT ![m] = [status |-> "draft", slips |-> slips, entry |-> None]]
  /\ Done(w) /\ UNCHANGED <<clock, staff, leaves, posted, hours, hireVars, raced>>

Reversals(i) == {j \in DOMAIN posted : posted[j].of = i}
(* The posting door: every line has an amount, an entry is reversed once.  *)
PostJournalEntry(m, sum, of) ==
  /\ sum.gross # 0 /\ sum.tax # 0 /\ sum.net # 0
  /\ of # None => Reversals(of) = {}
  /\ posted' = Append(posted, [month |-> m, sum |-> sum, of |-> of])

ExecuteRead(w, m) == /\ runs[m] # None /\ runs[m].status = "draft"
                     /\ Read(w, [what |-> <<"execute", m>>])
                     /\ UNCHANGED <<clock, staff, leaves, payVars, hours, hireVars>>
ExecutePayrollRun(w, m) ==
  /\ job[w] # None /\ job[w].what = <<"execute", m>>
  /\ PostJournalEntry(m, Summary(runs[m].slips), None)
  /\ runs' = [runs EXCEPT ![m].status = "executed", ![m].entry = Len(posted) + 1]
  /\ Done(w) /\ UNCHANGED <<clock, staff, leaves, hours, hireVars, raced>>
VoidPayrollRun(m) ==
  /\ runs[m] # None /\ runs[m].status = "draft" /\ runs' = [runs EXCEPT ![m].status = "voided"]
  /\ UNCHANGED <<clock, staff, leaves, posted, hours, hireVars, job, raced>>

ReverseRead(w, m) == /\ runs[m] # None /\ runs[m].status = "executed" /\ Reversals(runs[m].entry) = {}
                     /\ Read(w, [what |-> <<"reverse", m>>, entry |-> runs[m].entry])
                     /\ UNCHANGED <<clock, staff, leaves, payVars, hours, hireVars>>
\* Mutant: the reversal trusts its earlier look and does not ask the books.
ReverseBlindly(w, m) ==
  /\ job[w] # None /\ job[w].what = <<"reverse", m>>
  /\ posted' = Append(posted, [month |-> m, sum |-> posted[job[w].entry].sum, of |-> job[w].entry])
  /\ runs' = [runs EXCEPT ![m].status = "reversed"]
  /\ Done(w) /\ UNCHANGED <<clock, staff, leaves, hours, hireVars, raced>>
ReversePayrollPosting(w, m) ==
  /\ job[w] # None /\ job[w].what = <<"reverse", m>>
  /\ PostJournalEntry(m, posted[job[w].entry].sum, job[w].entry)
  /\ runs' = [runs EXCEPT ![m].status = "reversed"]
  /\ Done(w) /\ UNCHANGED <<clock, staff, leaves, hours, hireVars, raced>>

-----------------------------------------------------------------------------
(* Hours, in half minutes on the clock and in minutes on the entry.        *)

Hour(e, start, minutes) == [employee |-> e, start |-> start, out |-> None, minutes |-> minutes,
                            status |-> "submitted", seen |-> None]
OpenEntries(e) == {h \in DOMAIN hours : hours[h].employee = e /\ hours[h].start # None /\ hours[h].out = None}
LogTime(e, minutes) ==
  /\ Len(hours) < MaxEntries /\ hours' = Append(hours, Hour(e, None, minutes))
  /\ UNCHANGED <<clock, staff, leaves, payVars, hireVars, job, raced>>
ClockInRead(w, e) == /\ OpenEntries(e) = {} /\ Len(hours) < MaxEntries
                     /\ Read(w, [what |-> <<"clock", e>>])
                     /\ UNCHANGED <<clock, staff, leaves, payVars, hours, hireVars>>
ClockIn(w, e) == /\ job[w] # None /\ job[w].what = <<"clock", e>>
                 /\ hours' = Append(hours, Hour(e, clock, 0)) /\ Done(w)
                 /\ UNCHANGED <<clock, staff, leaves, payVars, hireVars, raced>>
Minutes(start) == Max({1, (clock - start + 1) \div 2})
ClockOut(h) ==
  /\ h \in OpenEntries(hours[h].employee)
  /\ \A k \in OpenEntries(hours[h].employee) : hours[k].start <= hours[h].start
  /\ hours' = [hours EXCEPT ![h].out = clock, ![h].minutes = Minutes(hours[h].start)]
  /\ UNCHANGED <<clock, staff, leaves, payVars, hireVars, job, raced>>
DecideTimeEntry(h, status) ==
  /\ hours[h].status = "submitted"
  /\ hours' = [hours EXCEPT ![h].status = status,
                            ![h].seen = IF hours[h].start = None \/ hours[h].out # None
                                        THEN hours[h].minutes ELSE None]
  /\ UNCHANGED <<clock, staff, leaves, payVars, hireVars, job, raced>>
TimeReport(e, status) == MapThenSumSet(LAMBDA h : hours[h].minutes,
  {h \in DOMAIN hours : hours[h].employee = e /\ hours[h].status = status})
PendingTimeEntries == {h \in DOMAIN hours : hours[h].status = "submitted" /\ hours[h].minutes > 0}

-----------------------------------------------------------------------------
(* Hiring.                                                                 *)

CloseOpening == /\ opening = "open" /\ opening' = "closed"
                /\ UNCHANGED <<clock, staff, leaves, payVars, hours, applicants, job, raced>>
AddApplicant(x) ==
  /\ opening = "open" /\ applicants[x] = None
  /\ applicants' = [applicants EXCEPT ![x] = [stage |-> "applied", employee |-> None]]
  /\ UNCHANGED <<clock, staff, leaves, payVars, hours, opening, job, raced>>
Undecided(x) == applicants[x] # None /\ applicants[x].stage \notin {"hired", "rejected"}
ApplicantRead(w, x) == /\ Undecided(x) /\ Read(w, [what |-> <<"applicant", x>>])
                       /\ UNCHANGED <<clock, staff, leaves, payVars, hours, hireVars>>
MoveApplicant(w, x, stage) ==
  /\ job[w] # None /\ job[w].what = <<"applicant", x>>
  /\ applicants' = [applicants EXCEPT ![x].stage = stage]
  /\ Done(w) /\ UNCHANGED <<clock, staff, leaves, payVars, hours, opening, raced>>
HireApplicant(w, x) ==
  /\ job[w] # None /\ job[w].what = <<"applicant", x>> /\ Len(staff) < MaxStaff
  /\ staff' = Append(staff, Employee(1, 0, x))
  /\ applicants' = [applicants EXCEPT ![x] = [stage |-> "hired", employee |-> Len(staff) + 1]]
  /\ Done(w) /\ UNCHANGED <<clock, leaves, payVars, hours, opening, raced>>

-----------------------------------------------------------------------------
StaffNext == \/ HireEmployee(1000, 1000)
             \/ \E e \in DOMAIN staff : \/ DeactivateEmployee(e)
                                        \/ \E b \in Bosses \cap DOMAIN staff : UpdateEmployeeStructure(e, b)
LeaveNext == \/ \E e \in DOMAIN staff, s \in Spans : RequestLeave(e, s)
             \/ \E l \in DOMAIN leaves : \/ \E s \in {"approved", "rejected"} : DecideLeave(l, s)
                                         \/ CancelLeave(l)
PayNext == \E m \in Months :
  \/ VoidPayrollRun(m)
  \/ \E w \in Workers : \/ DraftRead(w, m) \/ CreatePayrollRun(w, m) \/ ExecuteRead(w, m)
                        \/ ExecutePayrollRun(w, m) \/ ReverseRead(w, m) \/ ReversePayrollPosting(w, m)
TimeNext == \/ Tick
            \/ \E e \in DOMAIN staff : \/ MaxEntries > 0 /\ LogTime(e, 1)
                                       \/ \E w \in Workers : ClockInRead(w, e) \/ ClockIn(w, e)
            \/ \E h \in DOMAIN hours : \/ ClockOut(h)
                                       \/ \E s \in {"approved", "rejected"} : DecideTimeEntry(h, s)
HireNext == \/ Applicants # {} /\ CloseOpening
            \/ \E x \in Applicants :
                 \/ AddApplicant(x)
                 \/ \E w \in Workers : \/ ApplicantRead(w, x) \/ HireApplicant(w, x)
                                       \/ \E s \in {"offer", "rejected"} : MoveApplicant(w, x, s)
Next == \/ StaffNext \/ LeaveNext \/ PayNext \/ TimeNext \/ HireNext
        \/ \E w \in Workers : Abandon(w)
Spec == Init /\ [][Next]_vars

-----------------------------------------------------------------------------
(* Properties.                                                             *)

(* The books hold one unreversed posting of an executed run and none of    *)
(* another, unless two executions overlapped or a run was voided under an  *)
(* execution; and whatever overlapped, each posting is for the totals of   *)
(* the draft that was looked at, and is reversed at most once.             *)
Standing(m) == {i \in DOMAIN posted :
  posted[i].month = m /\ posted[i].of = None /\ Reversals(i) = {}}
PayrollIsPostedOnce ==
  /\ \A m \in Months :
       LET due == IF runs[m] # None /\ runs[m].status = "executed" THEN {runs[m].entry} ELSE {}
       IN due \subseteq Standing(m) /\ (<<"execute", m>> \in raced \/ Standing(m) = due)
  /\ \A i \in DOMAIN posted : /\ posted[i].sum = Summary(runs[posted[i].month].slips)
                              /\ Cardinality(Reversals(i)) <= 1

(* A payslip pays for the days that were not taken as unpaid leave, each   *)
(* day once unless spans of leave overlap, and its parts add up.           *)
DaysOff(e, m) == {d \in FirstDay(m) .. FirstDay(m + 1) - 1 :
  \E l \in Approved(e, "unpaid") : d \in leaves[l].from .. leaves[l].to}
Overlap(e, kind) == \E l, k \in Approved(e, kind) :
  l # k /\ leaves[l].from <= leaves[k].to /\ leaves[k].from <= leaves[l].to
PayslipsAreFair == \A m \in Months : runs[m] # None =>
  \A e \in DOMAIN runs[m].slips :
    LET s == runs[m].slips[e]
    IN /\ s.gross = s.net + s.tax /\ s.tax >= 0 /\ s.tax <= s.gross /\ s.gross <= staff[e].salary
       /\ s.days = 0 => s.gross = staff[e].salary
       /\ s.days = MonthDays => s.net = 0
       /\ s.days <= Cardinality(DaysOff(e, m)) \/ Overlap(e, "unpaid")
       /\ \A f \in DOMAIN runs[m].slips : staff[f].salary = staff[e].salary /\ runs[m].slips[f].days > s.days
            => runs[m].slips[f].gross < s.gross

(* The leave balance counts every approved day of the year once, unless    *)
(* leave overlaps or runs over the turn of the year.                       *)
BalanceIsTrue == \A e \in DOMAIN staff :
  LET year == FirstDay(2)
      off == UNION {leaves[l].from .. leaves[l].to : l \in Approved(e, "annual")}
  IN \/ Overlap(e, "annual") \/ (year - 1 \in off /\ year \in off)
     \/ LeaveBalance(e, year) = Entitlement - Cardinality({d \in off : d >= year})

(* Nobody is clocked in twice unless two clock-ins overlapped; hours that  *)
(* were complete when they were decided stay what was decided on, and the  *)
(* report pays no minute that is still pending.                            *)
HoursAreTrue ==
  /\ \A e \in DOMAIN staff : Cardinality(OpenEntries(e)) <= 1 \/ <<"clock", e>> \in raced
  /\ \A h \in DOMAIN hours : hours[h].seen # None => hours[h].minutes = hours[h].seen
  /\ \A e \in DOMAIN staff : TimeReport(e, "submitted") =
       MapThenSumSet(LAMBDA h : hours[h].minutes, {h \in PendingTimeEntries : hours[h].employee = e})

(* An applicant becomes one employee, and the one on file, unless two      *)
(* decisions on the application overlapped.                                *)
HiredOnce == \A x \in Applicants :
  LET as == {e \in DOMAIN staff : staff[e].from = x}
  IN \/ <<"applicant", x>> \in raced
     \/ as = IF applicants[x] # None /\ applicants[x].stage = "hired" THEN {applicants[x].employee} ELSE {}

(* Pay, leave, hours and hiring stay consistent.                           *)
StaffIsTreatedFairly == /\ PayrollIsPostedOnce /\ PayslipsAreFair /\ BalanceIsTrue /\ HoursAreTrue /\ HiredOnce
=============================================================================
