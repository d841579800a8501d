------------------------------ MODULE Schedules ------------------------------
(***************************************************************************)
(* What the worker starts by the clock: routines, which are turns of an    *)
(* agent, and recurring invoices.  A pass of the scheduler lists what is   *)
(* due, then locks it, records the occurrence under its scheduled time and *)
(* enqueues a job.  A routine's next time is advanced with the occurrence, *)
(* an invoice's when its job has billed.  People edit, pause and resume    *)
(* in between, with a time they read before they waited for the row.       *)
(***************************************************************************)
EXTENDS Integers, Sequences, FiniteSets, FiniteSetsExt, SequencesExt

CONSTANTS Routines,    \* ids of routines, numbers
          Schedulings, \* the schedules a routine may have
          Templates,   \* ids of recurring invoices, numbers
          Period,      \* between two invoices of a template
          Workers, Editors,
          Batch,       \* candidates of one pass
          MaxAttempts, MaxJobs, MaxTickets, Horizon, None

VARIABLES clock, routine, template, occ, jobs, pass, turn, edit, late, resumed,
          tickets, notes, invoices, unacked

vars == <<clock, routine, template, occ, jobs, pass, turn, edit, late, resumed,
          tickets, notes, invoices, unacked>>
outVars == <<tickets, notes, invoices, unacked>>

-----------------------------------------------------------------------------
(* The next time of a schedule: two slots a day, days counted from a       *)
(* Sunday.  The probe looks at eight days, this one first.                 *)

SlotsPerDay == 2
DayOf(t) == t \div SlotsPerDay
At(day, slot) == day * SlotsPerDay + slot
Weekday(t) == DayOf(t) % 7
Probe(from, slot, days) ==
  LET hits == {i \in 0 .. 7 : Weekday(At(DayOf(from) + i, slot)) \in days /\ At(DayOf(from) + i, slot) > from}
  IN IF hits = {} THEN None ELSE At(DayOf(from) + Min(hits), slot)
Or(t, fallback) == IF t = None THEN fallback ELSE t
NextRun(s, from) ==
  CASE s.kind = "interval" -> from + s.every
    [] s.kind = "daily" -> IF At(DayOf(from), s.at) > from THEN At(DayOf(from), s.at)
                           ELSE At(DayOf(from), s.at) + SlotsPerDay
    [] s.kind = "weekdays" -> Or(Probe(from, s.at, 1 .. 5), from + SlotsPerDay)
    [] s.kind = "weekly" -> Or(Probe(from, s.at, {s.day}), from + 7 * SlotsPerDay)

-----------------------------------------------------------------------------
Init == /\ clock = 0 /\ occ = {} /\ jobs = <<>> /\ late = {} /\ resumed = {<<t, 0>> : t \in Templates}
        /\ routine = [r \in Routines |-> None]
        /\ template = [t \in Templates |-> [active |-> TRUE, next |-> 0]]
        /\ pass = [w \in Workers |-> None] /\ turn = [w \in Workers |-> None]
        /\ edit = [e \in Editors |-> None]
        /\ tickets = <<>> /\ notes = <<>> /\ invoices = {} /\ unacked = <<>>
Tick == /\ clock < Horizon /\ clock' = clock + 1
        /\ UNCHANGED <<routine, template, occ, jobs, pass, turn, edit, late, resumed, outVars>>

Exists(r) == routine[r] # None /\ ~routine[r].gone
Occurrence(what, id, at) == {o \in occ : o.what = what /\ o.id = id /\ o.at = at}
Enqueue(what, id, trigger, at) ==
  /\ jobs' = Append(jobs, [what |-> what, id |-> id, trigger |-> trigger, at |-> at,
                           status |-> "pending", attempts |-> 0, token |-> 0])
  /\ tickets' = Append(tickets, 0) /\ notes' = Append(notes, 0) /\ unacked' = Append(unacked, 0)

-----------------------------------------------------------------------------
(* Routines.                                                               *)

CreateRoutine(r, s, hook) ==
  /\ routine[r] = None
  /\ routine' = [routine EXCEPT ![r] = [schedule |-> s, enabled |-> TRUE, hook |-> hook,
                                        next |-> NextRun(s, clock), last |-> None, gone |-> FALSE]]
  /\ UNCHANGED <<clock, template, occ, jobs, pass, turn, edit, late, resumed, outVars>>
(* An edit takes its time, then waits for the row.                         *)
BeginUpdate(e, r, s, enabled) ==
  /\ edit[e] = None /\ Exists(r)
  /\ edit' = [edit EXCEPT ![e] = [what |-> "routine", id |-> r, schedule |-> s, enabled |-> enabled, now |-> clock]]
  /\ UNCHANGED <<clock, routine, template, occ, jobs, pass, turn, late, resumed, outVars>>
UpdateRoutine(e) ==
  /\ edit[e] # None /\ edit[e].what = "routine"
  /\ LET r == edit[e].id
         s == edit[e].schedule
         next == IF s = None THEN routine[r].next ELSE NextRun(s, edit[e].now)
     IN IF Exists(r)
        THEN /\ routine' = [routine EXCEPT ![r].enabled = edit[e].enabled, ![r].next = next,
                                           ![r].schedule = IF s = None THEN @ ELSE s]
             /\ late' = IF \E o \in occ : o.what = "routine" /\ o.id = r /\ o.at >= next
                        THEN late \cup {<<"routine", r>>} ELSE late
        ELSE UNCHANGED <<routine, late>>
  /\ edit' = [edit EXCEPT ![e] = None]
  /\ UNCHANGED <<clock, template, occ, jobs, pass, turn, resumed, outVars>>
DeleteRoutine(r) ==
  /\ Exists(r) /\ routine' = [routine EXCEPT ![r].gone = TRUE]
  /\ occ' = {o \in occ : o.what # "routine" \/ o.id # r} /\ late' = late \ {<<"routine", r>>}
  /\ UNCHANGED <<clock, template, jobs, pass, turn, edit, resumed, outVars>>
RunNow(r) ==
  /\ Exists(r) /\ Len(jobs) < MaxJobs
  /\ Enqueue("routine", r, "manual", None)
  /\ UNCHANGED <<clock, routine, template, occ, pass, turn, edit, late, resumed, invoices>>

IsDue(r, now) == Exists(r) /\ routine[r].enabled /\ ~routine[r].hook /\ routine[r].next <= now
Before(r, q) == routine[r].next < routine[q].next \/ (routine[r].next = routine[q].next /\ r < q)
Candidates == LET due == {r \in Routines : IsDue(r, clock)}
              IN {r \in due : Cardinality({q \in due : Before(q, r)}) < Batch}
ListDueRoutines(w) ==
  /\ pass[w] = None /\ Candidates # {}
  /\ pass' = [pass EXCEPT ![w] = [what |-> "routine", ids |-> Candidates, now |-> clock]]
  /\ UNCHANGED <<clock, routine, template, occ, jobs, turn, edit, late, resumed, outVars>>

\* Mutant: the next time is counted from the scheduled one, and may be past.
AdvanceFromScheduled(s, scheduled, now) == scheduled
AdvanceRoutine(s, scheduled, now) == NextRun(s, now)
(* The lock, the occurrence, the job and the advance, for one routine.     *)
ScheduleRoutine(w, r) ==
  /\ pass[w] # None /\ pass[w].what = "routine" /\ r \in pass[w].ids
  /\ pass' = [pass EXCEPT ![w] = IF @.ids = {r} THEN None ELSE [@ EXCEPT !.ids = @ \ {r}]]
  /\ IF IsDue(r, pass[w].now) /\ Occurrence("routine", r, routine[r].next) = {}
     THEN /\ Len(jobs) < MaxJobs
          /\ occ' = occ \cup {[what |-> "routine", id |-> r, at |-> routine[r].next,
                               job |-> Len(jobs) + 1, status |-> "queued"]}
          /\ Enqueue("routine", r, "schedule", routine[r].next)
          /\ routine' = [routine EXCEPT ![r].last = "running",
               ![r].next = AdvanceRoutine(routine[r].schedule, routine[r].next, pass[w].now)]
     ELSE UNCHANGED <<occ, jobs, routine, tickets, notes, unacked>>
  /\ UNCHANGED <<clock, template, turn, edit, late, resumed, invoices>>

-----------------------------------------------------------------------------
(* A routine's turn: every write is fenced by the job's lease.             *)

Current(w) == turn[w] # None /\ jobs[turn[w].job].token = turn[w].token
              /\ jobs[turn[w].job].status = "running"
Claim(w, j) ==
  /\ turn[w] = None /\ jobs[j].what = "routine" /\ jobs[j].attempts < MaxAttempts
  /\ jobs[j].status \in {"pending", "running"}
  /\ jobs' = [jobs EXCEPT ![j].status = "running", ![j].attempts = @ + 1, ![j].token = @ + 1]
  /\ turn' = [turn EXCEPT ![w] = [job |-> j, token |-> jobs[j].token + 1, phase |-> "load", result |-> None]]
  /\ UNCHANGED <<clock, routine, template, occ, pass, edit, late, resumed, outVars>>
(* A lease that ran out on the last attempt.                               *)
Sweep(j) == /\ jobs[j].status = "running" /\ jobs[j].attempts = MaxAttempts
            /\ jobs' = [jobs EXCEPT ![j].status = "failed"]
            /\ UNCHANGED <<clock, routine, template, occ, pass, turn, edit, late, resumed, outVars>>
(* A worker that crashed, or that learns it lost its lease.                *)
Stop(w) == /\ turn[w] # None /\ turn' = [turn EXCEPT ![w] = None]
           /\ UNCHANGED <<clock, routine, template, occ, jobs, pass, edit, late, resumed, outVars>>

Phase(w, phase, result) == turn' = [turn EXCEPT ![w].phase = phase, ![w].result = result]
Finish(w, status) ==
  LET j == turn[w].job
      r == jobs[j].id
  IN /\ routine' = IF Exists(r) THEN [routine EXCEPT ![r].last = status] ELSE routine
     /\ occ' = {IF o.what = "routine" /\ o.job = j
                THEN [o EXCEPT !.status = IF status = "ok" THEN "done" ELSE status] ELSE o : o \in occ}
LoadRoutine(w) ==
  /\ Current(w) /\ turn[w].phase = "load"
  /\ LET j == turn[w].job
     IN IF ~Exists(jobs[j].id) THEN Phase(w, "ack", "done") /\ UNCHANGED <<routine, occ>>
        ELSE IF ~routine[jobs[j].id].enabled /\ jobs[j].trigger = "schedule"
        THEN Finish(w, "cancelled") /\ Phase(w, "ack", "done")
        ELSE Phase(w, "loop", None) /\ UNCHANGED <<routine, occ>>
  /\ UNCHANGED <<clock, template, jobs, pass, edit, late, resumed, outVars>>
FileTicket(w) ==
  /\ Current(w) /\ turn[w].phase = "loop" /\ tickets[turn[w].job] < MaxTickets
  /\ tickets' = [tickets EXCEPT ![turn[w].job] = @ + 1]
  /\ UNCHANGED <<clock, routine, template, occ, jobs, pass, turn, edit, late, resumed, notes, invoices, unacked>>
Answer(w, finding) ==
  /\ Current(w) /\ turn[w].phase = "loop"
  /\ Finish(w, "ok") /\ Phase(w, IF finding THEN "notify" ELSE "ack", "done")
  /\ unacked' = [unacked EXCEPT ![turn[w].job] = @ + 1]
  /\ UNCHANGED <<clock, template, jobs, pass, edit, late, resumed, tickets, notes, invoices>>
AnswerFails(w) ==
  /\ Current(w) /\ turn[w].phase = "loop"
  /\ Finish(w, "failed") /\ Phase(w, "ack", "failed")
  /\ UNCHANGED <<clock, template, jobs, pass, edit, late, resumed, outVars>>
Notify(w) ==
  /\ Current(w) /\ turn[w].phase = "notify" /\ Phase(w, "ack", "done")
  /\ notes' = [notes EXCEPT ![turn[w].job] = @ + 1]
  /\ UNCHANGED <<clock, routine, template, occ, jobs, pass, edit, late, resumed, tickets, invoices, unacked>>
Finalize(w) ==
  /\ Current(w) /\ turn[w].phase = "ack"
  /\ jobs' = [jobs EXCEPT ![turn[w].job].status =
                IF turn[w].result = "done" THEN "done"
                ELSE IF jobs[turn[w].job].attempts >= MaxAttempts THEN "failed" ELSE "pending"]
  /\ turn' = [turn EXCEPT ![w] = None]
  /\ UNCHANGED <<clock, routine, template, occ, pass, edit, late, resumed, outVars>>

-----------------------------------------------------------------------------
(* Recurring invoices.                                                     *)

PauseTemplate(t) ==
  /\ template[t].active /\ template' = [template EXCEPT ![t].active = FALSE]
  /\ UNCHANGED <<clock, routine, occ, jobs, pass, turn, edit, late, resumed, outVars>>
BeginResume(e, t) ==
  /\ edit[e] = None /\ edit' = [edit EXCEPT ![e] = [what |-> "resume", id |-> t, now |-> clock]]
  /\ UNCHANGED <<clock, routine, template, occ, jobs, pass, turn, late, resumed, outVars>>
ResumeTemplate(e) ==
  /\ edit[e] # None /\ edit[e].what = "resume"
  /\ template' = [template EXCEPT ![edit[e].id] = [active |-> TRUE, next |-> edit[e].now]]
  /\ resumed' = resumed \cup {<<edit[e].id, edit[e].now>>}
  /\ late' = IF \E o \in Occurrence("invoice", edit[e].id, edit[e].now) : o.status = "completed"
             THEN late \cup {<<"invoice", edit[e].id>>} ELSE late \ {<<"invoice", edit[e].id>>}
  /\ edit' = [edit EXCEPT ![e] = None]
  /\ UNCHANGED <<clock, routine, occ, jobs, pass, turn, outVars>>

Owed(t, now) == template[t].active /\ template[t].next <= now
Taken(t) == \E o \in Occurrence("invoice", t, template[t].next) : o.status \in {"queued", "completed"}
ListDueInvoices(w) ==
  LET due == {t \in Templates : Owed(t, clock) /\ ~Taken(t)}
  IN /\ pass[w] = None /\ due # {}
     /\ pass' = [pass EXCEPT ![w] = [what |-> "invoice", ids |-> due, now |-> clock]]
     /\ UNCHANGED <<clock, routine, template, occ, jobs, turn, edit, late, resumed, outVars>>
(* A cancelled occurrence is queued again, under a new job.                *)
ScheduleInvoice(w, t) ==
  /\ pass[w] # None /\ pass[w].what = "invoice" /\ t \in pass[w].ids
  /\ pass' = [pass EXCEPT ![w] = IF @.ids = {t} THEN None ELSE [@ EXCEPT !.ids = @ \ {t}]]
  /\ IF Owed(t, pass[w].now) /\ ~Taken(t)
     THEN /\ Len(jobs) < MaxJobs
          /\ occ' = (occ \ Occurrence("invoice", t, template[t].next)) \cup
                    {[what |-> "invoice", id |-> t, at |-> template[t].next, job |-> Len(jobs) + 1,
                      status |-> "queued"]}
          /\ Enqueue("invoice", t, "schedule", template[t].next)
     ELSE UNCHANGED <<occ, jobs, tickets, notes, unacked>>
  /\ UNCHANGED <<clock, routine, template, turn, edit, late, resumed, invoices>>

NextRunAfter(from) == from + Period
Bill(t, at) == /\ invoices' = invoices \cup {[id |-> t, at |-> at, n |-> Cardinality(invoices) + 1]}
               /\ template' = [template EXCEPT ![t].next = NextRunAfter(at)]
(* The job's own transaction, with its receipt: it bills the occurrence    *)
(* only while that still is the template's next.                           *)
StillNext(t, at) == template[t].active /\ template[t].next = at
GenerateDueInvoices(j) ==
  /\ jobs[j].what = "invoice" /\ jobs[j].status = "pending"
  /\ LET t == jobs[j].id
         o == {x \in Occurrence("invoice", t, jobs[j].at) : x.status = "queued"}
         Becomes(s) == occ' = (occ \ o) \cup {[x EXCEPT !.status = s] : x \in o}
     IN IF o = {} THEN UNCHANGED <<occ, invoices, template>>
        ELSE IF ~StillNext(t, jobs[j].at) THEN Becomes("cancelled") /\ UNCHANGED <<invoices, template>>
        ELSE Becomes("completed") /\ Bill(t, jobs[j].at)
  /\ jobs' = [jobs EXCEPT ![j].status = "done"]
  /\ UNCHANGED <<clock, routine, pass, turn, edit, late, resumed, tickets, notes, unacked>>
GenerateFails(j) ==
  /\ jobs[j].what = "invoice" /\ jobs[j].status = "pending"
  /\ jobs' = [jobs EXCEPT ![j].attempts = @ + 1,
                          ![j].status = IF jobs[j].attempts + 1 >= MaxAttempts THEN "failed" ELSE @]
  /\ UNCHANGED <<clock, routine, template, occ, pass, turn, edit, late, resumed, outVars>>
(* Someone asks for whatever is due: only what has no occurrence at all.   *)
GenerateByHand(t) ==
  /\ Owed(t, clock) /\ Occurrence("invoice", t, template[t].next) = {}
  /\ occ' = occ \cup {[what |-> "invoice", id |-> t, at |-> template[t].next, job |-> None,
                       status |-> "completed"]}
  /\ Bill(t, template[t].next)
  /\ UNCHANGED <<clock, routine, jobs, pass, turn, edit, late, resumed, tickets, notes, unacked>>

-----------------------------------------------------------------------------
RoutineNext ==
  \/ \E r \in Routines :
       \/ \E s \in Schedulings, h \in BOOLEAN : CreateRoutine(r, s, h)
       \/ \E e \in Editors, s \in Schedulings \cup {None}, b \in BOOLEAN : BeginUpdate(e, r, s, b)
       \/ DeleteRoutine(r) \/ RunNow(r)
       \/ \E w \in Workers : ScheduleRoutine(w, r)
  \/ \E e \in Editors : UpdateRoutine(e)
  \/ \E w \in Workers : ListDueRoutines(w)
TurnNext ==
  \/ \E j \in DOMAIN jobs : Sweep(j) \/ \E w \in Workers : Claim(w, j)
  \/ \E w \in Workers : \/ LoadRoutine(w) \/ FileTicket(w) \/ AnswerFails(w) \/ Notify(w)
                        \/ Finalize(w) \/ Stop(w) \/ \E f \in BOOLEAN : Answer(w, f)
InvoiceNext ==
  \/ \E t \in Templates : \/ PauseTemplate(t) \/ GenerateByHand(t)
                          \/ \E e \in Editors : BeginResume(e, t)
                          \/ \E w \in Workers : ScheduleInvoice(w, t)
  \/ \E e \in Editors : ResumeTemplate(e)
  \/ \E w \in Workers : ListDueInvoices(w)
  \/ \E j \in DOMAIN jobs : GenerateDueInvoices(j) \/ GenerateFails(j)
Next == Tick \/ RoutineNext \/ TurnNext \/ InvoiceNext
Spec == Init /\ [][Next]_vars

-----------------------------------------------------------------------------
(* Properties.                                                             *)

(* The next time is the first after now that the schedule names, for every *)
(* schedule and from every moment of a fortnight.                          *)
Names(s, t) == t % SlotsPerDay = s.at /\ CASE s.kind = "daily" -> TRUE
                                           [] s.kind = "weekdays" -> Weekday(t) \in 1 .. 5
                                           [] s.kind = "weekly" -> Weekday(t) = s.day
Calendar == [kind : {"daily", "weekdays"}, at : {0, 1}] \cup [kind : {"weekly"}, at : {0, 1}, day : 0 .. 6]
NextRunIsFirst == clock = 0 /\ jobs = <<>> /\ pass = [w \in Workers |-> None] =>
  \A s \in Calendar, from \in 0 .. 27 :
    /\ NextRun(s, from) > from /\ Names(s, NextRun(s, from))
    /\ \A t \in from + 1 .. NextRun(s, from) - 1 : ~Names(s, t)

(* A routine waits for a time that has no occurrence yet, whatever edits   *)
(* and passes overlap: a taken time would never be advanced and would fill *)
(* the batch of every later pass.  The exception is an edit that computed  *)
(* its time before the occurrence and wrote it after.                      *)
RoutinesAdvance == \A r \in Routines :
  Exists(r) /\ <<"routine", r>> \notin late =>
    \A o \in occ : o.what = "routine" /\ o.id = r => o.at < routine[r].next

(* A routine's job that is done has told its occurrence so, and findings   *)
(* are told once for each time the job finished.                           *)
TurnsAreTold ==
  /\ \A o \in occ : o.what = "routine" /\ jobs[o.job].status = "done" => o.status \in {"done", "cancelled"}
  /\ \A j \in DOMAIN jobs : notes[j] <= unacked[j] /\ (jobs[j].attempts <= 1 => notes[j] <= 1)

(* An occurrence is billed once, when and only when it is completed, with  *)
(* pauses, resumes, retries, cancelled and revived occurrences and people  *)
(* billing by hand; and a template's invoices follow one another by its    *)
(* period, or a resume.                                                    *)
BilledOnce ==
  /\ \A o \in occ : o.what = "invoice" =>
       Cardinality({i \in invoices : i.id = o.id /\ i.at = o.at}) = IF o.status = "completed" THEN 1 ELSE 0
  /\ \A i \in invoices : \/ <<i.id, i.at>> \in resumed
                         \/ \E k \in invoices : k.id = i.id /\ k.at = i.at - Period

(* A template that is due is billed sooner or later: nothing stands in its *)
(* way but a job in flight, a job that gave up, or a late resume.          *)
TemplatesAreNotStuck == \A t \in Templates : Owed(t, clock) /\ Taken(t) =>
  \/ <<"invoice", t>> \in late
  \/ \E o \in Occurrence("invoice", t, template[t].next) :
       o.status = "queued" /\ jobs[o.job].status \in {"pending", "failed"}

(* Schedules are followed.                                                 *)
SchedulesAreFollowed == /\ NextRunIsFirst /\ RoutinesAdvance /\ TurnsAreTold
                        /\ BilledOnce /\ TemplatesAreNotStuck
=============================================================================
