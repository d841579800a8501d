------------------------------ MODULE Projects ------------------------------
(***************************************************************************)
(* Projects and their tasks.  Every change of a task locks its project     *)
(* first, so it is one step; creating and restoring a task look at the     *)
(* parent, which a deletion, the one operation that takes no project lock, *)
(* may remove before they insert.  An answer carries what undoing it needs *)
(* and becomes an undo plan.                                               *)
(***************************************************************************)
EXTENDS Integers, FiniteSets, FiniteSetsExt

CONSTANTS Known,        \* the projects there are to begin with
          Ids, Workers, People,
          Positions,    \* what a move may ask for
          Uses,         \* the operations a scene exercises
          MaxPlans, MaxPosition, None

VARIABLES projects, tasks, receipts, plans, job,
          last,         \* history: the last operation on each task
          raced, late   \* history: inserted during a deletion, written when archived

vars == <<projects, tasks, receipts, plans, job, last, raced, late>>

Idle == [op |-> "idle"]
Statuses == {"todo", "doing", "done"}
Init == /\ projects = [p \in Known |-> "active"] /\ tasks = [t \in Ids |-> None]
        /\ receipts = {} /\ plans = {} /\ last = [t \in Ids |-> None] /\ raced = {} /\ late = {}
        /\ job = [w \in Workers |-> Idle]

Exists(t) == tasks[t] # None
Children(t) == {c \in Ids : Exists(c) /\ tasks[c].parent = t}
Column(p, status) == {t \in Ids : Exists(t) /\ tasks[t].project = p /\ tasks[t].status = status}
Snapshot(t) == [task |-> t, row |-> tasks[t]]
Locked(p) == \E w \in Workers : job[w].op \in {"create", "restore"} /\ job[w].row.project = p
Active(p) == projects[p] = "active" /\ ~Locked(p)
Plan(p) == LET n == Cardinality(plans)
           IN /\ n < MaxPlans /\ plans' = plans \cup {[n |-> n, plan |-> p]}
              /\ last' = [last EXCEPT ![p.task] = n]
\* Ghost: a row written although its project is archived.
Written(t, p) == late' = IF projects[p] = "archived" THEN late \cup {t} ELSE late

-----------------------------------------------------------------------------
Archive(p) == /\ projects[p] = "active"
              /\ projects' = [projects EXCEPT ![p] = "archived"]
              /\ UNCHANGED <<tasks, receipts, plans, job, last, raced, late>>
\* Mutant: the project is not locked while a task is inserted.
ArchiveAtOnce(p) == "archive" \in Uses /\ Archive(p)
ArchiveProject(p) == "archive" \in Uses /\ ~Locked(p) /\ Archive(p)
RestoreProject(p) == /\ projects[p] = "archived" /\ ~Locked(p)
                     /\ projects' = [projects EXCEPT ![p] = "active"]
                     /\ UNCHANGED <<tasks, receipts, plans, job, last, raced, late>>

-----------------------------------------------------------------------------
(* A task is inserted under the project's lock, after a look at its parent.*)

ParentFits(q, p) == q # None => (Exists(q) /\ tasks[q].project = p)
NextPosition(p) == 1 + Max({0} \cup {tasks[t].pos : t \in Column(p, "todo")})
Insert(w, op, t, row, p) ==
  /\ job[w] = Idle /\ ParentFits(row.parent, p)
  /\ job' = [job EXCEPT ![w] = [op |-> op, task |-> t, row |-> row]]
  /\ UNCHANGED <<projects, tasks, receipts, plans, last, raced, late>>
CreateProjectTask(w, t, p, q) ==
  /\ ~Exists(t) /\ Active(p) /\ NextPosition(p) <= MaxPosition
  /\ \A v \in Workers : job[v] # Idle => job[v].task # t
  /\ \A s \in receipts : s.task # t
  /\ Insert(w, "create", t, [project |-> p, parent |-> q, status |-> "todo",
                             pos |-> NextPosition(p), who |-> None], p)
\* Only what a successful deletion answered can be restored.
HasDeleteReceipt(snap) == snap \in receipts
RestoreProjectTask(w, snap) ==
  /\ "delete" \in Uses /\ HasDeleteReceipt(snap) /\ Active(snap.row.project)
  /\ \A v \in Workers : job[v] # Idle => job[v].task # snap.task
  /\ Insert(w, "restore", snap.task, snap.row, snap.row.project)
InsertTask(w) ==
  LET t == job[w].task
      row == job[w].row
  IN /\ job[w].op \in {"create", "restore"}
     /\ job' = [job EXCEPT ![w] = Idle]
     /\ \/ /\ ~Exists(t)
           /\ tasks' = [tasks EXCEPT ![t] = row] /\ Written(t, row.project)
           /\ Plan([op |-> "delete", task |-> t, row |-> row])
           /\ raced' = IF row.parent # None /\ ~Exists(row.parent) THEN raced \cup {t} ELSE raced
        \/ Exists(t) /\ UNCHANGED <<tasks, plans, last, raced, late>>
     /\ UNCHANGED <<projects, receipts>>

(* A deletion sees the children there are when its statement starts, and   *)
(* the task as it is when it reaches the row.                              *)
BeginDelete(w, snap) ==
  /\ "delete" \in Uses /\ job[w] = Idle
  /\ tasks[snap.task] = snap.row /\ Children(snap.task) = {}
  /\ \A v \in Workers : job[v] # Idle => job[v].task # snap.task
  /\ job' = [job EXCEPT ![w] = [op |-> "delete", task |-> snap.task, row |-> snap.row]]
  /\ UNCHANGED <<projects, tasks, receipts, plans, last, raced, late>>
DeleteProjectTask(w) ==
  /\ job[w].op = "delete" /\ job' = [job EXCEPT ![w] = Idle]
  /\ \/ /\ tasks[job[w].task] = job[w].row
        /\ tasks' = [tasks EXCEPT ![job[w].task] = None]
        /\ receipts' = receipts \cup {[task |-> job[w].task, row |-> job[w].row]}
        /\ Plan([op |-> "restore", task |-> job[w].task, row |-> job[w].row])
        /\ raced' = raced \cup Children(job[w].task)
     \/ tasks[job[w].task] # job[w].row /\ UNCHANGED <<tasks, receipts, plans, last, raced>>
  /\ UNCHANGED <<projects, late>>

-----------------------------------------------------------------------------
(* Placement and assignment, with their undo and their redo.               *)

Busy(t) == \E w \in Workers : job[w].op = "delete" /\ job[w].task = t
LockActiveProjectForTask(t) == Exists(t) /\ Active(tasks[t].project)
Place(t, status, pos) == /\ tasks' = [tasks EXCEPT ![t].status = status, ![t].pos = pos]
                         /\ Written(t, tasks[t].project)
                         /\ UNCHANGED <<projects, receipts, job, raced>>
Placement(t) == [status |-> tasks[t].status, pos |-> tasks[t].pos]
\* A move without a position keeps the one there was.
MoveProjectTask(t, status, pos) ==
  LET at == IF pos = None THEN tasks[t].pos ELSE pos
  IN /\ "move" \in Uses /\ LockActiveProjectForTask(t) /\ ~Busy(t)
     /\ Place(t, status, at)
     /\ Plan([op |-> "placement", task |-> t, restore |-> Placement(t),
              expected |-> [status |-> status, pos |-> at]])
RestoreProjectTaskPlacement(p) ==
  /\ LockActiveProjectForTask(p.task) /\ ~Busy(p.task) /\ Placement(p.task) = p.expected
  /\ Place(p.task, p.restore.status, p.restore.pos)
  /\ Plan([op |-> "move", task |-> p.task, to |-> p.expected])
Assign(t, who) == /\ tasks' = [tasks EXCEPT ![t].who = who] /\ Written(t, tasks[t].project)
                  /\ UNCHANGED <<projects, receipts, job, raced>>
AssignProjectTask(t, who) ==
  /\ "assign" \in Uses /\ LockActiveProjectForTask(t) /\ ~Busy(t) /\ Assign(t, who)
  /\ Plan([op |-> "assignee", task |-> t, restore |-> tasks[t].who, expected |-> who])
RestoreProjectTaskAssignee(p) ==
  /\ LockActiveProjectForTask(p.task) /\ ~Busy(p.task) /\ tasks[p.task].who = p.expected
  /\ Assign(p.task, p.restore)
  /\ Plan([op |-> "assign", task |-> p.task, to |-> p.expected])

(* Undoing an undo is the plain operation again; an assignment to nobody   *)
(* has to leave the person out, and a plan always names one.               *)
Redo(p) == \/ p.op = "move" /\ MoveProjectTask(p.task, p.to.status, p.to.pos)
           \/ p.op = "assign" /\ p.to # None /\ AssignProjectTask(p.task, p.to)
PlanInverse(w, p) == \/ p.op = "delete" /\ BeginDelete(w, [task |-> p.task, row |-> p.row])
                     \/ p.op = "restore" /\ RestoreProjectTask(w, [task |-> p.task, row |-> p.row])
                     \/ p.op = "placement" /\ RestoreProjectTaskPlacement(p)
                     \/ p.op = "assignee" /\ RestoreProjectTaskAssignee(p)
                     \/ Redo(p)

-----------------------------------------------------------------------------
(* The board shows every task in its column, in order of position.         *)
ListProjectBoard(p) == [s \in Statuses |-> Column(p, s)]

ProjectNext == \E p \in Known : ArchiveProject(p) \/ RestoreProject(p)
TaskNext == \E w \in Workers :
  \/ InsertTask(w) \/ DeleteProjectTask(w)
  \/ \E t \in Ids, p \in Known, q \in Ids \cup {None} : CreateProjectTask(w, t, p, q)
  \/ \E t \in Ids : Exists(t) /\ BeginDelete(w, Snapshot(t))
  \/ \E p \in plans : PlanInverse(w, p.plan)
ChangeNext == \E t \in Ids :
  \/ \E s \in Statuses, n \in Positions \cup {None} : MoveProjectTask(t, s, n)
  \/ \E u \in People \cup {None} : AssignProjectTask(t, u)
Next == ProjectNext \/ TaskNext \/ ChangeNext
Spec == Init /\ [][Next]_vars

-----------------------------------------------------------------------------
\* A task has lost its parent only when it was inserted during the deletion.
OrphansWereRaced == \A t \in Ids : Exists(t) /\ tasks[t].parent # None
                      => Exists(tasks[t].parent) \/ t \in raced
ParentsShareTheProject == \A t \in Ids : Exists(t) /\ tasks[t].parent # None /\ Exists(tasks[t].parent)
                            => tasks[tasks[t].parent].project = tasks[t].project
\* An archived project's tasks are deleted at most.
ArchivedIsFrozen == late = {}
(* A plan fits a task nobody touched since, but for the causes the code    *)
(* names: an archived project, children, a parent that is gone, or a redo  *)
(* that would have to name nobody.                                         *)
Fits(p) == CASE p.op = "delete" -> tasks[p.task] = p.row
             [] p.op = "restore" -> [task |-> p.task, row |-> p.row] \in receipts /\ ~Exists(p.task)
             [] p.op = "placement" -> Exists(p.task) /\ Placement(p.task) = p.expected
             [] p.op = "assignee" -> Exists(p.task) /\ tasks[p.task].who = p.expected
             [] OTHER -> Exists(p.task)
UntouchedCanBeUndone == \A p \in plans : last[p.plan.task] = p.n => Fits(p.plan)
\* Every task is on its project's board, once.
BoardIsWhole == \A t \in Ids : Exists(t) =>
  Cardinality({x \in Known \X Statuses : t \in ListProjectBoard(x[1])[x[2]]}) = 1
(* Projects: a task loses its parent only to a deletion it was inserted    *)
(* during, an archived project's tasks are at most deleted, every answer's *)
(* undo plan fits a task nobody touched since, and every task is shown     *)
(* once on the board.                                                      *)
ProjectsAreKept == /\ OrphansWereRaced /\ ParentsShareTheProject /\ ArchivedIsFrozen
                   /\ UntouchedCanBeUndone /\ BoardIsWhole
=============================================================================
