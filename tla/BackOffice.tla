----------------------------- MODULE BackOffice ------------------------------
(***************************************************************************)
(* The back office, for TLC: each behaviour is a behaviour of one          *)
(* component on one small instance, the scene.                             *)
(***************************************************************************)
EXTENDS Integers, Sequences, FiniteSets

CONSTANTS u1, u2, a1, a2, None, user1, w1, w2, m1, m2, p1, t1, t2, t3, Gone, f1

VARIABLES scene,
  clock, convs, members, msgs, files, receipts, sends, turns, intents, op, row, world,
  pc, began, outcome, users, sessions, opened, tokens, issued, consumed, mails, queued,
  sent, tries, admitted, job, mailer, refusals, staff, leaves, runs, posted, hours,
  opening, applicants, raced, routine, template, occ, jobs, pass, turn, edit, late,
  resumed, tickets, notes, invoices, unacked, projects, tasks, plans, last, log,
  steering, usage, lost, typed, doc, history, draft, editor, life, published, file,
  added, memory, readFrom, suggestions

vars == <<scene,
  clock, convs, members, msgs, files, receipts, sends, turns, intents, op, row, world,
  pc, began, outcome, users, sessions, opened, tokens, issued, consumed, mails, queued,
  sent, tries, admitted, job, mailer, refusals, staff, leaves, runs, posted, hours,
  opening, applicants, raced, routine, template, occ, jobs, pass, turn, edit, late,
  resumed, tickets, notes, invoices, unacked, projects, tasks, plans, last, log,
  steering, usage, lost, typed, doc, history, draft, editor, life, published, file,
  added, memory, readFrom, suggestions>>

WithoutMessaging == <<op, row, world, pc, began, outcome, users, sessions, opened,
                        tokens, issued, consumed, mails, queued, sent, tries, admitted,
                        job, mailer, refusals, staff, leaves, runs, posted, hours,
                        opening, applicants, raced, routine, template, occ, jobs, pass,
                        turn, edit, late, resumed, tickets, notes, invoices, unacked,
                        projects, tasks, plans, last, log, steering, usage, lost,
                        typed, doc, history, draft, editor, life, published, file,
                        added, memory, readFrom, suggestions>>
WithoutAuthority == <<clock, convs, members, msgs, files, receipts, sends, turns,
                        intents, users, sessions, opened, tokens, issued, consumed,
                        mails, queued, sent, tries, admitted, job, mailer, refusals,
                        staff, leaves, runs, posted, hours, opening, applicants, raced,
                        routine, template, occ, jobs, pass, turn, edit, late, resumed,
                        tickets, notes, invoices, unacked, projects, tasks, plans,
                        last, log, steering, usage, lost, typed, doc, history, draft,
                        editor, life, published, file, added, memory, readFrom,
                        suggestions>>
WithoutAccounts == <<convs, members, msgs, files, receipts, sends, turns, intents,
                       op, row, world, pc, began, outcome, staff, leaves, runs, posted,
                       hours, opening, applicants, raced, routine, template, occ, jobs,
                       pass, turn, edit, late, resumed, tickets, notes, invoices,
                       unacked, projects, tasks, plans, last, log, steering, usage,
                       lost, typed, doc, history, draft, editor, life, published, file,
                       added, memory, readFrom, suggestions>>
WithoutWorkforce == <<convs, members, msgs, files, receipts, sends, turns, intents,
                        op, row, world, pc, began, outcome, users, sessions, opened,
                        tokens, issued, consumed, mails, queued, sent, tries, admitted,
                        mailer, refusals, routine, template, occ, jobs, pass, turn,
                        edit, late, resumed, tickets, notes, invoices, unacked,
                        projects, tasks, plans, last, log, steering, usage, lost,
                        typed, doc, history, draft, editor, life, published, file,
                        added, memory, readFrom, suggestions>>
WithoutSchedules == <<convs, members, msgs, files, receipts, sends, turns, intents,
                        op, row, world, pc, began, outcome, users, sessions, opened,
                        tokens, issued, consumed, mails, queued, sent, tries, admitted,
                        job, mailer, refusals, staff, leaves, runs, posted, hours,
                        opening, applicants, raced, projects, tasks, plans, last, log,
                        steering, usage, lost, typed, doc, history, draft, editor,
                        life, published, file, added, memory, readFrom, suggestions>>
WithoutProjects == <<clock, convs, members, msgs, files, sends, turns, intents, op,
                       row, world, pc, began, outcome, users, sessions, opened, tokens,
                       issued, consumed, mails, queued, sent, tries, admitted, mailer,
                       refusals, staff, leaves, runs, posted, hours, opening,
                       applicants, routine, template, occ, jobs, pass, turn, edit,
                       resumed, tickets, notes, invoices, unacked, log, steering,
                       usage, lost, typed, doc, history, draft, editor, life,
                       published, file, added, memory, readFrom, suggestions>>
WithoutAgentTurns == <<clock, convs, members, msgs, files, receipts, sends, turns,
                         intents, op, row, world, pc, began, outcome, users, sessions,
                         opened, tokens, issued, consumed, mails, queued, sent, tries,
                         admitted, job, mailer, refusals, staff, leaves, runs, posted,
                         hours, opening, applicants, raced, routine, template, occ,
                         jobs, pass, edit, late, resumed, tickets, notes, invoices,
                         unacked, projects, tasks, plans, last, doc, history, draft,
                         editor, life, published, file, added, memory, readFrom,
                         suggestions>>
WithoutDocuments == <<clock, convs, members, msgs, files, receipts, sends, turns,
                        intents, op, row, world, pc, began, outcome, users, sessions,
                        opened, tokens, issued, consumed, mails, queued, sent, tries,
                        admitted, mailer, refusals, staff, leaves, posted, hours,
                        opening, applicants, raced, routine, template, occ, jobs, pass,
                        turn, edit, late, resumed, tickets, notes, invoices, unacked,
                        projects, tasks, plans, last, log, steering, usage, lost, typed>>

TalkLeave == INSTANCE Messaging WITH
  Users <- {u1, u2}, Bodies <- {"a"}, Blank <- "", Processes <- {},
  Features <- {"talk"}, MaxConvs <- 1, MaxMsgs <- 1, MaxFiles <- 0, MaxClock <- 3,
  MaxReceipts <- 0
TalkUndo == INSTANCE Messaging WITH
  Users <- {u1}, Bodies <- {"a", "b"}, Blank <- "", Processes <- {},
  Features <- {"undo"}, MaxConvs <- 1, MaxMsgs <- 1, MaxFiles <- 0, MaxClock <- 3,
  MaxReceipts <- 4
TalkFiles == INSTANCE Messaging WITH
  Users <- {u1}, Bodies <- {"a", ""}, Blank <- "", Processes <- {},
  Features <- {"undo", "marks"}, MaxConvs <- 1, MaxMsgs <- 1, MaxFiles <- 2,
  MaxClock <- 2, MaxReceipts <- 2
TalkAgent == INSTANCE Messaging WITH
  Users <- {u1}, Bodies <- {"a"}, Blank <- "", Processes <- {"p1", "p2"},
  Features <- {"undo", "agent"}, MaxConvs <- 1, MaxMsgs <- 3, MaxFiles <- 0,
  MaxClock <- 2, MaxReceipts <- 1
AuthorityRequests == INSTANCE Authority WITH
  Attempts <- {a1,a2}, MaxChanges <- 1
AccountSessions == INSTANCE Accounts WITH
  Users <- {user1}, Workers <- {w1,w2}, Mailers <- {},
  Uses <- {"signin","session","revoke"}, Horizon <- 4, LongLife <- 3, ShortLife <- 1,
  RefreshAge <- 1, LinkLife <- 2, Window <- 1, MaxAttempts <- 1, MaxPending <- 1,
  Lease <- 2, Backoff <- 1, MaxSessions <- 2, MaxTokens <- 0, MaxMails <- 0
AccountLinks == INSTANCE Accounts WITH
  Users <- {user1}, Workers <- {w1}, Mailers <- {m1,m2}, Uses <- {"recover"},
  Horizon <- 4, LongLife <- 3, ShortLife <- 1, RefreshAge <- 1, LinkLife <- 3,
  Window <- 1, MaxAttempts <- 2, MaxPending <- 2, Lease <- 2, Backoff <- 1,
  MaxSessions <- 1, MaxTokens <- 2, MaxMails <- 2
AccountReset == INSTANCE Accounts WITH
  Users <- {user1}, Workers <- {w1,w2}, Mailers <- {m1}, Uses <- {"signin","recover"},
  Horizon <- 2, LongLife <- 3, ShortLife <- 1, RefreshAge <- 1, LinkLife <- 2,
  Window <- 2, MaxAttempts <- 2, MaxPending <- 2, Lease <- 2, Backoff <- 1,
  MaxSessions <- 2, MaxTokens <- 1, MaxMails <- 1
AccountSignUp == INSTANCE Accounts WITH
  Users <- {user1}, Workers <- {w1}, Mailers <- {m1}, Uses <- {"signup","signin"},
  Horizon <- 3, LongLife <- 3, ShortLife <- 1, RefreshAge <- 1, LinkLife <- 2,
  Window <- 1, MaxAttempts <- 1, MaxPending <- 2, Lease <- 2, Backoff <- 1,
  MaxSessions <- 1, MaxTokens <- 0, MaxMails <- 3
Payroll == INSTANCE Workforce WITH
  Staff <- <<[salary |-> 1000, rate |-> 1000], [salary |-> 1000, rate |-> 5000]>>,
  Spans <- {}, Months <- {1}, MonthDays <- 3, Applicants <- {}, Workers <- {"w1","w2"},
  Bosses <- {}, Entitlement <- 2, MaxStaff <- 3, MaxLeaves <- 0, MaxEntries <- 0,
  Horizon <- 0
UnpaidLeave == INSTANCE Workforce WITH
  Staff <- <<[salary |-> 1000, rate |-> 1000], [salary |-> 1000, rate |-> 5000]>>,
  Spans <- {[kind |-> "unpaid", from |-> 2, to |-> 4], [kind |-> "unpaid", from |-> 3, to |-> 3], [kind |-> "annual", from |-> 3, to |-> 4], [kind |-> "annual", from |-> 5, to |-> 6]},
  Months <- {1}, MonthDays <- 3, Applicants <- {}, Workers <- {"w1"}, Bosses <- {},
  Entitlement <- 2, MaxStaff <- 2, MaxLeaves <- 2, MaxEntries <- 0, Horizon <- 0
Attendance == INSTANCE Workforce WITH
  Staff <- <<[salary |-> 1000, rate |-> 1000]>>, Spans <- {}, Months <- {},
  MonthDays <- 3, Applicants <- {}, Workers <- {"w1","w2"}, Bosses <- {},
  Entitlement <- 2, MaxStaff <- 1, MaxLeaves <- 0, MaxEntries <- 2, Horizon <- 2
Hiring == INSTANCE Workforce WITH
  Staff <- <<[salary |-> 1000, rate |-> 1000]>>, Spans <- {}, Months <- {},
  MonthDays <- 3, Applicants <- {"x1","x2"}, Workers <- {"w1","w2"}, Bosses <- {1},
  Entitlement <- 2, MaxStaff <- 3, MaxLeaves <- 0, MaxEntries <- 0, Horizon <- 0
RoutineEdits == INSTANCE Schedules WITH
  Routines <- {1},
  Schedulings <- {[kind |-> "interval", every |-> 1], [kind |-> "interval", every |-> 2]},
  Templates <- {}, Period <- 1, Workers <- {"w1","w2"}, Editors <- {"e1"}, Batch <- 1,
  MaxAttempts <- 0, MaxJobs <- 3, MaxTickets <- 0, Horizon <- 2
RoutineTurns == INSTANCE Schedules WITH
  Routines <- {1}, Schedulings <- {[kind |-> "daily", at |-> 1]}, Templates <- {},
  Period <- 1, Workers <- {"w1","w2"}, Editors <- {}, Batch <- 1, MaxAttempts <- 2,
  MaxJobs <- 1, MaxTickets <- 0, Horizon <- 1
RecurringBills == INSTANCE Schedules WITH
  Routines <- {}, Schedulings <- {}, Templates <- {1}, Period <- 1,
  Workers <- {"w1","w2"}, Editors <- {"e1"}, Batch <- 1, MaxAttempts <- 1,
  MaxJobs <- 3, MaxTickets <- 0, Horizon <- 2
RoutineBatch == INSTANCE Schedules WITH
  Routines <- {1,2}, Schedulings <- {[kind |-> "interval", every |-> 1]},
  Templates <- {}, Period <- 1, Workers <- {"w1","w2"}, Editors <- {}, Batch <- 1,
  MaxAttempts <- 0, MaxJobs <- 2, MaxTickets <- 0, Horizon <- 2
ProjectTasks == INSTANCE Projects WITH
  Known <- {p1}, Ids <- {t1,t2,t3}, Workers <- {w1,w2}, People <- {}, Positions <- {},
  Uses <- {"archive","delete"}, MaxPlans <- 5, MaxPosition <- 3
ProjectBoard == INSTANCE Projects WITH
  Known <- {p1}, Ids <- {t1,t2}, Workers <- {w1}, People <- {u1}, Positions <- {0},
  Uses <- {"archive","delete","move","assign"}, MaxPlans <- 4, MaxPosition <- 3
TurnsOverlap == INSTANCE AgentTurns WITH
  Turns <- {1,2}, Kinds <- {"read","ticket"}, Texts <- {{"said"}}, Synthetic <- FALSE,
  Batches <- {1}, MaxSteps <- 1, KeepRecent <- 9, RecentEvents <- 5, LastMessages <- 4,
  Steers <- {}, SteerCap <- 1, MaxLost <- 1, MayLeave <- {}, MayCompact <- FALSE
TurnsReply == INSTANCE AgentTurns WITH
  Turns <- {1}, Kinds <- {"write","ask","search"}, Texts <- {{},{"said","approv"}},
  Synthetic <- FALSE, Batches <- {1,2}, MaxSteps <- 2, KeepRecent <- 3,
  RecentEvents <- 9, LastMessages <- 9, Steers <- {}, SteerCap <- 1, MaxLost <- 0,
  MayLeave <- {}, MayCompact <- TRUE
TurnsSteered == INSTANCE AgentTurns WITH
  Turns <- {1}, Kinds <- {"read"}, Texts <- {{"said"}}, Synthetic <- TRUE,
  Batches <- {1}, MaxSteps <- 2, KeepRecent <- 2, RecentEvents <- 9, LastMessages <- 9,
  Steers <- {"s1","s2"}, SteerCap <- 1, MaxLost <- 1, MayLeave <- {1},
  MayCompact <- FALSE
DocumentsEditor == INSTANCE Documents WITH
  Users <- {u1,u2}, Files <- {}, Workers <- {}, Texts <- {1,2}, Images <- {},
  Lines <- {}, Accounts <- {}, Inside <- {}, Fallback <- 6000, MaxPublished <- 3,
  MaxRev <- 2, MaxLives <- 2, MaxAdded <- 0, Times <- {0}, MaxRuns <- 0
DocumentsReading == INSTANCE Documents WITH
  Users <- {}, Files <- {f1}, Workers <- {w1,w2}, Texts <- {}, Images <- {2,3},
  Lines <- {}, Accounts <- {}, Inside <- {}, Fallback <- 6000, MaxPublished <- 0,
  MaxRev <- 0, MaxLives <- 0, MaxAdded <- 1, Times <- {0,1}, MaxRuns <- 0
DocumentsCoding == INSTANCE Documents WITH
  Users <- {}, Files <- {f1}, Workers <- {w1,w2}, Texts <- {1}, Images <- {},
  Lines <- {{"rent","office"},{"fuel"},{"tea"}},
  Accounts <- {[code |-> 6000, expense |-> TRUE, words |-> {"general"}], [code |-> 6100, expense |-> TRUE, words |-> {"office","rental"}], [code |-> 6200, expense |-> TRUE, words |-> {"rental","offices"}], [code |-> 1000, expense |-> FALSE, words |-> {"fuel"}]},
  Inside <- {<<"rental","rent">>,<<"offices","office">>}, Fallback <- 6000,
  MaxPublished <- 0, MaxRev <- 0, MaxLives <- 0, MaxAdded <- 1, Times <- {0,1},
  MaxRuns <- 2

\* A variable that the component of the scene does not have is None.
Init ==
  \/ /\ \/ scene = "TalkLeave" /\ TalkLeave!Init
        \/ scene = "TalkUndo" /\ TalkUndo!Init
        \/ scene = "TalkFiles" /\ TalkFiles!Init
        \/ scene = "TalkAgent" /\ TalkAgent!Init
     /\ op = None /\ row = None /\ world = None /\ pc = None /\ began = None /\
        outcome = None /\ users = None /\ sessions = None /\ opened = None /\
        tokens = None /\ issued = None /\ consumed = None /\ mails = None /\
        queued = None /\ sent = None /\ tries = None /\ admitted = None /\
        job = None /\ mailer = None /\ refusals = None /\ staff = None /\
        leaves = None /\ runs = None /\ posted = None /\ hours = None /\
        opening = None /\ applicants = None /\ raced = None /\ routine = None /\
        template = None /\ occ = None /\ jobs = None /\ pass = None /\ turn = None /\
        edit = None /\ late = None /\ resumed = None /\ tickets = None /\
        notes = None /\ invoices = None /\ unacked = None /\ projects = None /\
        tasks = None /\ plans = None /\ last = None /\ log = None /\ steering = None /\
        usage = None /\ lost = None /\ typed = None /\ doc = None /\ history = None /\
        draft = None /\ editor = None /\ life = None /\ published = None /\
        file = None /\ added = None /\ memory = None /\ readFrom = None /\
        suggestions = None
  \/ /\ scene = "AuthorityRequests" /\ AuthorityRequests!Init
     /\ clock = None /\ convs = None /\ members = None /\ msgs = None /\
        files = None /\ receipts = None /\ sends = None /\ turns = None /\
        intents = None /\ users = None /\ sessions = None /\ opened = None /\
        tokens = None /\ issued = None /\ consumed = None /\ mails = None /\
        queued = None /\ sent = None /\ tries = None /\ admitted = None /\
        job = None /\ mailer = None /\ refusals = None /\ staff = None /\
        leaves = None /\ runs = None /\ posted = None /\ hours = None /\
        opening = None /\ applicants = None /\ raced = None /\ routine = None /\
        template = None /\ occ = None /\ jobs = None /\ pass = None /\ turn = None /\
        edit = None /\ late = None /\ resumed = None /\ tickets = None /\
        notes = None /\ invoices = None /\ unacked = None /\ projects = None /\
        tasks = None /\ plans = None /\ last = None /\ log = None /\ steering = None /\
        usage = None /\ lost = None /\ typed = None /\ doc = None /\ history = None /\
        draft = None /\ editor = None /\ life = None /\ published = None /\
        file = None /\ added = None /\ memory = None /\ readFrom = None /\
        suggestions = None
  \/ /\ \/ scene = "AccountSessions" /\ AccountSessions!Init
        \/ scene = "AccountLinks" /\ AccountLinks!Init
        \/ scene = "AccountReset" /\ AccountReset!Init
        \/ scene = "AccountSignUp" /\ AccountSignUp!Init
     /\ convs = None /\ members = None /\ msgs = None /\ files = None /\
        receipts = None /\ sends = None /\ turns = None /\ intents = None /\
        op = None /\ row = None /\ world = None /\ pc = None /\ began = None /\
        outcome = None /\ staff = None /\ leaves = None /\ runs = None /\
        posted = None /\ hours = None /\ opening = None /\ applicants = None /\
        raced = None /\ routine = None /\ template = None /\ occ = None /\
        jobs = None /\ pass = None /\ turn = None /\ edit = None /\ late = None /\
        resumed = None /\ tickets = None /\ notes = None /\ invoices = None /\
        unacked = None /\ projects = None /\ tasks = None /\ plans = None /\
        last = None /\ log = None /\ steering = None /\ usage = None /\ lost = None /\
        typed = None /\ doc = None /\ history = None /\ draft = None /\
        editor = None /\ life = None /\ published = None /\ file = None /\
        added = None /\ memory = None /\ readFrom = None /\ suggestions = None
  \/ /\ \/ scene = "Payroll" /\ Payroll!Init
        \/ scene = "UnpaidLeave" /\ UnpaidLeave!Init
        \/ scene = "Attendance" /\ Attendance!Init
        \/ scene = "Hiring" /\ Hiring!Init
     /\ convs = None /\ members = None /\ msgs = None /\ files = None /\
        receipts = None /\ sends = None /\ turns = None /\ intents = None /\
        op = None /\ row = None /\ world = None /\ pc = None /\ began = None /\
        outcome = None /\ users = None /\ sessions = None /\ opened = None /\
        tokens = None /\ issued = None /\ consumed = None /\ mails = None /\
        queued = None /\ sent = None /\ tries = None /\ admitted = None /\
        mailer = None /\ refusals = None /\ routine = None /\ template = None /\
        occ = None /\ jobs = None /\ pass = None /\ turn = None /\ edit = None /\
        late = None /\ resumed = None /\ tickets = None /\ notes = None /\
        invoices = None /\ unacked = None /\ projects = None /\ tasks = None /\
        plans = None /\ last = None /\ log = None /\ steering = None /\ usage = None /\
        lost = None /\ typed = None /\ doc = None /\ history = None /\ draft = None /\
        editor = None /\ life = None /\ published = None /\ file = None /\
        added = None /\ memory = None /\ readFrom = None /\ suggestions = None
  \/ /\ \/ scene = "RoutineEdits" /\ RoutineEdits!Init
        \/ scene = "RoutineTurns" /\ RoutineTurns!Init
        \/ scene = "RecurringBills" /\ RecurringBills!Init
        \/ scene = "RoutineBatch" /\ RoutineBatch!Init
     /\ convs = None /\ members = None /\ msgs = None /\ files = None /\
        receipts = None /\ sends = None /\ turns = None /\ intents = None /\
        op = None /\ row = None /\ world = None /\ pc = None /\ began = None /\
        outcome = None /\ users = None /\ sessions = None /\ opened = None /\
        tokens = None /\ issued = None /\ consumed = None /\ mails = None /\
        queued = None /\ sent = None /\ tries = None /\ admitted = None /\
        job = None /\ mailer = None /\ refusals = None /\ staff = None /\
        leaves = None /\ runs = None /\ posted = None /\ hours = None /\
        opening = None /\ applicants = None /\ raced = None /\ projects = None /\
        tasks = None /\ plans = None /\ last = None /\ log = None /\ steering = None /\
        usage = None /\ lost = None /\ typed = None /\ doc = None /\ history = None /\
        draft = None /\ editor = None /\ life = None /\ published = None /\
        file = None /\ added = None /\ memory = None /\ readFrom = None /\
        suggestions = None
  \/ /\ \/ scene = "ProjectTasks" /\ ProjectTasks!Init
        \/ scene = "ProjectBoard" /\ ProjectBoard!Init
     /\ clock = None /\ convs = None /\ members = None /\ msgs = None /\
        files = None /\ sends = None /\ turns = None /\ intents = None /\ op = None /\
        row = None /\ world = None /\ pc = None /\ began = None /\ outcome = None /\
        users = None /\ sessions = None /\ opened = None /\ tokens = None /\
        issued = None /\ consumed = None /\ mails = None /\ queued = None /\
        sent = None /\ tries = None /\ admitted = None /\ mailer = None /\
        refusals = None /\ staff = None /\ leaves = None /\ runs = None /\
        posted = None /\ hours = None /\ opening = None /\ applicants = None /\
        routine = None /\ template = None /\ occ = None /\ jobs = None /\
        pass = None /\ turn = None /\ edit = None /\ resumed = None /\
        tickets = None /\ notes = None /\ invoices = None /\ unacked = None /\
        log = None /\ steering = None /\ usage = None /\ lost = None /\ typed = None /\
        doc = None /\ history = None /\ draft = None /\ editor = None /\ life = None /\
        published = None /\ file = None /\ added = None /\ memory = None /\
        readFrom = None /\ suggestions = None
  \/ /\ \/ scene = "TurnsOverlap" /\ TurnsOverlap!Init
        \/ scene = "TurnsReply" /\ TurnsReply!Init
        \/ scene = "TurnsSteered" /\ TurnsSteered!Init
     /\ clock = None /\ convs = None /\ members = None /\ msgs = None /\
        files = None /\ receipts = None /\ sends = None /\ turns = None /\
        intents = None /\ op = None /\ row = None /\ world = None /\ pc = None /\
        began = None /\ outcome = None /\ users = None /\ sessions = None /\
        opened = None /\ tokens = None /\ issued = None /\ consumed = None /\
        mails = None /\ queued = None /\ sent = None /\ tries = None /\
        admitted = None /\ job = None /\ mailer = None /\ refusals = None /\
        staff = None /\ leaves = None /\ runs = None /\ posted = None /\
        hours = None /\ opening = None /\ applicants = None /\ raced = None /\
        routine = None /\ template = None /\ occ = None /\ jobs = None /\
        pass = None /\ edit = None /\ late = None /\ resumed = None /\
        tickets = None /\ notes = None /\ invoices = None /\ unacked = None /\
        projects = None /\ tasks = None /\ plans = None /\ last = None /\ doc = None /\
        history = None /\ draft = None /\ editor = None /\ life = None /\
        published = None /\ file = None /\ added = None /\ memory = None /\
        readFrom = None /\ suggestions = None
  \/ /\ \/ scene = "DocumentsEditor" /\ DocumentsEditor!Init
        \/ scene = "DocumentsReading" /\ DocumentsReading!Init
        \/ scene = "DocumentsCoding" /\ DocumentsCoding!Init
     /\ clock = None /\ convs = None /\ members = None /\ msgs = None /\
        files = None /\ receipts = None /\ sends = None /\ turns = None /\
        intents = None /\ op = None /\ row = None /\ world = None /\ pc = None /\
        began = None /\ outcome = None /\ users = None /\ sessions = None /\
        opened = None /\ tokens = None /\ issued = None /\ consumed = None /\
        mails = None /\ queued = None /\ sent = None /\ tries = None /\
        admitted = None /\ mailer = None /\ refusals = None /\ staff = None /\
        leaves = None /\ posted = None /\ hours = None /\ opening = None /\
        applicants = None /\ raced = None /\ routine = None /\ template = None /\
        occ = None /\ jobs = None /\ pass = None /\ turn = None /\ edit = None /\
        late = None /\ resumed = None /\ tickets = None /\ notes = None /\
        invoices = None /\ unacked = None /\ projects = None /\ tasks = None /\
        plans = None /\ last = None /\ log = None /\ steering = None /\ usage = None /\
        lost = None /\ typed = None

Next ==
  \/ scene = "TalkLeave" /\ TalkLeave!Next /\ UNCHANGED <<scene, WithoutMessaging>>
  \/ scene = "TalkUndo" /\ TalkUndo!Next /\ UNCHANGED <<scene, WithoutMessaging>>
  \/ scene = "TalkFiles" /\ TalkFiles!Next /\ UNCHANGED <<scene, WithoutMessaging>>
  \/ scene = "TalkAgent" /\ TalkAgent!Next /\ UNCHANGED <<scene, WithoutMessaging>>
  \/ scene = "AuthorityRequests" /\ AuthorityRequests!Next /\ UNCHANGED <<scene, WithoutAuthority>>
  \/ scene = "AccountSessions" /\ AccountSessions!Next /\ UNCHANGED <<scene, WithoutAccounts>>
  \/ scene = "AccountLinks" /\ AccountLinks!Next /\ UNCHANGED <<scene, WithoutAccounts>>
  \/ scene = "AccountReset" /\ AccountReset!Next /\ UNCHANGED <<scene, WithoutAccounts>>
  \/ scene = "AccountSignUp" /\ AccountSignUp!Next /\ UNCHANGED <<scene, WithoutAccounts>>
  \/ scene = "Payroll" /\ Payroll!Next /\ UNCHANGED <<scene, WithoutWorkforce>>
  \/ scene = "UnpaidLeave" /\ UnpaidLeave!Next /\ UNCHANGED <<scene, WithoutWorkforce>>
  \/ scene = "Attendance" /\ Attendance!Next /\ UNCHANGED <<scene, WithoutWorkforce>>
  \/ scene = "Hiring" /\ Hiring!Next /\ UNCHANGED <<scene, WithoutWorkforce>>
  \/ scene = "RoutineEdits" /\ RoutineEdits!Next /\ UNCHANGED <<scene, WithoutSchedules>>
  \/ scene = "RoutineTurns" /\ RoutineTurns!Next /\ UNCHANGED <<scene, WithoutSchedules>>
  \/ scene = "RecurringBills" /\ RecurringBills!Next /\ UNCHANGED <<scene, WithoutSchedules>>
  \/ scene = "RoutineBatch" /\ RoutineBatch!Next /\ UNCHANGED <<scene, WithoutSchedules>>
  \/ scene = "ProjectTasks" /\ ProjectTasks!Next /\ UNCHANGED <<scene, WithoutProjects>>
  \/ scene = "ProjectBoard" /\ ProjectBoard!Next /\ UNCHANGED <<scene, WithoutProjects>>
  \/ scene = "TurnsOverlap" /\ TurnsOverlap!Next /\ UNCHANGED <<scene, WithoutAgentTurns>>
  \/ scene = "TurnsReply" /\ TurnsReply!Next /\ UNCHANGED <<scene, WithoutAgentTurns>>
  \/ scene = "TurnsSteered" /\ TurnsSteered!Next /\ UNCHANGED <<scene, WithoutAgentTurns>>
  \/ scene = "DocumentsEditor" /\ DocumentsEditor!Next /\ UNCHANGED <<scene, WithoutDocuments>>
  \/ scene = "DocumentsReading" /\ DocumentsReading!Next /\ UNCHANGED <<scene, WithoutDocuments>>
  \/ scene = "DocumentsCoding" /\ DocumentsCoding!Next /\ UNCHANGED <<scene, WithoutDocuments>>

Spec == Init /\ [][Next]_vars

-----------------------------------------------------------------------------
\* Who may act: a request is refused once its right is gone and takes effect once,
\* a session ends with its password and a mailed link works once
\* (httpapi/router.go, capability/executor.go, authn/service.go).
OnlyTheEntitledAct ==
  /\ scene = "AuthorityRequests" => AuthorityRequests!RequestsAreGoverned
  /\ scene = "AccountSessions" => AccountSessions!AccountsAreKept
  /\ scene = "AccountLinks" => AccountLinks!AccountsAreKept
  /\ scene = "AccountReset" => AccountReset!AccountsAreKept
  /\ scene = "AccountSignUp" => AccountSignUp!AccountsAreKept

\* The organization's own work: payroll is posted once and hours are true, routines
\* and recurring invoices follow their calendar, boards stay whole, an agent's
\* turn hides nothing it did, and no published or read document is lost or mistaken
\* (hr_payroll_applicants.go, jobs/routine_scheduler.go, projects.go, chat_loop.go,
\* documents_authored.go, documents_parse.go).
WorkIsKept ==
  /\ scene = "Payroll" => Payroll!StaffIsTreatedFairly
  /\ scene = "UnpaidLeave" => UnpaidLeave!StaffIsTreatedFairly
  /\ scene = "Attendance" => Attendance!StaffIsTreatedFairly
  /\ scene = "Hiring" => Hiring!StaffIsTreatedFairly
  /\ scene = "RoutineEdits" => RoutineEdits!SchedulesAreFollowed
  /\ scene = "RoutineTurns" => RoutineTurns!SchedulesAreFollowed
  /\ scene = "RecurringBills" => RecurringBills!SchedulesAreFollowed
  /\ scene = "RoutineBatch" => RoutineBatch!SchedulesAreFollowed
  /\ scene = "ProjectTasks" => ProjectTasks!ProjectsAreKept
  /\ scene = "ProjectBoard" => ProjectBoard!ProjectsAreKept
  /\ scene = "TurnsOverlap" => TurnsOverlap!TurnsAreHonest
  /\ scene = "TurnsReply" => TurnsReply!TurnsAreHonest
  /\ scene = "TurnsSteered" => TurnsSteered!TurnsAreHonest
  /\ scene = "DocumentsEditor" => DocumentsEditor!DocumentsAreKept
  /\ scene = "DocumentsReading" => DocumentsReading!DocumentsAreKept
  /\ scene = "DocumentsCoding" => DocumentsCoding!DocumentsAreKept

(* Conversations lose nothing and repeat nothing.                          *)
ConversationsKeepFaith ==
  /\ scene = "TalkLeave" => TalkLeave!ConversationsKeepFaith
  /\ scene = "TalkUndo" => TalkUndo!ConversationsKeepFaith
  /\ scene = "TalkFiles" => TalkFiles!ConversationsKeepFaith
  /\ scene = "TalkAgent" => TalkAgent!ConversationsKeepFaith

=============================================================================
