------------------------------ MODULE Messaging ------------------------------
(***************************************************************************)
(* Conversations between members and the workmate agent.  A message takes  *)
(* its time when its transaction begins and shows when it commits; sending *)
(* holds the conversation by a shared row lock in between, deleting waits  *)
(* for it, leaving does not.  Edits and deletions leave receipts that an   *)
(* undo presents.  An agent's turn is guarded by a lock inside one API     *)
(* process and by an intent that depends on the message only.              *)
(***************************************************************************)
EXTENDS Integers, Sequences, FiniteSets, FiniteSetsExt

CONSTANTS Users, Bodies, Blank, Processes, Features, MaxConvs, MaxMsgs, MaxFiles, MaxClock,
          MaxReceipts

VARIABLES clock, convs, members, msgs, files, receipts, sends, turns, intents

vars == <<clock, convs, members, msgs, files, receipts, sends, turns, intents>>

NoTime == 0
Agent == "agent"
Nothing == [conv |-> 0]

Init == /\ clock = 1 /\ convs = <<>> /\ members = {} /\ msgs = <<>> /\ files = <<>>
        /\ receipts = {} /\ sends = [u \in Users |-> Nothing]
        /\ turns = [p \in Processes |-> 0] /\ intents = {}

(* The clock of the process has whole ticks; a time the database gives     *)
(* falls between two of them, and no two are equal: a join ends its tick.  *)
Now == 2 * clock
DbNow == 2 * clock + 1
Tick == /\ clock < MaxClock /\ clock' = clock + 1
        /\ UNCHANGED <<convs, members, msgs, files, receipts, sends, turns, intents>>

-----------------------------------------------------------------------------
(* Conversations and their members, [conv, user, joined, read, ahead]: the *)
(* caller of the cursor names its place, and ahead is the ghost that says  *)
(* the place was in the future.                                            *)

Seat(c, u) == {m \in members : m.conv = c /\ m.user = u}
IsMember(c, u) == Seat(c, u) # {}
Present(c) == ~convs[c].deleted
In(c) == {m \in DOMAIN msgs : msgs[m].conv = c}
(* The rows that are there when u joins or moves the cursor: seen.         *)
SeenBy(c, u) == [m \in DOMAIN msgs |->
  IF msgs[m].conv = c THEN [msgs[m] EXCEPT !.seen = @ \cup {u}] ELSE msgs[m]]
MissedBy(c, u) == [v \in Users |->
  IF sends[v].conv = c THEN [sends[v] EXCEPT !.missed = @ \cup {u}] ELSE sends[v]]

Asked == IF "agent" \in Features THEN BOOLEAN ELSE {FALSE}
CreateConversation(u, kind) ==
  /\ Len(convs) < MaxConvs /\ clock < MaxClock /\ clock' = clock + 1
  /\ \E agent \in Asked :
       convs' = Append(convs, [kind |-> kind, owner |-> u, deleted |-> FALSE, archived |-> FALSE,
                               sealed |-> 0, agent |-> agent])
  /\ members' = members \cup {[conv |-> Len(convs) + 1, user |-> u, joined |-> DbNow,
                               read |-> NoTime, ahead |-> FALSE]}
  /\ UNCHANGED <<msgs, files, receipts, sends, turns, intents>>
Change(c, u, new) == /\ Present(c) /\ IsMember(c, u) /\ new # convs[c]
                     /\ convs' = [convs EXCEPT ![c] = new]
                     /\ UNCHANGED <<clock, members, msgs, files, receipts, sends, turns, intents>>
UpdateConversation(c, u) == Change(c, u, [convs[c] EXCEPT !.agent = ~@])
ArchiveConversation(c, u) ==
  convs[c].kind # "dm" /\ Change(c, u, [convs[c] EXCEPT !.archived = ~@])
(* FOR UPDATE waits for the senders that hold the conversation.            *)
DeleteConversation(c, u) ==
  /\ Present(c) /\ convs[c].kind # "dm" /\ convs[c].owner = u
  /\ \A v \in Users : sends[v].conv # c
  /\ convs' = [convs EXCEPT ![c].deleted = TRUE, ![c].sealed = Cardinality(In(c))]
  /\ UNCHANGED <<clock, members, msgs, files, receipts, sends, turns, intents>>
Leave(c, u) == /\ IsMember(c, u) /\ members' = members \ Seat(c, u)
               /\ UNCHANGED <<clock, convs, msgs, files, receipts, sends, turns, intents>>
AddMember(c, u, v) ==
  /\ Present(c) /\ IsMember(c, u) /\ convs[c].kind # "dm" /\ ~IsMember(c, v)
  /\ clock < MaxClock /\ clock' = clock + 1
  /\ members' = members \cup {[conv |-> c, user |-> v, joined |-> DbNow, read |-> NoTime,
                               ahead |-> FALSE]}
  /\ msgs' = SeenBy(c, v) /\ sends' = MissedBy(c, v)
  /\ UNCHANGED <<convs, files, receipts, turns, intents>>

(* readAt is now when absent, no time when null, or any time at all.       *)
ReadTimes == {NoTime} \cup {2 * k : k \in 1 .. MaxClock + 1}
SetRead(c, u, t) ==
  \E s \in Seat(c, u) :
    /\ members' = (members \ {s}) \cup {[s EXCEPT !.read = t, !.ahead = t > Now]}
    /\ msgs' = SeenBy(c, u) /\ sends' = MissedBy(c, u)
    /\ UNCHANGED <<clock, convs, files, receipts, turns, intents>>
AdvanceReadCursor(c, u) == Present(c) /\ \E t \in ReadTimes : SetRead(c, u, t)
RestoreReadCursor(c, u) == \E t \in ReadTimes : SetRead(c, u, t)
Unread(c, u) == {m \in In(c) : \E s \in Seat(c, u) :
  /\ msgs[m].deletedAt = NoTime /\ msgs[m].sender # u
  /\ msgs[m].created > IF s.read # NoTime THEN s.read ELSE s.joined}

-----------------------------------------------------------------------------
(* Messages.                                                               *)

Message(c, sender, body, created, parent, missed, mention) ==
  [mention |-> mention, conv |-> c, sender |-> sender, body |-> body, created |-> created, parent |-> parent,
   editedAt |-> NoTime, deletedAt |-> NoTime, pinned |-> FALSE, reactions |-> {},
   seen |-> {}, missed |-> missed]

BeginSend(c, u, body) ==
  /\ sends[u] = Nothing /\ Present(c) /\ IsMember(c, u) /\ Len(msgs) < MaxMsgs
  /\ body = Blank => \E f \in DOMAIN files : files[f].msg = 0
  /\ \E mention \in Asked :
       sends' = [sends EXCEPT ![u] = [conv |-> c, body |-> body, created |-> DbNow,
                                      missed |-> {}, mention |-> mention]]
  /\ UNCHANGED <<clock, convs, members, msgs, files, receipts, turns, intents>>
(* The attachments named must all be pending and the sender's own.         *)
CommitSend(u, fs) ==
  LET s == sends[u]
      m == Len(msgs) + 1
  IN /\ s # Nothing /\ m <= MaxMsgs
     /\ s.body = Blank => fs # {}
     /\ \A f \in fs : files[f].conv = s.conv /\ files[f].owner = u /\ files[f].msg = 0
     /\ msgs' = Append(msgs, Message(s.conv, u, s.body, s.created, 0, s.missed, s.mention))
     /\ files' = [f \in DOMAIN files |-> IF f \in fs THEN [files[f] EXCEPT !.msg = m] ELSE files[f]]
     /\ sends' = [sends EXCEPT ![u] = Nothing]
     /\ UNCHANGED <<clock, convs, members, receipts, turns, intents>>
AbortSend(u) == /\ sends[u] # Nothing /\ sends' = [sends EXCEPT ![u] = Nothing]
                /\ UNCHANGED <<clock, convs, members, msgs, files, receipts, turns, intents>>

UploadAttachment(c, u) ==
  /\ Present(c) /\ IsMember(c, u) /\ Len(files) < MaxFiles
  /\ files' = Append(files, [conv |-> c, owner |-> u, msg |-> 0])
  /\ UNCHANGED <<clock, convs, members, msgs, receipts, sends, turns, intents>>
DeletePendingAttachment(f, u) ==
  /\ files[f].owner = u /\ files[f].msg = 0 /\ IsMember(files[f].conv, u)
  /\ files' = [files EXCEPT ![f].msg = -1]
  /\ UNCHANGED <<clock, convs, members, msgs, receipts, sends, turns, intents>>

(* A time no earlier change of the message has.                            *)
Later(previous) == IF Now > previous THEN Now ELSE previous + 2
(* Mutant: two changes in one tick carry one time.                         *)
SameTick(previous) == Now
NextEditTime(previous) == Later(previous)
NextDeleteTime(previous) == Later(previous)

Rewrite(m, new, receipt) ==
  /\ Cardinality(receipts \cup receipt) <= MaxReceipts
  /\ msgs' = [msgs EXCEPT ![m] = new] /\ receipts' = receipts \cup receipt
  /\ UNCHANGED <<clock, convs, members, files, sends, turns, intents>>
(* Blank is whatever sending trims to nothing.  An edit asks for one       *)
(* character and does not trim: it may leave a message of spaces.          *)
EditMessage(m, u, body) ==
  LET t == NextEditTime(msgs[m].editedAt)
  IN /\ msgs[m].sender = u
     /\ Rewrite(m, [msgs[m] EXCEPT !.body = body, !.editedAt = t],
                {[kind |-> "edit", msg |-> m, was |-> msgs[m].body, is |-> body, at |-> t]})
RestoreMessageEdit(m, u, r) ==
  /\ msgs[m].sender = u /\ r.kind = "edit" /\ r.msg = m
  /\ msgs[m].body = r.is /\ msgs[m].editedAt = r.at
  /\ Rewrite(m, [msgs[m] EXCEPT !.body = r.was, !.editedAt = NextEditTime(@)], {})
DeleteMessage(m, u) ==
  LET times == {r.at : r \in {x \in receipts : x.kind = "delete" /\ x.msg = m}}
      t == NextDeleteTime(Max(times \cup {msgs[m].deletedAt}))
  IN /\ msgs[m].sender = u
     /\ Rewrite(m, [msgs[m] EXCEPT !.deletedAt = t],
                {[kind |-> "delete", msg |-> m, was |-> msgs[m].deletedAt, is |-> t, at |-> t]})
RestoreMessageDelete(m, u, r) ==
  /\ msgs[m].sender = u /\ r.kind = "delete" /\ r.msg = m /\ msgs[m].deletedAt = r.at
  /\ Rewrite(m, [msgs[m] EXCEPT !.deletedAt = r.was], {})

Mark(m, u, new) == /\ msgs[m].deletedAt = NoTime /\ IsMember(msgs[m].conv, u)
                   /\ Rewrite(m, new, {})
SetMessageReaction(m, u) ==
  Mark(m, u, [msgs[m] EXCEPT !.reactions = IF u \in @ THEN @ \ {u} ELSE @ \cup {u}])
SetMessagePin(m, u) == Mark(m, u, [msgs[m] EXCEPT !.pinned = ~@])

-----------------------------------------------------------------------------
(* The agent's turn on a message: the answers already there are looked up  *)
(* under the lock of the process, the model is asked, and the answer is    *)
(* sent as a capability whose intent is the message's.                     *)

Answers(m) == {a \in DOMAIN msgs : msgs[a].sender = Agent /\ msgs[a].parent = m}
CanAnswer(m) == /\ Present(msgs[m].conv) /\ msgs[m].deletedAt = NoTime
                /\ IsMember(msgs[m].conv, msgs[m].sender)
BeginTurn(p, m) ==
  /\ turns[p] = 0 /\ msgs[m].sender # Agent
  /\ convs[msgs[m].conv].agent \/ msgs[m].mention
  /\ CanAnswer(m) /\ Answers(m) = {}
  /\ turns' = [turns EXCEPT ![p] = m]
  /\ UNCHANGED <<clock, convs, members, msgs, files, receipts, sends, intents>>
FreshIntent(m) == m \notin intents
PostAnswer(p) ==
  LET m == turns[p]
  IN /\ m # 0 /\ Len(msgs) < MaxMsgs /\ CanAnswer(m) /\ FreshIntent(m)
     /\ msgs' = Append(msgs, Message(msgs[m].conv, Agent, CHOOSE b \in Bodies : TRUE, DbNow, m, {}, FALSE))
     /\ intents' = intents \cup {m} /\ turns' = [turns EXCEPT ![p] = 0]
     /\ UNCHANGED <<clock, convs, members, files, receipts, sends>>
(* The model fails, the answer is refused, or the intent is already used.  *)
EndTurn(p) == /\ turns[p] # 0 /\ turns' = [turns EXCEPT ![p] = 0]
              /\ UNCHANGED <<clock, convs, members, msgs, files, receipts, sends, intents>>

Next == \/ Tick
        \/ \E u \in Users :
             \/ \E k \in {"channel", "dm"} : CreateConversation(u, k)
             \/ AbortSend(u) \/ \E fs \in SUBSET DOMAIN files : CommitSend(u, fs)
             \/ \E c \in DOMAIN convs :
                  \/ "talk" \in Features /\
                       \/ DeleteConversation(c, u) \/ Leave(c, u)
                       \/ AdvanceReadCursor(c, u) \/ RestoreReadCursor(c, u)
                       \/ \E v \in Users : AddMember(c, u, v)
                  \/ "marks" \in Features /\ (UpdateConversation(c, u) \/ ArchiveConversation(c, u))
                  \/ \E b \in Bodies : BeginSend(c, u, b)
                  \/ UploadAttachment(c, u)
             \/ \E m \in DOMAIN msgs :
                  \/ "undo" \in Features /\
                       \/ \E b \in Bodies : EditMessage(m, u, b)
                       \/ DeleteMessage(m, u)
                       \/ \E r \in receipts : RestoreMessageEdit(m, u, r) \/ RestoreMessageDelete(m, u, r)
                  \/ "marks" \in Features /\ (SetMessageReaction(m, u) \/ SetMessagePin(m, u))
             \/ \E f \in DOMAIN files : DeletePendingAttachment(f, u)
        \/ \E p \in Processes : \/ \E m \in DOMAIN msgs : BeginTurn(p, m)
                                \/ PostAnswer(p) \/ EndTurn(p)
Spec == Init /\ [][Next]_vars

-----------------------------------------------------------------------------
(* Properties.                                                             *)

(* "Hold a shared conversation lock through commit so deletion cannot      *)
(* tombstone the row between validation and message insertion": a deleted  *)
(* conversation has the messages it had, whoever was sending.              *)
DeletedIsSealed == \A c \in DOMAIN convs : convs[c].deleted => Cardinality(In(c)) = convs[c].sealed

(* Sending never makes a message without words or files, whatever happens  *)
(* to the files it names meanwhile, and no undo or removal of attachments  *)
(* does: only an edit by its sender can leave one, and its receipt tells.  *)
BlankByEditOnly == \A m \in DOMAIN msgs :
  msgs[m].body = Blank =>
    \/ \E f \in DOMAIN files : files[f].msg = m
    \/ \E r \in receipts : r.kind = "edit" /\ r.msg = m /\ r.is = Blank

(* A receipt fits one moment of its message: changes within one tick of    *)
(* the clock, undone and made again, never share a time, so an undo brings *)
(* back what its own change replaced.                                      *)
UndoIsUnambiguous == \A r, s \in receipts :
  r.kind = s.kind /\ r.msg = s.msg /\ r.at = s.at => r = s

(* What was sent after a member last moved the cursor counts as unread,    *)
(* wherever in the past it was moved to.  Two kinds are born read: those   *)
(* whose transaction had begun before (missed), and those sent while the   *)
(* cursor stands at a time the caller gave and that is still to come.      *)
UnreadIsCounted == \A s \in members : \A m \in In(s.conv) :
  /\ msgs[m].sender # s.user /\ msgs[m].deletedAt = NoTime
  /\ s.user \notin msgs[m].seen \cup msgs[m].missed /\ ~s.ahead
  => m \in Unread(s.conv, s.user)

(* Two processes asked about one message answer it once.                   *)
OneAnswer == \A m \in DOMAIN msgs : Cardinality(Answers(m)) <= 1

(* Conversations lose nothing and repeat nothing.                          *)
ConversationsKeepFaith ==
  DeletedIsSealed /\ BlankByEditOnly /\ UndoIsUnambiguous /\ UnreadIsCounted /\ OneAnswer
=============================================================================
