------------------------------- MODULE Support -------------------------------
(***************************************************************************)
(* Customer conversations, from the desk and from the website widget.  No  *)
(* operation that looks at a conversation's status locks it, so each reads *)
(* in one step and writes in another; only the automatic reply, drafted    *)
(* by a model outside any transaction, locks the row before it is stored.  *)
(* A message carries the time its transaction began, which is not the      *)
(* order in which messages are committed.                                  *)
(***************************************************************************)
EXTENDS Integers, Sequences, FiniteSets, FiniteSetsExt

CONSTANTS Conversations, Workers,
          Uses,         \* the operations a scene exercises
          Switches,     \* what may be done to the settings
          Horizon, MaxMessages, MaxUpdates,
          Window,       \* a minute, in ticks
          Ttl,          \* a reservation's life
          DraftTime,    \* the longest a draft may take, under Ttl
          AttemptLimit, DraftLimit, OrgLimit, Slots,
          None

VARIABLES clock, convs, msgs, job, settings, undos, counters, slots, begun,
          tries, counter, reader, overlap

vars == <<clock, convs, msgs, job, settings, undos, counters, slots, begun,
          tries, counter, reader, overlap>>

Idle == [op |-> "idle"]
Org == "org"

Init == /\ clock = 0 /\ msgs = <<>> /\ counter = 0 /\ tries = {} /\ slots = {} /\ begun = {}
        /\ convs = [c \in Conversations |-> None]
        /\ job = [w \in Workers |-> Idle]
        /\ settings = [auto |-> TRUE, token |-> 1] /\ undos = {}
        /\ counters = [c \in Conversations \cup {Org} |-> None]
        /\ reader = [c \in Conversations |-> [cursor |-> 0, seen |-> {}]]
        /\ overlap = [c \in Conversations |-> FALSE]

Tick == /\ clock < Horizon /\ clock' = clock + 1
        /\ \A w \in Workers : job[w].op = "draft" => clock - job[w].since < DraftTime
        /\ UNCHANGED <<convs, msgs, job, settings, undos, counters, slots, begun, tries, counter, reader, overlap>>

-----------------------------------------------------------------------------
(* Conversations and messages.                                             *)

Existing == {c \in Conversations : convs[c] # None}
Message(c, from, at) == [conv |-> c, from |-> from, at |-> at, status |-> None]
Says(c, from, status, at) == [conv |-> c, from |-> from, at |-> at, status |-> status]
Free(c) == \A w \in Workers : job[w].op = "store" => job[w].conv # c
Room == Len(msgs) < MaxMessages

NextTicketNumber == counter + 1
Open(c, ticket) ==
  /\ convs[c] = None /\ Room
  /\ convs' = [convs EXCEPT ![c] = [status |-> "open", ticket |-> ticket]]
  /\ msgs' = Append(msgs, Says(c, "system", "open", clock))
StartConversation(c) == /\ "desk" \in Uses /\ Open(c, NextTicketNumber)
                        /\ counter' = NextTicketNumber
                        /\ UNCHANGED <<clock, job, settings, undos, counters, slots, begun, tries, reader, overlap>>

(* A widget request passes the rate limit and resolves its token, then     *)
(* opens its transaction.                                                  *)
Recent(s) == {t \in s : t.at > clock - Window}
AllowAttempt == Cardinality(Recent(tries)) < AttemptLimit
Attempt == tries' = Recent(tries) \cup {[at |-> clock, n |-> Cardinality(Recent(tries))]}
ResolveWidget == settings # None
Start(c) == /\ "widget" \in Uses /\ AllowAttempt /\ ResolveWidget /\ Attempt /\ Open(c, None)
            /\ UNCHANGED <<clock, job, settings, undos, counters, slots, begun, counter, reader, overlap>>

Statuses == [post |-> {"open", "escalated"}, message |-> {"open", "escalated"},
             escalate |-> {"open"}, resolve |-> {"open", "escalated"},
             reopen |-> {"escalated", "resolved"},
             human |-> {"open", "escalated", "resolved"}]
Becomes == [escalate |-> "escalated", human |-> "escalated", resolve |-> "resolved", reopen |-> "open"]
Public == {"message", "human"}
Desk == DOMAIN Statuses \ Public

Busy(c) == \E w \in Workers : job[w] # Idle /\ job[w].conv = c
Read(w, op, c) ==
  /\ job[w] = Idle /\ op \in Uses /\ Room
  /\ convs[c].status \in Statuses[op]
  /\ job' = [job EXCEPT ![w] = [op |-> op, conv |-> c, at |-> clock,
       reply |-> op = "message" /\ convs[c].status = "open"]]
  /\ overlap' = [overlap EXCEPT ![c] = @ \/ Busy(c)]
  /\ UNCHANGED <<clock, convs, msgs, settings, undos, counters, slots, begun, counter, reader>>
DeskRead(w, op, c) == op \in Desk /\ Read(w, op, c) /\ UNCHANGED tries
WidgetRead(w, op, c) == /\ op \in Public /\ convs[c].ticket = None
                        /\ AllowAttempt /\ ResolveWidget /\ Attempt /\ Read(w, op, c)

Enabled == settings # None /\ settings.auto
Commit(w) ==
  /\ job[w].op \in DOMAIN Statuses
  /\ LET c == job[w].conv
         op == job[w].op
     IN /\ Free(c) /\ Room
        /\ IF op \in DOMAIN Becomes
           THEN /\ convs' = [convs EXCEPT ![c].status = Becomes[op]]
                /\ msgs' = Append(msgs, Says(c, "system", Becomes[op], job[w].at))
           ELSE /\ msgs' = Append(msgs, Message(c, IF op = "post" THEN "desk" ELSE "customer", job[w].at))
                /\ UNCHANGED convs
        /\ job' = [job EXCEPT ![w] =
             IF job[w].reply /\ Enabled THEN [op |-> "reserve", conv |-> c] ELSE Idle]
  /\ UNCHANGED <<clock, settings, undos, counters, slots, begun, tries, counter, reader, overlap>>

-----------------------------------------------------------------------------
(* The automatic reply: reserve, draft outside any transaction, store.     *)

InWindow(k) == counters[k] # None /\ counters[k].since > clock - Window
Count(k) == IF InWindow(k) THEN counters[k].n ELSE 0
Counted(k, n) == [since |-> IF InWindow(k) THEN counters[k].since ELSE clock, n |-> Count(k) + n]
Living == {s \in slots : s.until > clock}
Admitted(c) == /\ Cardinality(Living) < Slots
               /\ Count(Org) < OrgLimit /\ Count(c) < DraftLimit
Reservation == Cardinality(begun)
ReserveDraft(w) ==
  /\ job[w].op = "reserve"
  /\ LET c == job[w].conv IN
     \/ /\ Admitted(c)
        /\ counters' = [counters EXCEPT ![Org] = Counted(Org, 1), ![c] = Counted(c, 1)]
        /\ slots' = Living \cup {[id |-> Reservation, until |-> clock + Ttl]}
        /\ begun' = begun \cup {[conv |-> c, at |-> clock, id |-> Reservation]}
        /\ job' = [job EXCEPT ![w] = [op |-> "draft", conv |-> c, since |-> clock, id |-> Reservation]]
     \/ /\ ~Admitted(c)
        /\ counters' = [counters EXCEPT ![Org] = Counted(Org, 0)]
        /\ slots' = Living /\ job' = [job EXCEPT ![w] = Idle] /\ UNCHANGED begun
  /\ UNCHANGED <<clock, convs, msgs, settings, undos, tries, counter, reader, overlap>>

(* The provider answers, or fails; or the server stops and the reservation *)
(* stays until it expires.                                                 *)
ProviderReplies(w) == /\ job' = [job EXCEPT ![w] = [op |-> "append", conv |-> job[w].conv]]
                      /\ slots' = {s \in slots : s.id # job[w].id}
Draft(w) == /\ job[w].op = "draft"
            /\ \/ ProviderReplies(w)
               \/ /\ job' = [job EXCEPT ![w] = Idle]
                  /\ slots' = {s \in slots : s.id # job[w].id}
               \/ job' = [job EXCEPT ![w] = Idle] /\ UNCHANGED slots
            /\ UNCHANGED <<clock, convs, msgs, settings, undos, counters, begun, tries, counter, reader, overlap>>

\* Mutant: the draft is stored whatever became of the conversation.
AppendAlways(w) ==
  /\ job[w].op = "append" /\ Free(job[w].conv) /\ Room
  /\ job' = [job EXCEPT ![w] = [op |-> "store", conv |-> job[w].conv, at |-> clock]]
  /\ UNCHANGED <<clock, convs, msgs, settings, undos, counters, slots, begun, tries, counter, reader, overlap>>
AppendReply(w) ==
  /\ job[w].op = "append" /\ Free(job[w].conv) /\ Room
  /\ job' = [job EXCEPT ![w] =
       IF convs[job[w].conv].status = "open" /\ Enabled
       THEN [op |-> "store", conv |-> job[w].conv, at |-> clock] ELSE Idle]
  /\ UNCHANGED <<clock, convs, msgs, settings, undos, counters, slots, begun, tries, counter, reader, overlap>>
StoreReply(w) ==
  /\ job[w].op = "store" /\ Room
  /\ msgs' = Append(msgs, [Message(job[w].conv, "agent", job[w].at) EXCEPT !.status = convs[job[w].conv].status])
  /\ job' = [job EXCEPT ![w] = Idle]
  /\ UNCHANGED <<clock, convs, settings, undos, counters, slots, begun, tries, counter, reader, overlap>>

-----------------------------------------------------------------------------
(* The channel's settings, under the organization's row lock.              *)

UpdateChannelSettings(s) ==
  /\ s \in Switches
  /\ LET now == [auto |-> CASE s = "on" -> TRUE [] s = "off" -> FALSE
                            [] OTHER -> settings = None \/ settings.auto,
                 token |-> IF settings = None \/ s = "rotate"
                           THEN Cardinality(undos) + 2 ELSE settings.token]
     IN settings' = now /\ undos' = undos \cup {[target |-> settings, current |-> now]}
  /\ Cardinality(undos) < MaxUpdates
  /\ UNCHANGED <<clock, convs, msgs, job, counters, slots, begun, tries, counter, reader, overlap>>
RestoreChannelSettings(u) ==
  /\ settings = u.current /\ settings' = u.target
  /\ UNCHANGED <<clock, convs, msgs, job, undos, counters, slots, begun, tries, counter, reader, overlap>>

-----------------------------------------------------------------------------
(* Reading.  A transcript is ordered by time; the widget asks for what is  *)
(* later than the last message it has, to the millisecond.                 *)

Of(c) == {m \in DOMAIN msgs : msgs[m].conv = c}
Later(m, n) == msgs[m].at > msgs[n].at \/ (msgs[m].at = msgs[n].at /\ m > n)
Poll(c) ==
  LET new == {m \in Of(c) : msgs[m].at >= reader[c].cursor}
  IN /\ "poll" \in Uses /\ ResolveWidget /\ ~(new \subseteq reader[c].seen)
     /\ reader' = [reader EXCEPT ![c] =
          [cursor |-> Max({msgs[m].at : m \in new}), seen |-> @.seen \cup new]]
     /\ UNCHANGED <<clock, convs, msgs, job, settings, undos, counters, slots, begun, tries, counter, overlap>>

Next == \/ Tick
        \/ \E c \in Conversations : StartConversation(c) \/ Start(c)
        \/ \E w \in Workers :
             \/ \E c \in Existing : \/ \E op \in Desk : DeskRead(w, op, c)
                                    \/ \E op \in Public : WidgetRead(w, op, c)
             \/ Commit(w) \/ ReserveDraft(w) \/ Draft(w) \/ AppendReply(w) \/ StoreReply(w)
        \/ \E s \in Switches : UpdateChannelSettings(s)
        \/ \E u \in undos : RestoreChannelSettings(u)
        \/ \E c \in Existing : Poll(c)
Spec == Init /\ [][Next]_vars

-----------------------------------------------------------------------------
(* Properties.                                                             *)

(* No automatic reply enters a conversation a person has taken over or     *)
(* closed, however long its draft took.                                    *)
RepliesAreWelcome == \A m \in DOMAIN msgs : msgs[m].from = "agent" => msgs[m].status = "open"

(* Drafts under way never exceed the slots, even when servers stop, and in *)
(* any minute no conversation drafts twice its limit, nor the organization *)
(* more than twice its own.                                                *)
Drafting == {w \in Workers : job[w].op = "draft"}
Within(t, s) == {b \in s : b.at >= t /\ b.at < t + Window}
DraftsAreBounded ==
  /\ Cardinality(Drafting) <= Slots
  /\ \A t \in 0..Horizon :
       /\ Cardinality(Within(t, begun)) <= 2 * OrgLimit
       /\ \A c \in Existing : Cardinality({b \in Within(t, begun) : b.conv = c}) < 2 * DraftLimit

(* The transcript's latest status line is the status, and a visitor who    *)
(* polls misses nothing behind the cursor, unless two requests overlapped. *)
Lines(c) == {m \in Of(c) : msgs[m].status # None}
TranscriptIsTrue == \A c \in Existing : overlap[c] \/
  /\ \A m \in Lines(c) : (\A n \in Lines(c) \ {m} : Later(m, n)) => msgs[m].status = convs[c].status
  /\ \A m \in Of(c) : msgs[m].at < reader[c].cursor => m \in reader[c].seen

(* Ticket numbers are the desk's, and no two conversations share one.      *)
TicketsAreUnique == \A c, d \in Existing :
  convs[c].ticket # None /\ convs[c].ticket = convs[d].ticket => c = d

(* Replies, drafts, transcripts and tickets of conversations agree.        *)
SupportKeepsFaith == RepliesAreWelcome /\ DraftsAreBounded /\ TranscriptIsTrue /\ TicketsAreUnique
=============================================================================
