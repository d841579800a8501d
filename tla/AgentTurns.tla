----------------------------- MODULE AgentTurns -----------------------------
(***************************************************************************)
(* The turns of one Workmate session (httpapi/chat_session.go,             *)
(* chat_loop.go, chat_steer_session.go, agentturn/enforce.go).             *)
(*                                                                         *)
(* A request reads the recent trajectory back as model messages, appends   *)
(* the user's message, and alternates between the model and the tools the  *)
(* model calls; the reply is corrected by what the tools really did.       *)
(* Requests of one session are not serialised, the client may go away      *)
(* while its turn goes on, an append may fail, the provider may fail after *)
(* tools ran, and messages typed meanwhile are drained by any step.        *)
(*                                                                         *)
(* A text is the set of what a reader (or the code's keyword search) finds *)
(* in it; the empty text is {}.                                            *)
(***************************************************************************)
EXTENDS Integers, Sequences, FiniteSets, SequencesExt

CONSTANTS Turns,         \* the requests, numbered from 1
          Kinds,         \* what the model may call: "write", "read", "ask", "ticket", "search"
          Texts,         \* what the model may write
          Synthetic,     \* TRUE when the provider sends no call ids: call_0, call_1 in every answer
          Batches,       \* how many calls one answer may hold
          MaxSteps,      \* chatDefaultMaxSteps
          KeepRecent,    \* chatCompactionKeepRecent
          RecentEvents,  \* the events RecentMessages reads
          LastMessages,  \* the messages chatHistoryMessages keeps
          Steers,        \* the messages typed while a turn runs
          SteerCap,      \* chatSteeringMaxPerSession
          MaxLost,       \* the appends that may fail
          MayLeave,      \* the turns whose client may go away
          MayCompact     \* TRUE when a prompt may outgrow its window

VARIABLES log,       \* session_events, by seq
          turn,      \* the requests
          steering,  \* the process-local queue of the session
          usage,     \* agent_sessions.token_usage, in model answers
          lost,      \* the events whose append failed
          typed      \* the steering messages sent so far

vars == <<log, turn, steering, usage, lost, typed>>

NoCall == 0

\* A trajectory event; call is the call id, slot the (step, index) that made it.
Event(role, t, call, slot, text) ==
  [role |-> role, turn |-> t, call |-> call, slot |-> slot, text |-> text]

Typed(t, text) == Event("user", t, NoCall, <<0, 0>>, {text})

Message(role, calls, text) == [role |-> role, calls |-> calls, text |-> text]

Fresh ==
  [at |-> "new", step |-> 0, history |-> <<>>, messages |-> <<>>, batch |-> <<>>,
   index |-> 0, effects |-> <<>>, final |-> {}, last |-> "none", search |-> FALSE,
   asked |-> FALSE, gone |-> FALSE, compacted |-> FALSE, answers |-> 0, named |-> {}]

Init ==
  /\ log = <<>>
  /\ turn = [t \in Turns |-> Fresh]
  /\ steering = <<>>
  /\ usage = 0
  /\ lost = {}
  /\ typed = {}

\* A request that ended leaves its tables only; the count of its answers is kept.
Ended(t, at) == [Fresh EXCEPT !.at = at, !.answers = turn[t].answers]

\* A request is being served.
Running(t) == turn[t].at \notin {"new", "done", "stopped", "failed"}

-----------------------------------------------------------------------------
(* Reading the trajectory back. *)

\* The map resultByCall: a call is read back when some result bears its id.
HasResult(events, call) ==
  \E i \in DOMAIN events : events[i].role = "tool_result" /\ events[i].call = call

\* A bug: a call is read back before its result is there.
HasCall(events, call) == TRUE

Answered(events, call) == HasResult(events, call)

\* The ids whose call was read back before event i and not yet answered (knownCalls).
KnownCalls(events, i) ==
  {c \in {events[j].call : j \in 1..(i - 1)} :
     \E j \in 1..(i - 1) :
       /\ events[j].role = "tool_call" /\ events[j].call = c /\ Answered(events, c)
       /\ ~ \E k \in (j + 1)..(i - 1) :
              \* a result closes the id only while it is open, and j opened it
              events[k].role = "tool_result" /\ events[k].call = c}

ReadBack(events, i) ==
  LET e == events[i] IN
  CASE e.role \in {"user", "assistant"} /\ e.text # {} -> <<Message(e.role, <<>>, e.text)>>
    [] e.role = "tool_call" /\ Answered(events, e.call) ->
         <<Message("assistant", <<e.call>>, {})>>
    [] e.role = "tool_result" /\ e.call \in KnownCalls(events, i) ->
         <<Message("tool", <<e.call>>, {"result"})>>
    [] OTHER -> <<>>

LastOf(s, n) == SubSeq(s, IF Len(s) > n THEN Len(s) - n + 1 ELSE 1, Len(s))

\* Nothing before the first user message is kept.
FromUser(s) ==
  LET users == {i \in DOMAIN s : s[i].role = "user"} IN
  IF users = {} THEN <<>>
  ELSE SubSeq(s, CHOOSE i \in users : \A j \in users : i <= j, Len(s))

chatHistoryMessages(events) ==
  FromUser(LastOf(FlattenSeq([i \in 1..Len(events) |-> ReadBack(events, i)]), LastMessages))

\* Roles the query asks for; questions ("ask" events) are not read back.
RecentMessages ==
  chatHistoryMessages(LastOf(SelectSeq(log, LAMBDA e : e.role # "ask"), RecentEvents))

-----------------------------------------------------------------------------
(* Writing it. *)

\* AppendEvent locks the session row, so events of concurrent turns get one order; an
\* append that fails is logged by the process and forgotten.
Append1(e) == /\ log' = Append(log, e)
              /\ UNCHANGED lost

Lose(e) == /\ Cardinality(lost) < MaxLost
           /\ lost' = lost \cup {e}
           /\ UNCHANGED log

AppendEvent(e) == Append1(e) \/ Lose(e)

\* Written under the request's context: nothing reaches the table once the client left.
AppendInRequest(t, e) ==
  IF turn[t].gone THEN UNCHANGED <<log, lost>> ELSE AppendEvent(e)

-----------------------------------------------------------------------------
(* The request, up to its first step. *)

\* The session is the caller's; its history is read in a transaction of its own.  A last
\* user message equal to this one (a retry) is not repeated; texts of turns differ here.
Begin(t) ==
  /\ turn[t].at = "new"
  /\ \A u \in Turns : u < t => turn[u].at # "new"
  /\ turn' = [turn EXCEPT ![t].at = "read", ![t].history = RecentMessages]
  /\ UNCHANGED <<log, steering, usage, lost, typed>>

\* The workspace or its tools could not be read: an error, nothing appended.
Refuse(t) ==
  /\ turn[t].at = "read"
  /\ turn' = [turn EXCEPT ![t] = Ended(t, "failed")]
  /\ UNCHANGED <<log, steering, usage, lost, typed>>

\* The user's message is appended; a mode the user may not ask for ends the turn after it.
Greet(t) ==
  /\ turn[t].at = "read"
  /\ AppendInRequest(t, Typed(t, "goal"))
  /\ \E allowed \in BOOLEAN :
       turn' = [turn EXCEPT ![t] =
         IF allowed
         THEN [turn[t] EXCEPT !.at = "loop", !.messages = Append(turn[t].history, Message("user", <<>>, {"goal"}))]
         ELSE Ended(t, "failed")]
  /\ UNCHANGED <<steering, usage, typed>>

\* The client closes the connection: the request's context is cancelled, the turn goes on.
Disconnect(t) ==
  /\ t \in MayLeave /\ Running(t) /\ ~turn[t].gone
  /\ turn' = [turn EXCEPT ![t].gone = TRUE]
  /\ UNCHANGED <<log, steering, usage, lost, typed>>

\* POST /steer: the queue keeps the newest SteerCap messages.
Steer(m) ==
  /\ m \notin typed /\ \E t \in Turns : Running(t)
  /\ typed' = typed \cup {m}
  /\ steering' = LastOf(Append(steering, m), SteerCap)
  /\ UNCHANGED <<log, turn, usage, lost>>

-----------------------------------------------------------------------------
(* The loop. *)

\* Everything but the newest messages becomes a stub that names no call any more.
chatCompactTrajectory(messages) ==
  IF Len(messages) <= KeepRecent THEN messages
  ELSE [i \in DOMAIN messages |->
          IF i <= Len(messages) - KeepRecent
          THEN Message("assistant", <<>>, {"compacted"}) ELSE messages[i]]

\* A step begins: the context is looked at, the queue drained (each message persisted
\* under the request's context and put into the prompt), the prompt compacted if it grew.
StartStep(t) ==
  /\ turn[t].at = "loop" /\ turn[t].step < MaxSteps /\ ~turn[t].gone
  /\ steering' = <<>>
  /\ \E missed \in SUBSET ToSet(steering) :
       LET kept == SelectSeq(steering, LAMBDA m : m \notin missed) IN
       /\ Cardinality(lost) + Cardinality(missed) <= MaxLost
       /\ log' = log \o [i \in DOMAIN kept |-> Typed(t, kept[i])]
       /\ lost' = lost \cup {Typed(t, m) : m \in missed}
  /\ \E compact \in (IF MayCompact THEN BOOLEAN ELSE {FALSE}) :
       LET grown == turn[t].messages
                      \o [i \in DOMAIN steering |-> Message("user", <<>>, {steering[i]})]
           cut == compact /\ Len(grown) > KeepRecent IN
       turn' = [turn EXCEPT ![t].at = "model", ![t].step = @ + 1,
                  ![t].messages = IF cut THEN chatCompactTrajectory(grown) ELSE grown,
                  ![t].compacted = @ \/ cut]
  /\ UNCHANGED <<usage, typed>>

\* The client was gone when a step began: a stop marker, under a context of its own.
StopTurn(t) ==
  /\ turn[t].at = "loop" /\ turn[t].gone
  /\ AppendEvent(Event("assistant", t, NoCall, <<0, 0>>, {}))
  /\ turn' = [turn EXCEPT ![t] = Ended(t, "stopped")]
  /\ UNCHANGED <<steering, usage, typed>>

\* The steps are used up: what the model wrote last is the answer.
LastStep(t) ==
  /\ turn[t].at = "loop" /\ turn[t].step = MaxSteps /\ ~turn[t].gone
  /\ turn' = [turn EXCEPT ![t].at = "enforce"]
  /\ UNCHANGED <<log, steering, usage, lost, typed>>

\* The texts of chatToolFallbackMessage say "could not" or "did not", all but the one about
\* a search, and the one about a pending action says "approval".
chatToolFallbackMessage(tool) ==
  CASE tool = "pending" -> {"said", "approv", "fail"}
    [] tool = "search" -> {"said"}
    [] OTHER -> {"said", "fail"}

\* The provider fails, as it does when the client is gone.  What a tool did is reported
\* in the code's words; with nothing done the turn fails, or stops if the client is gone.
ProviderFails(t) ==
  /\ turn[t].at = "model"
  /\ IF turn[t].last # "none" \/ turn[t].search
     THEN /\ turn' = [turn EXCEPT ![t].at = "enforce",
                ![t].final = chatToolFallbackMessage(
                               IF turn[t].last # "none" THEN turn[t].last ELSE "search")]
          /\ UNCHANGED <<log, lost>>
     ELSE IF turn[t].gone
     THEN /\ AppendEvent(Event("assistant", t, NoCall, <<0, 0>>, {}))
          /\ turn' = [turn EXCEPT ![t] = Ended(t, "stopped")]
     ELSE /\ turn' = [turn EXCEPT ![t] = Ended(t, "failed")]
          /\ UNCHANGED <<log, lost>>
  /\ UNCHANGED <<steering, usage, typed>>

\* A text, when there is one, is a message of its own and the answer so far.
Said(t, text) ==
  [turn[t] EXCEPT !.final = IF text = {} THEN @ ELSE text, !.answers = @ + 1,
                  !.messages = IF text = {} THEN @ ELSE Append(@, Message("assistant", <<>>, text))]

\* The model answers without calling anything.  Reasoning without an answer is nudged on
\* while steps remain.
ProviderAnswers(t) ==
  /\ turn[t].at = "model" /\ ~turn[t].gone
  /\ \E text \in Texts, reasoned \in BOOLEAN :
       /\ reasoned => text = {}
       /\ turn' = [turn EXCEPT ![t] =
            CASE ~reasoned -> [Said(t, text) EXCEPT !.at = "enforce"]
              [] reasoned /\ turn[t].step < MaxSteps ->
                   [Said(t, {}) EXCEPT !.at = "loop", !.messages = Append(@, Message("system", <<>>, {}))]
              [] OTHER -> Ended(t, "failed")]
  /\ UNCHANGED <<log, steering, usage, lost, typed>>

\* The id of the i-th call of a step: the provider's own, or call_i.
CallId(t, step, i) == IF Synthetic THEN i ELSE 100 * t + 10 * step + i

ProviderCalls(t) ==
  /\ turn[t].at = "model" /\ ~turn[t].gone
  /\ \E text \in Texts, n \in Batches :
       \E batch \in [1..n -> Kinds] :
         LET ids == [i \in 1..n |-> CallId(t, turn[t].step, i)] IN
         turn' = [turn EXCEPT ![t] =
           [Said(t, text) EXCEPT !.at = "call", !.batch = batch, !.index = 1, !.asked = FALSE,
              !.messages = Append(@, Message("assistant", ids, text))]]
  /\ UNCHANGED <<log, steering, usage, lost, typed>>

-----------------------------------------------------------------------------
(* The calls of one answer, in order, each persisted under a context of its own. *)

Now(t) == CallId(t, turn[t].step, turn[t].index)
Slot(t) == <<turn[t].step, turn[t].index>>

\* Under a context of its own, so that a client that left loses no event.
persistChatEventDetached(e) == AppendEvent(e)

CallTool(t) ==
  /\ turn[t].at = "call"
  /\ persistChatEventDetached(Event("tool_call", t, Now(t), Slot(t), {}))
  /\ turn' = [turn EXCEPT ![t].at = "result"]
  /\ UNCHANGED <<steering, usage, typed>>

\* What the executor may answer to a call of that kind; nothing once the client is gone.
Outcomes(t, kind) ==
  CASE kind = "ask" \/ kind = "search" -> {"ok"}
    [] turn[t].gone -> {"failed"}
    [] kind = "write" -> {"ok", "pending", "failed"}
    [] OTHER -> {"ok", "failed"}

Emits(kind) == kind \notin {"ask", "ticket"}

\* After the last call of the answer the loop goes on, or ends when a question was put.
After(r) ==
  IF r.index < Len(r.batch) THEN [r EXCEPT !.at = "call", !.index = @ + 1]
  ELSE [r EXCEPT !.at = IF r.asked THEN "enforce" ELSE "loop"]

ToolReturns(t) ==
  /\ turn[t].at = "result"
  /\ LET kind == turn[t].batch[turn[t].index] IN
     \E outcome \in Outcomes(t, kind) :
       LET done == [turn[t] EXCEPT
             !.messages = Append(@, Message("tool", <<Now(t)>>, {"result"})),
             !.asked = @ \/ kind = "ask",
             !.search = @ \/ kind = "search",
             !.last = IF kind \in {"ask", "ticket", "search"} THEN @ ELSE outcome,
             !.effects = IF kind \in {"write", "read"}
                         THEN Append(@, [risk |-> kind, outcome |-> outcome, slot |-> Slot(t)])
                         ELSE @] IN
       /\ turn' = [turn EXCEPT ![t] = After(done)]
       /\ CASE Emits(kind) ->
                 persistChatEventDetached(Event("tool_result", t, Now(t), Slot(t), {outcome}))
            [] kind = "ask" ->
                 persistChatEventDetached(Event("ask", t, Now(t), Slot(t), {"question"}))
            [] OTHER -> UNCHANGED <<log, lost>>
  /\ UNCHANGED <<steering, usage, typed>>

-----------------------------------------------------------------------------
(* The reply. *)

Pending(effects) == {i \in DOMAIN effects : effects[i].outcome = "pending"}
Failed(effects) == {i \in DOMAIN effects : effects[i].outcome = "failed" /\ effects[i].risk # "read"}

mentionsApproval(text) == "approv" \in text
acknowledgesFailure(text) == "fail" \in text

\* A notice names the actions it is about, and holds the words the code looks for.
pendingApprovalNotice == {"said", "approv"}
failedActionNotice == {"said", "fail"}

\* The corrected text and the effects its notices name.
Enforce(text, effects) ==
  LET wait == Pending(effects) # {} /\ ~mentionsApproval(text)
      waiting == IF wait THEN text \cup pendingApprovalNotice ELSE text
      fail == Failed(effects) # {} /\ ~acknowledgesFailure(waiting) IN
  [text |-> IF fail THEN waiting \cup failedActionNotice ELSE waiting,
   named |-> (IF wait THEN Pending(effects) ELSE {}) \cup (IF fail THEN Failed(effects) ELSE {})]

\* The answer is corrected, then appended under the request's context.
Reply(t) ==
  /\ turn[t].at = "enforce"
  /\ LET enforced == Enforce(turn[t].final, turn[t].effects) IN
     /\ AppendInRequest(t, Event("assistant", t, NoCall, <<0, 0>>, enforced.text))
     /\ turn' = [turn EXCEPT ![t].named = enforced.named, ![t].at = "count"]
  /\ UNCHANGED <<steering, usage, typed>>

\* AddUsage adds in one statement; it fails when the client is gone, and the stream then
\* ends with an error instead of the reply.
AddUsage(t) ==
  /\ turn[t].at = "count"
  /\ turn' = [turn EXCEPT ![t] = Ended(t, IF turn[t].gone THEN "failed" ELSE "done")]
  /\ usage' = IF turn[t].gone THEN usage ELSE usage + turn[t].answers
  /\ UNCHANGED <<log, steering, lost, typed>>

Next ==
  \/ \E t \in Turns :
       \/ Begin(t) \/ Refuse(t) \/ Greet(t) \/ Disconnect(t)
       \/ StartStep(t) \/ StopTurn(t) \/ LastStep(t)
       \/ ProviderFails(t) \/ ProviderAnswers(t) \/ ProviderCalls(t)
       \/ CallTool(t) \/ ToolReturns(t) \/ Reply(t) \/ AddUsage(t)
  \/ \E m \in Steers : Steer(m)

Spec == Init /\ [][Next]_vars

-----------------------------------------------------------------------------
(* What must hold. *)

\* A prompt the provider accepts: a tool message follows an earlier call with its id, and
\* the calls of a message are answered, in order, by the messages right after it.
WellFormed(messages) ==
  /\ \A i \in DOMAIN messages : messages[i].role = "assistant" =>
       \A k \in DOMAIN messages[i].calls :
         /\ i + k <= Len(messages)
         /\ messages[i + k].role = "tool" /\ messages[i + k].calls = <<messages[i].calls[k]>>
  /\ \A i \in DOMAIN messages : messages[i].role = "tool" =>
       \E j \in 1..(i - 1) : /\ messages[j].role = "assistant"
                             /\ messages[i].calls[1] \in ToSet(messages[j].calls)

\* Events of another turn stand between a call and its result, or one id names two calls.
Entangled ==
  \/ \E i, j, k \in DOMAIN log :
       /\ i < j /\ j < k /\ log[j].turn # log[i].turn /\ log[j].role # "ask"
       /\ log[i].role = "tool_call" /\ log[k].role = "tool_result"
       /\ log[i].turn = log[k].turn /\ log[i].slot = log[k].slot
  \/ \E i, j \in DOMAIN log :
       /\ log[i].role = "tool_call" /\ log[j].role \in {"tool_call", "tool_result"}
       /\ log[i].call = log[j].call
       /\ <<log[i].turn, log[i].slot>> # <<log[j].turn, log[j].slot>>

\* Whatever was lost, cut off by a limit or is still running, the history a request would
\* now read back is a valid prompt that starts with the user, unless turns were entangled.
HistoryIsValid ==
  \/ Entangled
  \/ /\ WellFormed(RecentMessages)
     /\ RecentMessages # <<>> => RecentMessages[1].role = "user"

\* The prompt of a step is valid as long as nothing was compacted away.
PromptsAreValid ==
  Entangled \/ \A t \in Turns :
    turn[t].at = "model" /\ ~turn[t].compacted => WellFormed(turn[t].messages)

\* Whatever a capability did for a turn is in the trajectory, the client gone or not,
\* except for an append that failed.
EffectsAreRecorded ==
  \A t \in Turns : \A i \in DOMAIN turn[t].effects :
    \A role \in {"tool_call", "tool_result"} :
      \E e \in ToSet(log) \cup lost :
        e.role = role /\ e.turn = t /\ e.slot = turn[t].effects[i].slot

\* A reply names every action that waits for approval and every change that failed, unless
\* the text it corrects already has the words the code looks for.
NothingIsHidden ==
  \A t \in Turns : turn[t].at = "count" =>
    /\ "approv" \notin turn[t].final => Pending(turn[t].effects) \subseteq turn[t].named
    /\ "fail" \notin turn[t].final => Failed(turn[t].effects) \subseteq turn[t].named

\* A message typed meanwhile reaches the trajectory at most once, and is then in the queue
\* no more.
SteeringIsHeardOnce ==
  \A m \in Steers :
    LET heard == {i \in DOMAIN log : m \in log[i].text} IN
    Cardinality(heard) <= 1 /\ (m \in ToSet(steering) => heard = {})

\* A finished turn left its answer in the trajectory and its tokens in the session; a
\* stopped one its marker.
EndsAreMarked ==
  /\ \A t \in Turns : turn[t].at \in {"done", "stopped"} =>
       \E e \in ToSet(log) \cup lost : e.turn = t /\ e.role = "assistant"
  /\ LET Counted == {t \in Turns : turn[t].at = "done"} IN
     usage = FoldSet(LAMBDA t, n : n + turn[t].answers, 0, Counted)

\* The turns of a session: a history and a prompt the provider accepts, every effect in the
\* trajectory, no pending or failed action hidden by the reply, steering heard once, and
\* every end marked (chat_loop.go, chat_session.go, agentturn/enforce.go).
TurnsAreHonest ==
  /\ HistoryIsValid
  /\ PromptsAreValid
  /\ EffectsAreRecorded
  /\ NothingIsHidden
  /\ SteeringIsHeardOnce
  /\ EndsAreMarked
=============================================================================
