----------------------------- MODULE Documents -----------------------------
(***************************************************************************)
(* Documents the organization writes, with an append-only history and an   *)
(* autosaved draft under a soft lock; documents it receives, which a model *)
(* reads outside any transaction while people replace them; and the        *)
(* account suggested for a line of a received bill.                        *)
(*                                                                         *)
(* Publishing and restoring hold an advisory lock of the document, an      *)
(* autosave the document's row: each is one step.  A new version of a      *)
(* received document, its reading and its coding read without a lock what  *)
(* they write later, and are split at their statements.                    *)
(***************************************************************************)
EXTENDS Integers, Sequences, FiniteSets, SequencesExt, FiniteSetsExt

CONSTANTS Users, Files, Workers,
          Texts,        \* contents of a written document
          Images,       \* uploaded contents of a received one
          Lines,        \* bill lines, each the set of its tokens
          Accounts,     \* [code, expense, words], one per code
          Inside,       \* pairs <<t, s>> of tokens where t contains s
          Fallback,     \* the code 6000
          MaxPublished, MaxRev, MaxLives, MaxAdded, Times, MaxRuns,
          None, Gone

VARIABLES doc, history, draft, editor, life, published,
          file, added, memory, readFrom, job, suggestions, runs

authored == <<doc, history, draft, editor, life, published>>
received == <<file, added, memory, readFrom, job, suggestions, runs>>
vars == <<doc, history, draft, editor, life, published, file, added, memory, readFrom, job, suggestions, runs>>

Idle == [op |-> "idle"]

Init == /\ doc = None /\ history = <<>> /\ draft = None /\ life = 0 /\ published = <<>>
        /\ editor = [u \in Users |-> None]
        /\ file = [f \in Files |-> None] /\ added = [f \in Files |-> <<>>]
        /\ memory = [f \in Files |-> <<>>] /\ readFrom = [f \in Files |-> None]
        /\ job = [w \in Workers |-> Idle]
        /\ suggestions = [f \in Files |-> {}] /\ runs = 0

-----------------------------------------------------------------------------
(* Written documents.  published is every content that was ever current,   *)
(* in order; only the properties look at it.                               *)

Room == Len(published) < MaxPublished

CreateDoc(t) == /\ doc = None /\ published = <<>>
                /\ doc' = [content |-> t, status |-> "draft"]
                /\ published' = <<t>>
                /\ UNCHANGED <<history, draft, editor, life>>

DeleteDoc == /\ doc # None
             /\ doc' = None /\ history' = <<>> /\ draft' = None
             /\ UNCHANGED <<editor, life, published>>

(* The current content goes to the history before another takes its place, *)
(* and whatever anyone's draft held is dropped.                            *)
Becomes(t) == /\ history' = Append(history, doc.content)
              /\ doc' = [content |-> t, status |-> "published"]
              /\ draft' = None
              /\ published' = Append(published, t)
              /\ UNCHANGED <<editor, life>>
SaveVersion(t) == doc # None /\ Room /\ Becomes(t)
RestoreVersion(v) == doc # None /\ Room /\ v \in DOMAIN history /\ Becomes(history[v])


(* The draft.  Its revision starts again with every draft; life tells the  *)
(* drafts apart, which neither the program nor the editor does.  since is  *)
(* who wrote since its holder took the lock.                               *)
HeldByOther(u) == draft # None /\ draft.fresh /\ draft.holder \notin {u, None}
Since(u) == IF draft # None /\ draft.fresh /\ draft.holder = u THEN draft.since ELSE {}
Bump(rev) == rev + 1

OpenEditor(u) ==
  /\ doc # None /\ editor[u] = None
  /\ editor' = [editor EXCEPT ![u] =
       IF draft = None \/ HeldByOther(u) THEN [rev |-> None, life |-> life, base |-> doc.content]
       ELSE [rev |-> draft.rev, life |-> life, base |-> draft.content]]
  /\ draft' = IF draft = None \/ HeldByOther(u) THEN draft
              ELSE [draft EXCEPT !.since = Since(u), !.holder = u, !.fresh = TRUE]
  /\ UNCHANGED <<doc, history, life, published>>

Heartbeat(u) ==
  /\ doc # None /\ editor[u] # None /\ draft # None /\ ~HeldByOther(u)
  /\ draft' = [draft EXCEPT !.since = Since(u), !.holder = u, !.fresh = TRUE]
  /\ UNCHANGED <<doc, history, editor, life, published>>

(* An editor that has seen no revision sends none, and is not checked. *)
Conflicts(u) == draft # None /\ editor[u].rev \notin {None, draft.rev}
Autosave(u, t, answered) ==
  /\ doc # None /\ editor[u] # None /\ ~HeldByOther(u) /\ ~Conflicts(u)
  /\ IF draft = None
       THEN /\ life < MaxLives
            /\ life' = life + 1
            /\ draft' = [content |-> t, rev |-> 1, holder |-> u, fresh |-> TRUE, since |-> {u}]
       ELSE /\ draft.rev < MaxRev
            /\ draft' = [content |-> t, rev |-> Bump(draft.rev), holder |-> u, fresh |-> TRUE,
                         since |-> Since(u) \cup {u}]
            /\ UNCHANGED life
  /\ editor' = IF answered THEN [editor EXCEPT ![u] = [rev |-> draft'.rev, life |-> life', base |-> t]] ELSE editor
  /\ UNCHANGED <<doc, history, published>>

Release(u) ==
  /\ editor[u] # None
  /\ editor' = [editor EXCEPT ![u] = None]
  /\ draft' = IF draft # None /\ draft.holder = u THEN [draft EXCEPT !.holder = None, !.fresh = FALSE, !.since = {}]
              ELSE draft
  /\ UNCHANGED <<doc, history, life, published>>

LockLapses == /\ draft # None /\ draft.fresh
              /\ draft' = [draft EXCEPT !.fresh = FALSE]
              /\ UNCHANGED <<doc, history, editor, life, published>>

WriteNext ==
  /\ UNCHANGED received
  /\ \/ \E t \in Texts : CreateDoc(t) \/ SaveVersion(t)
     \/ \E v \in 1..MaxPublished : RestoreVersion(v)
     \/ \E u \in Users : \/ OpenEditor(u) \/ Heartbeat(u) \/ Release(u)
                         \/ \E t \in Texts, a \in BOOLEAN : Autosave(u, t, a)
     \/ DeleteDoc \/ LockLapses

-----------------------------------------------------------------------------
(* Received documents.  What a reading says is named by what it read.      *)

Exists(f) == file[f] \notin {None, Gone}
Source(f) == [image |-> file[f].image, text |-> file[f].text, at |-> file[f].at, scan |-> file[f].scan]
Reading(s) == IF s.scan THEN <<"ocr", s.image>> ELSE <<"text", s.text>>
Starts(w, state) == job[w] = Idle /\ job' = [job EXCEPT ![w] = state]
Moves(w, state) == job' = [job EXCEPT ![w] = state]
Ends(w) == job' = [job EXCEPT ![w] = Idle]

Ingest(f, i, t) ==
  /\ file[f] = None /\ (i = None) # (t = None)
  /\ file' = [file EXCEPT ![f] = [image |-> i, text |-> t, at |-> 0, scan |-> i # None,
                                  markdown |-> IF t = None THEN None ELSE <<"text", t>>,
                                  status |-> IF t = None THEN "received" ELSE "parsed"]]
  /\ UNCHANGED <<added, memory, readFrom, job, suggestions, runs>>

(* The versions and suggestions go with the document, its memory stays. *)
DeleteFile(f) == /\ Exists(f)
                 /\ file' = [file EXCEPT ![f] = Gone]
                 /\ added' = [added EXCEPT ![f] = <<>>]
                 /\ suggestions' = [suggestions EXCEPT ![f] = {}]
                 /\ UNCHANGED <<memory, readFrom, job, runs>>

DeleteMemory(f) == /\ memory[f] # <<>>
                   /\ memory' = [memory EXCEPT ![f] = <<>>]
                   /\ UNCHANGED <<file, added, readFrom, job, suggestions, runs>>

(* The current content is read, then the next number; what is archived is  *)
(* what was read first.  The unique index refuses a number already taken.  *)
AddRead(w, f, i, t) ==
  /\ Exists(f) /\ Len(added[f]) < MaxAdded /\ ~(i = None /\ t = None)
  /\ Starts(w, [op |-> "add", file |-> f, old |-> Source(f), image |-> i, text |-> t])
  /\ UNCHANGED <<file, added, memory, readFrom, suggestions, runs>>
AddNumber(w) ==
  /\ job[w].op = "add"
  /\ LET f == job[w].file IN
     Moves(w, [op |-> "number", file |-> f, old |-> job[w].old, image |-> job[w].image, text |-> job[w].text,
               next |-> Len(added[f]) + 1])
  /\ UNCHANGED <<file, added, memory, readFrom, suggestions, runs>>
AddVersion(w, at) ==
  /\ job[w].op = "number" /\ Ends(w)
  /\ LET j == job[w]  f == j.file IN
     IF ~Exists(f) \/ j.next <= Len(added[f]) THEN UNCHANGED <<file, added>>
     ELSE /\ added' = [added EXCEPT ![f] = Append(@, [image |-> j.old.image, text |-> j.old.text])]
          /\ file' = [file EXCEPT ![f].image = IF j.image = None THEN j.old.image ELSE j.image,
                                  ![f].text = IF j.text = None THEN j.old.text ELSE j.text,
                                  ![f].at = at]
  /\ UNCHANGED <<memory, readFrom, suggestions, runs>>

(* An upload has a type; what is added to a pasted text has none, and is  *)
(* never looked at.  A file is read by a model between two transactions of the executor; the *)
(* second one starts over.  Text is read in the first.                     *)
ParseRead(w, f) ==
  /\ Exists(f)
  /\ Starts(w, IF ~file[f].scan
                 THEN [op |-> "parse", file |-> f, from |-> Source(f), says |-> Reading(Source(f))]
                 ELSE [op |-> "ocr", file |-> f, from |-> Source(f)])
  /\ UNCHANGED <<file, added, memory, readFrom, suggestions, runs>>
OcrReturns(w, ok) ==
  /\ job[w].op = "ocr"
  /\ Moves(w, [op |-> "again", file |-> job[w].file, from |-> job[w].from,
               says |-> IF ok THEN Reading(job[w].from) ELSE None])
  /\ UNCHANGED <<file, added, memory, readFrom, suggestions, runs>>

(* Mutant of sameDocumentsParseSource: that the document still exists is enough. *)
StillThere(f, s) == Exists(f)
sameDocumentsParseSource(f, s) == Exists(f) /\ Source(f) = s

ParseAgain(w) ==
  /\ job[w].op = "again"
  /\ LET j == job[w] IN
     IF sameDocumentsParseSource(j.file, j.from)
       THEN Moves(w, [op |-> "parse", file |-> j.file, from |-> j.from, says |-> j.says])
       ELSE Ends(w)
  /\ UNCHANGED <<file, added, memory, readFrom, suggestions, runs>>
(* The update repeats the comparison on the row it locks. *)
ParseWrite(w) ==
  /\ job[w].op = "parse" /\ Ends(w)
  /\ LET j == job[w]  f == j.file IN
     IF ~sameDocumentsParseSource(f, j.from) THEN UNCHANGED <<file, memory, readFrom>>
     ELSE /\ file[f].at + 1 \in Times
          /\ file' = [file EXCEPT ![f].at = @ + 1,
                                  ![f].status = IF j.says = None THEN "failed" ELSE "parsed",
                                  ![f].markdown = IF j.says = None THEN @ ELSE j.says]
          /\ IF j.says = None THEN UNCHANGED <<memory, readFrom>>
             ELSE /\ memory' = [memory EXCEPT ![f] = <<j.says>>]
                  /\ readFrom' = [readFrom EXCEPT ![f] = Source(f)]
  /\ UNCHANGED <<added, suggestions, runs>>

-----------------------------------------------------------------------------
(* Coding a bill line.  The accounts come in the order the database likes. *)

Orders == {SetToSeq(Accounts), Reverse(SetToSeq(Accounts))}
Matches(t, name) == \E n \in name : n = t \/ <<n, t>> \in Inside \/ <<t, n>> \in Inside
Score(line, account) == Cardinality({t \in line : Matches(t, account.words)})

FallbackCode(expenses) ==
  IF expenses = <<>> \/ \E i \in DOMAIN expenses : expenses[i].code = Fallback THEN Fallback
  ELSE expenses[1].code
Better(line, account, best) ==
  IF \/ Score(line, account) > best.score
     \/ Score(line, account) = best.score /\ best.score > 0 /\ account.code < best.code
    THEN [code |-> account.code, score |-> Score(line, account)] ELSE best
SuggestExpenseAccount(line, accounts) ==
  LET expenses == SelectSeq(accounts, LAMBDA a : a.expense)
  IN FoldLeft(LAMBDA best, a : Better(line, a, best), [code |-> FallbackCode(expenses), score |-> 0], expenses)

(* Old suggestions are deleted as they are seen; a row another run is      *)
(* deleting is waited for.                                                 *)
SuggestDelete(w, f, line, order) ==
  /\ Exists(f) /\ runs < MaxRuns
  /\ \A v \in Workers : job[v].op = "suggest" /\ job[v].file = f => job[v].seen \cap suggestions[f] = {}
  /\ Starts(w, [op |-> "suggest", file |-> f, seen |-> suggestions[f],
                new |-> [run |-> runs + 1, line |-> line, match |-> SuggestExpenseAccount(line, order)]])
  /\ runs' = runs + 1
  /\ UNCHANGED <<file, added, memory, readFrom, suggestions>>
Suggest(w) ==
  /\ job[w].op = "suggest" /\ Ends(w)
  /\ LET f == job[w].file IN
     suggestions' = IF ~Exists(f) THEN suggestions
                    ELSE [suggestions EXCEPT ![f] = (@ \ job[w].seen) \cup {job[w].new}]
  /\ UNCHANGED <<file, added, memory, readFrom, runs>>

ReceiveNext ==
  /\ UNCHANGED authored
  /\ \/ \E f \in Files : \/ DeleteFile(f) \/ DeleteMemory(f)
                         \/ \E i \in Images \cup {None}, t \in Texts \cup {None} :
                              Ingest(f, i, t) \/ \E w \in Workers : AddRead(w, f, i, t)
     \/ \E w \in Workers :
          \/ \E f \in Files : \/ ParseRead(w, f)
                              \/ \E line \in Lines, order \in Orders : SuggestDelete(w, f, line, order)
          \/ \E at \in Times : AddVersion(w, at)
          \/ \E ok \in BOOLEAN : OcrReturns(w, ok)
          \/ AddNumber(w) \/ ParseAgain(w) \/ ParseWrite(w) \/ Suggest(w)

Next == WriteNext \/ ReceiveNext
Spec == Init /\ [][Next]_vars

-----------------------------------------------------------------------------
(* What was ever current is in the history, in order, or still current.    *)
HistoryIsComplete == doc # None => published = Append(history, doc.content)

(* Who holds a draft's revision has seen the draft; who holds its lock is  *)
(* the only one who wrote since.                                           *)
DraftsAreGuarded ==
  draft # None =>
    /\ \A u \in Users : editor[u] # None /\ editor[u].life = life /\ editor[u].rev = draft.rev
                          => editor[u].base = draft.content
    /\ draft.fresh => draft.since \subseteq {draft.holder}

(* What is remembered of a document is what its last reading says, and the *)
(* reading was of the document as it then stood.                           *)
ReadingsAreTrue ==
  \A f \in Files :
    /\ readFrom[f] # None => ~Exists(f) \/ file[f].markdown = Reading(readFrom[f])
    /\ memory[f] # <<>> => readFrom[f] # None /\ memory[f] = <<Reading(readFrom[f])>>

(* A suggested account is the first by code among those that fit best,     *)
(* whatever order the accounts came in.                                    *)
CodingIsStable ==
  \A f \in Files : \A s \in suggestions[f] :
    LET expenses == {a \in Accounts : a.expense}
        best == Max({Score(s.line, a) : a \in expenses} \cup {0})
    IN /\ s.match.score = best
       /\ best > 0 => s.match.code = Min({a.code : a \in {x \in expenses : Score(s.line, x) = best}})
       /\ best = 0 /\ Fallback \in {a.code : a \in expenses} => s.match.code = Fallback

\* What the organization writes and receives is kept as it was: nothing once
\* published is lost, a draft is not overwritten unseen, a reading belongs to the
\* document read, a suggestion to its line (documents_authored.go, documents_parse.go,
\* documents_coding.go, documents_editor_workspace.go).
DocumentsAreKept == HistoryIsComplete /\ DraftsAreGuarded /\ ReadingsAreTrue /\ CodingIsStable
=============================================================================
