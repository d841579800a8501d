---------------------------- MODULE AccessProofs -----------------------------
(***************************************************************************)
(* Proofs about Access: for any number of users, owners, invitations,      *)
(* assignments, acceptances and SCIM calls, with and without a key, the    *)
(* organization keeps an owner while nobody deletes an owner row they did  *)
(* not see, and what the identity provider is answered was true.           *)
(*                                                                         *)
(* "Some owner remains" is not inductive: while transactions stand between *)
(* their delete and their commit, somebody must own the organization who   *)
(* is not about to lose the role to one of those that counted the others.  *)
(* The answers rest on the generations: a receipt that a call without a    *)
(* key could replay is either of an earlier life of the user, which no new *)
(* intent names, or still true.  The two halves touch different rows and   *)
(* are proved apart.                                                       *)
(***************************************************************************)
EXTENDS Access, SequenceTheorems, TLAPS

\* The parts of the invariant that concern roles, and those that concern calls.
Ownership == AnOwnerIsSafe /\ AssigneesStay /\ RemovalIsWhole /\ RolesAreMembers
Answers == TxIsOfItsCall /\ GenerationsPassed /\ CallsHaveSeen /\ AnswersWereTrue

-----------------------------------------------------------------------------
(* Types.                                                                  *)

\* A call that is answered is out of flight; the others keep their intents.
LEMMA AnswerShape ==
  ASSUME DOMAIN call = Calls, NEW calls, DOMAIN calls = Calls, NEW c \in Calls, NEW answer,
         call' = Answer(calls, c, answer), "pc" \in DOMAIN calls[c], "answer" \in DOMAIN calls[c]
  PROVE  /\ DOMAIN call' = Calls /\ call'[c].pc = "idle" /\ call'[c].answer = answer
         /\ \A d \in Calls \ {c} : call'[d] = calls[d]
  BY DEF Answer

\* What a commit adds to the calls in flight, and nothing else.
LEMMA WitnessShape ==
  ASSUME TypeOK, NEW ms, NEW c \in Calls
  PROVE  /\ DOMAIN Witness(ms) = Calls
         /\ ~InFlight(c) => Witness(ms)[c] = call[c]
         /\ InFlight(c) => /\ Witness(ms)[c] \in CallRows
                           /\ Witness(ms)[c].pc = call[c].pc
                           /\ Witness(ms)[c].intent = call[c].intent
                           /\ Witness(ms)[c].seen = call[c].seen \cup {Standing(call[c].intent.user, ms)}
<1>1. CASE ~InFlight(c)
  BY <1>1 DEF Witness, InFlight
<1>2. CASE InFlight(c)
  <2>1. call[c] \in CallRows
    BY <1>2 DEF TypeOK
  <2>2. Witness(ms)[c] = [call[c] EXCEPT !.seen = @ \cup {Standing(call[c].intent.user, ms)}]
    BY <1>2 DEF Witness, InFlight
  <2>3. Standing(call[c].intent.user, ms) \in Standings
    BY DEF Standing, Standings
  <2> QED
    BY <1>2, <2>1, <2>2, <2>3 DEF CallRows, Witness
<1> QED
  BY <1>1, <1>2

\* Invitations change their status and nothing else.
InvitesKept == /\ invites' \in Seq(InviteRows)
               /\ \A i \in DOMAIN invites : i \in DOMAIN invites'

\* No step removes an invitation.
LEMMA InvitesStep ==
  ASSUME TypeOK, [Next]_vars
  PROVE  InvitesKept
<1> USE DEF TypeOK
<1>1. ASSUME UNCHANGED invites PROVE InvitesKept
  BY <1>1 DEF InvitesKept
<1>2. ASSUME NEW u \in Users, NEW r \in Roles \cup {Owner}, InviteMember(u, r) PROVE InvitesKept
  <2> DEFINE row == [user |-> u, role |-> r, status |-> "pending"]
  <2>1. row \in InviteRows /\ invites' = Append(invites, row)
    BY <1>2 DEF InviteMember, InviteRows, RoleNames
  <2> HIDE DEF row
  <2> QED
    BY <2>1 DEF InvitesKept
<1>3. ASSUME NEW i \in DOMAIN invites, NEW to \in {"accepted", "expired"},
             invites' = [invites EXCEPT ![i].status = to]
      PROVE  InvitesKept
  <2> DEFINE row == [invites[i] EXCEPT !.status = to]
  <2>1. invites[i] \in InviteRows
    OBVIOUS
  <2>2. row \in InviteRows /\ invites' = [invites EXCEPT ![i] = row]
    BY <1>3, <2>1 DEF InviteRows
  <2> HIDE DEF row
  <2>3. invites' \in Seq(InviteRows) /\ DOMAIN invites' = DOMAIN invites
    BY <2>2, ExceptSeq
  <2> QED
    BY <2>3 DEF InvitesKept
<1>4. ASSUME CommitDeactivate PROVE InvitesKept
  <2>1. DOMAIN invites' = 1 .. Len(invites)
    BY <1>4 DEF CommitDeactivate
  <2>2. ASSUME NEW i \in DOMAIN invites PROVE invites'[i] \in InviteRows
    <3>1. invites[i] \in InviteRows
      OBVIOUS
    <3>2. invites'[i] \in {invites[i], [invites[i] EXCEPT !.status = "revoked"]}
      BY <1>4 DEF CommitDeactivate
    <3> QED
      BY <3>1, <3>2 DEF InviteRows
  <2>3. invites' \in [1 .. Len(invites) -> InviteRows]
    BY <1>4, <2>1, <2>2 DEF CommitDeactivate
  <2>4. invites' \in Seq(InviteRows)
    BY <2>3, SeqDef
  <2> QED
    BY <2>1, <2>4 DEF InvitesKept
<1>5. ASSUME NEW x \in Changers, change[x] # None, NEW waiting \in SUBSET Waiting(x),
             NEW blind \in BOOLEAN, CommitChange(x, waiting, blind)
      PROVE  InvitesKept
  <2>1. CASE change[x].invite = 0
    BY <1>1, <1>5, <2>1 DEF CommitChange
  <2>2. CASE change[x].invite # 0
    <3>1. /\ change[x].invite \in DOMAIN invites
          /\ invites' = [invites EXCEPT ![change[x].invite].status = "accepted"]
      BY <1>5, <2>2 DEF CommitChange, Accepting
    <3> QED
      BY <1>3, <3>1
  <2> QED
    BY <2>1, <2>2
<1>6. ASSUME NEW i \in DOMAIN invites, ExpireInvitation(i) PROVE InvitesKept
  BY <1>3, <1>6 DEF ExpireInvitation
<1>7. ASSUME \/ \E r \in Roles : CreateRole(r) \/ \E ps \in SUBSET Permissions : UpdateRolePermissions(r, ps)
             \/ \E x \in Changers :
                  \/ \E u \in Users, r \in Roles \cup {Owner} : AssignRole(x, u, r)
                  \/ \E i \in DOMAIN invites : ClaimInvitation(x, i)
                  \/ ReplaceRole(x) \/ AbortChange(x)
             \/ \E t \in Tokens : \/ CreateToken(t) \/ RevokeToken(t)
                                  \/ \E c \in Calls, key \in Keys \cup {None},
                                        op \in {"provision", "deactivate"}, u \in Users :
                                       Request(c, t, key, op, u)
             \/ \E c \in Calls : Replay(c) \/ Provision(c) \/ RefuseToken(c) \/ LockMember(c)
             \/ LookMember \/ RemoveMember \/ RefuseLastOwner \/ AbortDeactivate \/ UNCHANGED vars
      PROVE  UNCHANGED invites
  BY <1>7 DEF CreateRole, UpdateRolePermissions, AssignRole, ClaimInvitation, ReplaceRole, AbortChange,
              CreateToken, RevokeToken, Request, Replay, Provision, RefuseToken, LockMember, LookMember,
              RemoveMember, RefuseLastOwner, AbortDeactivate, vars
<1> QED
  BY <1>1, <1>2, <1>4, <1>5, <1>6, <1>7 DEF Next, ScimNext, ChangeNext

\* What becomes of the calls: one starts, one goes on, or one is answered,
\* while the others may see a commit.
LEMMA RequestCalls ==
  ASSUME TypeOK, NEW c \in Calls, NEW t \in Tokens, NEW key \in Keys \cup {None},
         NEW op \in {"provision", "deactivate"}, NEW u \in Users, Request(c, t, key, op, u)
  PROVE  /\ DOMAIN call' = Calls /\ \A d \in Calls \ {c} : call'[d] = call[d]
         /\ call'[c] \in CallRows /\ call'[c].intent = IntentOf(t, key, op, u)
         /\ Standing(u, members) \in call'[c].seen /\ call'[c].pc = "resolved"
         /\ key # None => \A r \in receipts : r.intent = IntentOf(t, key, op, u)
                                                => r.answer \in call'[c].seen
         /\ IntentOf(t, key, op, u) \in Intents
<1> DEFINE intent == IntentOf(t, key, op, u)
           first == {r \in receipts : key # None /\ r.intent = intent}
           seen == {Standing(u, members)} \cup {r.answer : r \in first}
<1>1. Generation(op, u) \in Nat
  BY DEF TypeOK, Generation
<1>2. intent \in Intents
  BY <1>1 DEF IntentOf, Intents, Operations
<1>3. seen \in SUBSET Standings
  BY DEF Standing, Standings, TypeOK
<1> DEFINE row == [pc |-> "resolved", intent |-> intent, seen |-> seen, answer |-> None]
<1>4. call' = [call EXCEPT ![c] = row]
  BY DEF Request
<1>5. \A r \in receipts : key # None /\ r.intent = intent => r.answer \in seen
  OBVIOUS
<1> HIDE DEF seen, intent
<1>6. row \in CallRows
  BY <1>2, <1>3 DEF CallRows
<1>7. call'[c] = row /\ DOMAIN call' = Calls /\ \A d \in Calls \ {c} : call'[d] = call[d]
  BY <1>4 DEF TypeOK
<1>8. Standing(u, members) \in seen
  BY DEF seen
<1> QED
  BY <1>2, <1>5, <1>6, <1>7, <1>8 DEF intent

\* A call in flight is answered, and the others see nothing.
LEMMA AnsweredCalls ==
  ASSUME TypeOK, NEW c \in Calls, InFlight(c), NEW answer, call' = Answer(call, c, answer)
  PROVE  /\ DOMAIN call' = Calls /\ \A d \in Calls \ {c} : call'[d] = call[d]
         /\ call'[c].pc = "idle" /\ call'[c].answer = answer /\ call'[c].seen = call[c].seen
<1>1. call[c] \in CallRows
  BY DEF TypeOK
<1> QED
  BY <1>1 DEF TypeOK, Answer, CallRows

\* A call in flight commits, is answered, and all of them see the commit.
LEMMA CommittedCalls ==
  ASSUME TypeOK, NEW c \in Calls, InFlight(c), NEW answer, call' = Answer(Witness(members'), c, answer)
  PROVE  /\ DOMAIN call' = Calls /\ \A d \in Calls \ {c} : call'[d] = Witness(members')[d]
         /\ call'[c].pc = "idle" /\ call'[c].answer = answer
         /\ call'[c].seen = call[c].seen \cup {Standing(call[c].intent.user, members')}
<1> DEFINE calls == Witness(members')
<1>1. /\ DOMAIN calls = Calls /\ calls[c] \in CallRows
      /\ calls[c].seen = call[c].seen \cup {Standing(call[c].intent.user, members')}
  BY WitnessShape
<1> HIDE DEF calls
<1>2. call' = [calls EXCEPT ![c].pc = "idle", ![c].answer = answer]
  BY DEF Answer, calls
<1>3. call'[c] = [calls[c] EXCEPT !.pc = "idle", !.answer = answer]
  BY <1>1, <1>2
<1>4. DOMAIN call' = Calls /\ \A d \in Calls \ {c} : call'[d] = calls[d]
  BY <1>1, <1>2
<1>5. /\ call'[c].pc = "idle" /\ call'[c].answer = answer /\ call'[c].seen = calls[c].seen
  BY <1>1, <1>3 DEF CallRows
<1> QED
  BY <1>1, <1>4, <1>5 DEF calls

\* Everything a step may change keeps its type.
LEMMA TypeStep == TypeOK /\ TxIsOfItsCall /\ [Next]_vars => TypeOK'
<1> SUFFICES ASSUME TypeOK, TxIsOfItsCall, [Next]_vars PROVE TypeOK'
  OBVIOUS
<1> DEFINE Rest == /\ members' \subseteq Users /\ role' \in [Users -> SUBSET RoleNames]
                   /\ receipts' \subseteq [intent : Intents, answer : Standings]
                   /\ off' \in [Users -> Nat] /\ raced' \in BOOLEAN /\ unseen' \in BOOLEAN
           Row(t) == t \in ChangeRows /\ (t.invite # 0 => t.invite \in DOMAIN invites)
           Cha == DOMAIN change' = Changers /\ \A x \in Changers : change'[x] # None => Row(change'[x])
           Cal == DOMAIN call' = Calls /\ \A c \in Calls : call'[c].pc # "idle" => call'[c] \in CallRows
           Txn == tx' # None => tx' \in TxRows
<1>0. ASSUME Rest, Cha, Cal, Txn PROVE TypeOK'
  <2>1. InvitesKept
    BY InvitesStep
  <2> QED
    BY <1>0, <2>1 DEF TypeOK, InvitesKept, InFlight, Accepting
<1>1. /\ UNCHANGED <<members, role, receipts, off, raced, unseen>> => Rest
      /\ UNCHANGED change => Cha
      /\ UNCHANGED call => Cal
      /\ UNCHANGED tx => Txn
      /\ DOMAIN change = Changers /\ \A x \in Changers : change[x] # None => Row(change[x])
  BY DEF TypeOK, InFlight, Accepting
<1> HIDE DEF Rest, Cha, Cal, Txn
\* Changes of roles.
<1>2. ASSUME NEW x \in Changers, NEW row, Row(row), change' = [change EXCEPT ![x] = row]
      PROVE  Cha
  BY <1>1, <1>2 DEF Cha
<1>3. ASSUME NEW x \in Changers, NEW u \in Users, NEW r \in RoleNames, NEW i \in Nat,
             i # 0 => i \in DOMAIN invites, Look(x, u, r, i)
      PROVE  Cha
  <2> DEFINE row == [user |-> u, role |-> r, invite |-> i, pc |-> "looked",
                     held |-> r # Owner /\ Owner \in role[u], deleted |-> {}]
  <2>1. change' = [change EXCEPT ![x] = row]
    BY <1>3 DEF Look
  <2>2. row \in ChangeRows /\ row.invite = i
    BY DEF ChangeRows
  <2> HIDE DEF row
  <2> QED
    BY <1>2, <1>3, <2>1, <2>2
<1>4. ASSUME NEW x \in Changers, NEW u \in Users, NEW r \in Roles \cup {Owner}, AssignRole(x, u, r)
      PROVE  TypeOK'
  <2>1. Cha
    BY <1>3, <1>4 DEF AssignRole, RoleNames
  <2> QED
    BY <1>0, <1>1, <1>4, <2>1 DEF AssignRole, scimVars, history
<1>5. ASSUME NEW x \in Changers, NEW i \in DOMAIN invites, ClaimInvitation(x, i) PROVE TypeOK'
  <2>1. invites[i] \in InviteRows /\ i \in Nat
    BY DEF TypeOK
  <2>2. invites[i].user \in Users /\ invites[i].role \in RoleNames
    BY <2>1 DEF InviteRows
  <2>3. Cha
    BY <1>3, <1>5, <2>1, <2>2 DEF ClaimInvitation
  <2> QED
    BY <1>0, <1>1, <1>5, <2>3 DEF ClaimInvitation, scimVars, history
<1>6. ASSUME NEW x \in Changers, ReplaceRole(x) PROVE TypeOK'
  <2>1. Row(change[x]) /\ change[x].user \in Users
    BY <1>1, <1>6 DEF ReplaceRole, ChangeRows
  <2> DEFINE row == [change[x] EXCEPT !.pc = "replaced", !.deleted = role[change[x].user]]
  <2>2. row \in ChangeRows /\ row.invite = change[x].invite
    BY <2>1 DEF TypeOK, ChangeRows
  <2>3. change' = [change EXCEPT ![x] = row]
    BY <1>6 DEF ReplaceRole
  <2> HIDE DEF row
  <2>4. Cha
    BY <1>2, <2>1, <2>2, <2>3
  <2> QED
    BY <1>0, <1>1, <1>6, <2>4 DEF ReplaceRole, scimVars, history
<1>7. ASSUME NEW x \in Changers, AbortChange(x) PROVE TypeOK'
  <2>1. Cha
    BY <1>1, <1>7 DEF AbortChange, Cha
  <2> QED
    BY <1>0, <1>1, <1>7, <2>1 DEF AbortChange, scimVars, history
<1>8. ASSUME NEW x \in Changers, change[x] # None, NEW waiting \in SUBSET Waiting(x),
             NEW blind \in BOOLEAN, CommitChange(x, waiting, blind)
      PROVE  TypeOK'
  <2> DEFINE t == change[x]
  <2>1. t \in ChangeRows
    BY <1>1, <1>8
  <2>2. t.user \in Users /\ t.role \in RoleNames
    BY <2>1 DEF ChangeRows
  <2>3. /\ members' \subseteq members \cup {t.user} /\ UNCHANGED <<receipts, off>>
        /\ role' = [role EXCEPT ![t.user] = (@ \ t.deleted) \cup {t.role}]
        /\ raced' = (raced \/ blind \/ Deactivating(t.user))
        /\ unseen' = (unseen \/ (Owner \in t.deleted /\ ~t.held /\ t.role # Owner))
        /\ change' = [y \in Changers |-> IF y = x THEN None
                                         ELSE IF y \in waiting THEN Blind(change[y], "replaced")
                                         ELSE change[y]]
        /\ tx' = IF blind THEN Blind(tx, "removing") ELSE tx
        /\ blind => TxWaits(x)
    BY <1>8 DEF CommitChange
  <2>4. Rest
    <3>1. raced' \in BOOLEAN /\ unseen' \in BOOLEAN
      BY <2>3, Zenon
    <3>2. members' \subseteq Users /\ role' \in [Users -> SUBSET RoleNames]
      BY <2>2, <2>3 DEF TypeOK
    <3> QED
      BY <2>3, <3>1, <3>2 DEF TypeOK, Rest
  <2>5. Cha
    <3>1. ASSUME NEW y \in Changers, change[y] # None
          PROVE  Row(Blind(change[y], "replaced")) /\ Row(change[y])
      <4>1. Row(change[y])
        BY <1>1, <3>1
      <4> QED
        BY <4>1 DEF ChangeRows, Blind
    <3>2. ASSUME NEW y \in Changers, change'[y] # None PROVE Row(change'[y])
      <4>1. change[y] # None /\ change'[y] \in {Blind(change[y], "replaced"), change[y]}
        BY <2>3, <3>2 DEF Waiting
      <4> QED
        BY <3>1, <4>1
    <3> QED
      BY <2>3, <3>2 DEF Cha
  <2>6. Cal
    <3>1. call' = Witness(members') /\ DOMAIN Witness(members') = Calls
      BY <1>8 DEF CommitChange, Witness
    <3>2. ASSUME NEW c \in Calls, call'[c].pc # "idle" PROVE call'[c] \in CallRows
      BY <3>1, <3>2, WitnessShape DEF InFlight
    <3> QED
      BY <3>1, <3>2 DEF Cal
  <2>7. Txn
    <3>1. tx' = tx \/ (tx # None /\ tx' = Blind(tx, "removing"))
      BY <2>3 DEF TxWaits
    <3>2. tx # None => tx \in TxRows
      BY DEF TypeOK
    <3>3. tx # None => Blind(tx, "removing") \in TxRows
      BY <3>2 DEF TxRows, Blind
    <3> QED
      BY <3>1, <3>2, <3>3 DEF Txn
  <2> QED
    BY <1>0, <2>4, <2>5, <2>6, <2>7
\* SCIM.
<1>9. ASSUME NEW t \in Tokens, NEW c \in Calls, NEW key \in Keys \cup {None},
             NEW op \in {"provision", "deactivate"}, NEW u \in Users, Request(c, t, key, op, u)
      PROVE  TypeOK'
  <2>1. Cal
    BY <1>9, RequestCalls DEF Cal, TypeOK, InFlight
  <2> QED
    BY <1>0, <1>1, <1>9, <2>1 DEF Request, history
<1>10. ASSUME NEW c \in Calls, Replay(c) \/ RefuseToken(c) PROVE TypeOK'
  <2>1. InFlight(c) /\ \E answer : call' = Answer(call, c, answer)
    BY <1>10 DEF Replay, RefuseToken, Holds, InFlight
  <2>2. Cal
    BY <2>1, AnsweredCalls DEF Cal, TypeOK, InFlight
  <2> QED
    BY <1>0, <1>1, <1>10, <2>2 DEF Replay, RefuseToken, history
<1>11. ASSUME NEW c \in Calls, InFlight(c), NEW answer \in Standings
       PROVE  /\ Receipt(c, answer) \in [intent : Intents, answer : Standings]
              /\ Stored(c, answer) \subseteq [intent : Intents, answer : Standings]
              /\ call[c].intent.user \in Users
  <2>1. call[c] \in CallRows
    BY <1>11 DEF TypeOK
  <2>2. call[c].intent \in Intents
    BY <2>1 DEF CallRows
  <2> QED
    BY <2>2 DEF Receipt, Stored, TypeOK, Intents
<1>12. ASSUME NEW c \in Calls, Provision(c) PROVE TypeOK'
  <2>1. InFlight(c) /\ \E answer : call' = Answer(Witness(members'), c, answer)
    BY <1>12 DEF Provision, Holds, InFlight
  <2>2. Cal
    BY <2>1, CommittedCalls, WitnessShape DEF Cal, InFlight
  <2>3. Rest
    BY <1>11, <1>12, <2>1 DEF Provision, Rest, TypeOK, Standings, history
  <2> QED
    BY <1>0, <1>1, <1>12, <2>2, <2>3 DEF Provision
<1>13. ASSUME NEW c \in Calls, LockMember(c) PROVE TypeOK'
  <2>1. InFlight(c) /\ call[c] \in CallRows /\ "inactive" \in Standings
    BY <1>13 DEF LockMember, Holds, InFlight, TypeOK, Standings
  <2>2. call[c].intent.user \in Users
    BY <1>11, <2>1
  <2>3. CASE call' = Answer(call, c, "inactive") /\ receipts' = Stored(c, "inactive") /\ UNCHANGED tx
    <3>1. Cal
      BY <2>1, <2>3, AnsweredCalls DEF Cal, TypeOK, InFlight
    <3>2. Rest
      BY <1>11, <1>13, <2>1, <2>3 DEF LockMember, Rest, TypeOK, history
    <3> QED
      BY <1>0, <1>1, <1>13, <2>3, <3>1, <3>2 DEF LockMember
  <2>4. CASE /\ tx' = [call |-> c, user |-> call[c].intent.user, pc |-> "locked", held |-> FALSE,
                       deleted |-> {}]
             /\ call' = [call EXCEPT ![c].pc = "deactivating"] /\ UNCHANGED receipts
    <3>1. Txn
      BY <2>2, <2>4 DEF Txn, TxRows
    <3> DEFINE row == [call[c] EXCEPT !.pc = "deactivating"]
    <3>2. row \in CallRows /\ call' = [call EXCEPT ![c] = row]
      BY <2>1, <2>4 DEF CallRows
    <3> HIDE DEF row
    <3>3. Cal
      BY <3>2 DEF Cal, TypeOK, InFlight
    <3> QED
      BY <1>0, <1>1, <1>13, <2>4, <3>1, <3>3 DEF LockMember, history
  <2> QED
    BY <1>13, <2>3, <2>4 DEF LockMember
<1>14. ASSUME LookMember \/ RemoveMember PROVE TypeOK'
  <2>1. tx \in TxRows
    BY <1>14 DEF LookMember, RemoveMember, TypeOK
  <2>2. role[tx.user] \in SUBSET RoleNames
    BY <2>1 DEF TypeOK, TxRows
  <2>3. \/ tx' = [tx EXCEPT !.pc = "looked", !.held = Owner \in role[tx.user]]
        \/ tx' = [tx EXCEPT !.pc = "removing", !.deleted = role[tx.user]]
    BY <1>14 DEF LookMember, RemoveMember
  <2>4. tx' \in TxRows
    <3>1. CASE tx' = [tx EXCEPT !.pc = "looked", !.held = Owner \in role[tx.user]]
      <4>1. tx' = [call |-> tx.call, user |-> tx.user, pc |-> "looked",
                   held |-> Owner \in role[tx.user], deleted |-> tx.deleted]
        BY <2>1, <3>1 DEF TxRows
      <4> QED
        BY <2>1, <4>1 DEF TxRows
    <3>2. CASE tx' = [tx EXCEPT !.pc = "removing", !.deleted = role[tx.user]]
      BY <2>1, <2>2, <3>2 DEF TxRows
    <3> QED
      BY <2>3, <3>1, <3>2
  <2> QED
    BY <1>0, <1>1, <1>14, <2>4 DEF LookMember, RemoveMember, history, Txn
<1>15. ASSUME tx # None
       PROVE  tx \in TxRows /\ tx.call \in Calls /\ InFlight(tx.call) /\ tx.user \in Users
  BY <1>15 DEF TypeOK, TxRows, TxIsOfItsCall, InFlight
<1>16. ASSUME RefuseLastOwner PROVE TypeOK'
  <2>1. tx.call \in Calls /\ InFlight(tx.call) /\ "active" \in Standings
    BY <1>15, <1>16 DEF RefuseLastOwner, Standings
  <2>2. Cal /\ Txn
    BY <1>16, <2>1, AnsweredCalls DEF RefuseLastOwner, Cal, Txn, TypeOK, InFlight
  <2>3. Rest
    BY <1>11, <1>16, <2>1 DEF RefuseLastOwner, Rest, TypeOK, history
  <2> QED
    BY <1>0, <1>1, <1>16, <2>2, <2>3 DEF RefuseLastOwner
<1>17. ASSUME CommitDeactivate PROVE TypeOK'
  <2>1. tx \in TxRows /\ tx.call \in Calls /\ InFlight(tx.call) /\ tx.user \in Users
    BY <1>15, <1>17 DEF CommitDeactivate
  <2>2. call' = Answer(Witness(members'), tx.call, "inactive")
    BY <1>17 DEF CommitDeactivate
  <2>3. Cal
    BY <2>1, <2>2, CommittedCalls, WitnessShape DEF Cal, InFlight
  <2>4. unseen' \in BOOLEAN
    BY <1>17, Zenon DEF CommitDeactivate
  <2>5. Receipt(tx.call, "inactive") \in [intent : Intents, answer : Standings]
    BY <1>11, <2>1 DEF Standings
  <2>6. Rest
    BY <1>17, <2>1, <2>4, <2>5 DEF CommitDeactivate, Rest, TypeOK
  <2>7. Txn
    BY <1>17 DEF CommitDeactivate, Txn
  <2> QED
    BY <1>0, <1>1, <1>17, <2>3, <2>6, <2>7 DEF CommitDeactivate
<1>18. ASSUME AbortDeactivate PROVE TypeOK'
  <2>1. tx.call \in Calls /\ InFlight(tx.call)
    BY <1>15, <1>18 DEF AbortDeactivate
  <2>2. Cal /\ Txn
    BY <1>18, <2>1, AnsweredCalls DEF AbortDeactivate, Cal, Txn, TypeOK, InFlight
  <2> QED
    BY <1>0, <1>1, <1>18, <2>2 DEF AbortDeactivate, history
<1>19. ASSUME \/ \E r \in Roles : CreateRole(r) \/ \E ps \in SUBSET Permissions : UpdateRolePermissions(r, ps)
              \/ \E u \in Users, r \in Roles \cup {Owner} : InviteMember(u, r)
              \/ \E i \in DOMAIN invites : ExpireInvitation(i)
              \/ \E t \in Tokens : CreateToken(t) \/ RevokeToken(t)
              \/ UNCHANGED vars
       PROVE  UNCHANGED <<members, role, receipts, off, change, call, tx, raced, unseen>>
  BY <1>19 DEF CreateRole, UpdateRolePermissions, InviteMember, ExpireInvitation, CreateToken,
               RevokeToken, vars, scimVars, history
<1>20. ASSUME UNCHANGED <<members, role, receipts, off, change, call, tx, raced, unseen>> PROVE TypeOK'
  BY <1>0, <1>1, <1>20
<1> QED
  BY <1>4, <1>5, <1>6, <1>7, <1>8, <1>9, <1>10, <1>12, <1>13, <1>14, <1>16, <1>17, <1>18, <1>19, <1>20
     DEF Next, ScimNext, ChangeNext

-----------------------------------------------------------------------------
(* Owners.                                                                 *)

\* While the owners' rows are free nobody is losing the owner role.
LEMMA FreeIsSafe ==
  ASSUME OwnerRowsFree, NEW v \in Users
  PROVE  ~Losing(v)
  BY DEF OwnerRowsFree, LocksOwners, Losing, Replacing, Deactivating

\* Nobody comes closer to losing the owner role in a step that lets none of
\* those that counted the owners delete rows.
LEMMA LosingShrinks ==
  ASSUME NEW u \in Users,
         \A x \in Changers : (change'[x] # None /\ change'[x].pc = "replaced" /\ change'[x].user = u
                              /\ change'[x].held /\ Owner \in change'[x].deleted
                              /\ change'[x].role # Owner)
                             => change'[x] = change[x],
         (Deactivating(u)' /\ tx'.held /\ Owner \in tx'.deleted) => tx' = tx,
         Losing(u)'
  PROVE  Losing(u)
  BY DEF Losing, Replacing, Deactivating

\* A transaction that counted the owners leaves one of them safe; one that
\* counted nobody takes the role from nobody who is safe.
LEMMA SafeAfterDelete ==
  ASSUME AnOwnerIsSafe, NEW u \in Users, UNCHANGED <<role, unseen>>,
         \/ \A w \in Users : Losing(w)' => Losing(w)
         \/ /\ OwnerRowsFree /\ OthersOwn(u)
            /\ \A w \in Users : Losing(w)' => Losing(w) \/ w = u
  PROVE  AnOwnerIsSafe'
<1>1. CASE OwnerRowsFree /\ OthersOwn(u) /\ \A w \in Users : Losing(w)' => Losing(w) \/ w = u
  <2>1. PICK w \in Users \ {u} : Owner \in role[w]
    BY <1>1 DEF OthersOwn
  <2>2. ~Losing(w)
    BY <1>1, <2>1, FreeIsSafe
  <2> QED
    BY <1>1, <2>1, <2>2 DEF AnOwnerIsSafe
<1>2. CASE \A w \in Users : Losing(w)' => Losing(w)
  BY <1>2 DEF AnOwnerIsSafe
<1> QED
  BY <1>1, <1>2

\* A step that changes no role, no membership and no deleted row.
LEMMA QuietOwnership ==
  ASSUME TypeOK, Ownership, UNCHANGED <<role, raced, unseen>>, members \subseteq members',
         \A x \in Changers : change'[x] # None =>
           change'[x] = change[x] \/ (change'[x].pc = "looked" /\ change'[x].invite # 0),
         tx' = tx \/ (tx' # None => tx'.pc # "removing"),
         tx' = tx \/ tx' = None \/ tx'.pc = "locked" \/ \A x \in Changers : ~Assigning(x)'
  PROVE  Ownership'
<1>1. \A u \in Users : Losing(u)' => Losing(u)
  BY LosingShrinks DEF Deactivating
<1>2. AnOwnerIsSafe'
  BY <1>1 DEF Ownership, AnOwnerIsSafe
<1>3. AssigneesStay'
  BY DEF Ownership, AssigneesStay, Assigning
<1>4. RemovalIsWhole' /\ RolesAreMembers'
  BY DEF Ownership, RemovalIsWhole, RolesAreMembers
<1> QED
  BY <1>2, <1>3, <1>4 DEF Ownership

\* Every step leaves a safe owner and roles to members only, but for what it
\* marks as unseen or raced.
LEMMA OwnershipStep == TypeOK /\ TxIsOfItsCall /\ Ownership /\ [Next]_vars => Ownership'
<1> SUFFICES ASSUME TypeOK, TxIsOfItsCall, Ownership, [Next]_vars PROVE Ownership'
  OBVIOUS
<1>1. ASSUME UNCHANGED <<role, raced, unseen, change, tx>>, members \subseteq members' PROVE Ownership'
  BY <1>1, QuietOwnership
<1>2. ASSUME \/ \E r \in Roles : CreateRole(r) \/ \E ps \in SUBSET Permissions : UpdateRolePermissions(r, ps)
             \/ \E u \in Users, r \in Roles \cup {Owner} : InviteMember(u, r)
             \/ \E i \in DOMAIN invites : ExpireInvitation(i)
             \/ \E t \in Tokens : \/ CreateToken(t) \/ RevokeToken(t)
                                  \/ \E c \in Calls, key \in Keys \cup {None},
                                        op \in {"provision", "deactivate"}, u \in Users :
                                       Request(c, t, key, op, u)
             \/ \E c \in Calls : Replay(c) \/ RefuseToken(c) \/ Provision(c)
             \/ UNCHANGED vars
      PROVE  UNCHANGED <<role, raced, unseen, change, tx>> /\ members \subseteq members'
  BY <1>2 DEF CreateRole, UpdateRolePermissions, InviteMember, ExpireInvitation, CreateToken,
              RevokeToken, Request, Replay, RefuseToken, Provision, vars, scimVars, history
\* Transactions that begin, look or end without a commit.
<1>3. ASSUME NEW c \in Calls, LockMember(c) PROVE Ownership'
  <2>1. UNCHANGED <<role, raced, unseen, change, members>> /\ (tx' = tx \/ tx'.pc = "locked")
    BY <1>3 DEF LockMember, history
  <2> QED
    BY <2>1, QuietOwnership
<1>4. ASSUME LookMember PROVE Ownership'
  <2>1. /\ UNCHANGED <<role, raced, unseen, change, members>> /\ tx'.pc = "looked"
        /\ \A x \in Changers : ~Assigning(x)
    BY <1>4 DEF LookMember, history, TypeOK, TxRows, GrantsLocked
  <2> QED
    BY <2>1, QuietOwnership DEF Assigning
<1>5. ASSUME RefuseLastOwner \/ AbortDeactivate PROVE Ownership'
  <2>1. UNCHANGED <<role, raced, unseen, change, members>> /\ tx' = None
    BY <1>5 DEF RefuseLastOwner, AbortDeactivate, history
  <2> QED
    BY <2>1, QuietOwnership
<1>6. ASSUME NEW x \in Changers, AbortChange(x) PROVE Ownership'
  <2>1. /\ UNCHANGED <<role, raced, unseen, members, tx>>
        /\ \A y \in Changers : change'[y] # None => change'[y] = change[y]
    BY <1>6 DEF AbortChange, TypeOK, scimVars, history
  <2> QED
    BY <2>1, QuietOwnership
<1>7. ASSUME NEW x \in Changers, NEW i \in DOMAIN invites, ClaimInvitation(x, i) PROVE Ownership'
  <2>1. /\ UNCHANGED <<role, raced, unseen, members, tx>>
        /\ \A y \in Changers \ {x} : change'[y] = change[y]
        /\ change'[x].pc = "looked" /\ change'[x].invite = i
    BY <1>7 DEF ClaimInvitation, Look, TypeOK, scimVars, history
  <2>2. i # 0
    BY DEF TypeOK
  <2> QED
    BY <2>1, <2>2, QuietOwnership
<1>8. ASSUME NEW x \in Changers, NEW u \in Users, NEW r \in Roles \cup {Owner}, AssignRole(x, u, r)
      PROVE  Ownership'
  <2>1. /\ UNCHANGED <<role, raced, unseen, members, tx>>
        /\ \A y \in Changers \ {x} : change'[y] = change[y]
        /\ change'[x].pc = "looked" /\ change'[x].user = u
        /\ u \in members /\ (tx = None \/ tx.pc = "locked")
    BY <1>8 DEF AssignRole, Look, GrantsLocked, TypeOK, scimVars, history
  <2>2. \A w \in Users : Losing(w)' => Losing(w)
    BY <2>1, LosingShrinks
  <2>3. AnOwnerIsSafe'
    BY <2>1, <2>2 DEF Ownership, AnOwnerIsSafe
  <2>4. AssigneesStay'
    BY <2>1 DEF Ownership, AssigneesStay, Assigning
  <2> QED
    BY <2>1, <2>3, <2>4 DEF Ownership, RemovalIsWhole, RolesAreMembers
\* Transactions that delete.
<1>9. ASSUME NEW x \in Changers, ReplaceRole(x) PROVE Ownership'
  <2> DEFINE t == change[x]
             u == change[x].user
  <2>1. /\ t # None /\ t \in ChangeRows /\ MayDelete(u, t.held) /\ UNCHANGED <<role, raced, unseen, members, tx>>
        /\ change' = [change EXCEPT ![x].pc = "replaced", ![x].deleted = role[u]]
    BY <1>9 DEF ReplaceRole, TypeOK, scimVars, history
  <2>2. u \in Users /\ t.held \in BOOLEAN
    BY <2>1 DEF ChangeRows
  <2>3. \A y \in Changers \ {x} : change'[y] = change[y]
    BY <2>1 DEF TypeOK
  <2>4. /\ change'[x].user = u /\ change'[x].held = t.held /\ change'[x].invite = t.invite
    BY <2>1 DEF TypeOK, ChangeRows
  <2>5. ASSUME NEW w \in Users, Losing(w)', ~(w = u /\ t.held) PROVE Losing(w)
    BY <2>1, <2>3, <2>4, <2>5 DEF Losing, Replacing, Deactivating
  <2>6. AnOwnerIsSafe'
    <3>1. UNCHANGED <<role, unseen>> /\ AnOwnerIsSafe
      BY <2>1 DEF Ownership
    <3>2. CASE change[x].held
      BY <2>1, <2>2, <2>5, <3>1, <3>2, SafeAfterDelete DEF MayDelete, NotLastOwner
    <3>3. CASE ~change[x].held
      BY <2>2, <2>5, <3>1, <3>3, SafeAfterDelete
    <3> QED
      BY <3>2, <3>3
  <2>7. AssigneesStay'
    <3> SUFFICES ASSUME NEW y \in Changers, Assigning(y)'
                 PROVE  change'[y].user \in members' /\ (tx' = None \/ tx'.pc = "locked")
      BY DEF AssigneesStay
    <3>1. Assigning(y) /\ change'[y].user = change[y].user
      BY <2>1, <2>3, <2>4 DEF Assigning
    <3>2. UNCHANGED <<members, tx>>
      BY <2>1
    <3> QED
      BY <3>1, <3>2 DEF Ownership, AssigneesStay
  <2> QED
    BY <2>1, <2>6, <2>7 DEF Ownership, RemovalIsWhole, RolesAreMembers
<1>10. ASSUME RemoveMember PROVE Ownership'
  <2> DEFINE u == tx.user
  <2>1. /\ tx # None /\ tx \in TxRows /\ MayDelete(u, tx.held) /\ tx.pc = "looked"
        /\ tx' = [tx EXCEPT !.pc = "removing", !.deleted = role[u]]
        /\ UNCHANGED <<members, role, change, raced, unseen>>
    BY <1>10 DEF RemoveMember, TypeOK, history
  <2>2. u \in Users /\ tx.held \in BOOLEAN /\ tx'.user = u /\ tx'.held = tx.held /\ tx'.deleted = role[u]
    BY <2>1 DEF TxRows
  <2>3. ASSUME NEW w \in Users, Losing(w)', ~(w = u /\ tx.held) PROVE Losing(w)
    BY <2>1, <2>2, <2>3 DEF Losing, Replacing, Deactivating
  <2>4. AssigneesStay'
    BY <2>1 DEF Ownership, AssigneesStay, Assigning
  <2>5. RemovalIsWhole'
    BY <2>1, <2>2 DEF RemovalIsWhole
  <2> HIDE DEF u
  <2>6. AnOwnerIsSafe'
    <3>1. UNCHANGED <<role, unseen>> /\ AnOwnerIsSafe
      BY <2>1 DEF Ownership
    <3>2. CASE tx.held
      BY <2>1, <2>2, <2>3, <3>1, <3>2, SafeAfterDelete DEF MayDelete, NotLastOwner
    <3>3. CASE ~tx.held
      BY <2>2, <2>3, <3>1, <3>3, SafeAfterDelete
    <3> QED
      BY <3>2, <3>3
  <2> QED
    BY <2>1, <2>4, <2>5, <2>6 DEF Ownership, RolesAreMembers
\* Commits.
<1>11. ASSUME NEW x \in Changers, change[x] # None, NEW waiting \in SUBSET Waiting(x),
              NEW blind \in BOOLEAN, CommitChange(x, waiting, blind)
       PROVE  Ownership'
  <2> DEFINE t == change[x]
             u == t.user
  <2>1. /\ t.pc = "replaced" /\ (blind => TxWaits(x))
        /\ members' = IF t.invite = 0 THEN members ELSE members \cup {u}
        /\ role' = [role EXCEPT ![u] = (@ \ t.deleted) \cup {t.role}]
        /\ change' = [y \in Changers |-> IF y = x THEN None
                                         ELSE IF y \in waiting THEN Blind(change[y], "replaced")
                                         ELSE change[y]]
        /\ tx' = IF blind THEN Blind(tx, "removing") ELSE tx
        /\ raced' = (raced \/ blind \/ Deactivating(u))
        /\ unseen' = (unseen \/ (Owner \in t.deleted /\ ~t.held /\ t.role # Owner))
    BY <1>11 DEF CommitChange
  <2>2. t \in ChangeRows /\ u \in Users
    BY <1>11 DEF TypeOK, ChangeRows
  <2>3. \A w \in Users \ {u} : role'[w] = role[w]
    BY <2>1 DEF TypeOK
  <2>4. role'[u] = (role[u] \ t.deleted) \cup {t.role}
    BY <2>1, <2>2 DEF TypeOK
  <2>5. ASSUME NEW y \in Changers, change'[y] # None
        PROVE  \/ change'[y] = change[y]
               \/ /\ change[y] # None /\ change'[y].deleted = {}
                  /\ change'[y].user = change[y].user /\ change'[y].invite = change[y].invite
    <3>1. change[y] # None /\ change'[y] \in {Blind(change[y], "replaced"), change[y]}
      BY <2>1, <2>5 DEF Waiting
    <3>2. change[y] \in ChangeRows
      BY <3>1 DEF TypeOK
    <3> QED
      BY <3>1, <3>2 DEF ChangeRows, Blind
  <2>6. \/ tx' = tx
        \/ /\ blind /\ tx # None /\ tx.pc = "looked" /\ tx'.deleted = {} /\ tx'.user = tx.user
    <3>1. CASE blind
      <4>1. tx # None /\ tx \in TxRows /\ tx.pc = "looked" /\ tx' = Blind(tx, "removing")
        BY <2>1, <3>1 DEF TxWaits, TypeOK
      <4>2. tx'.deleted = {} /\ tx'.user = tx.user /\ Blind(tx, "removing").pc = "removing"
        BY <4>1 DEF Blind, TxRows
      <4> QED
        BY <3>1, <4>1, <4>2
    <3>2. CASE ~blind
      BY <2>1, <3>2
    <3> QED
      BY <3>1, <3>2
  <2>7. \A w \in Users : Losing(w)' => Losing(w)
    BY <2>5, <2>6, LosingShrinks
  <2>8. AnOwnerIsSafe'
    <3> SUFFICES ASSUME ~unseen' PROVE \E w \in Users : Owner \in role'[w] /\ ~Losing(w)'
      BY DEF AnOwnerIsSafe
    <3>1. ~unseen /\ ~(Owner \in t.deleted /\ ~t.held /\ t.role # Owner)
      BY <2>1, Zenon
    <3>2. PICK w \in Users : Owner \in role[w] /\ ~Losing(w)
      BY <3>1 DEF Ownership, AnOwnerIsSafe
    <3>3. w = u => ~(t.held /\ Owner \in t.deleted /\ t.role # Owner)
      BY <1>11, <2>1, <3>2 DEF Losing, Replacing
    <3>4. Owner \in role'[w]
      BY <2>3, <2>4, <3>1, <3>2, <3>3
    <3> QED
      BY <2>7, <3>2, <3>4
  <2>9. ~raced' => ~raced /\ ~blind /\ ~Deactivating(u)
    BY <2>1, Zenon
  <2>10. AssigneesStay'
    <3> SUFFICES ASSUME NEW y \in Changers, Assigning(y)'
                 PROVE  change'[y].user \in members' /\ (tx' = None \/ tx'.pc = "locked")
      BY DEF AssigneesStay
    <3>1. Assigning(y) /\ change'[y].user = change[y].user
      BY <2>5 DEF Assigning
    <3>2. change[y].user \in members /\ (tx = None \/ tx.pc = "locked")
      BY <3>1 DEF Ownership, AssigneesStay
    <3> QED
      BY <2>1, <2>6, <3>1, <3>2
  <2>11. RemovalIsWhole'
    <3> SUFFICES ASSUME tx' # None, tx'.pc = "removing", ~raced' PROVE role'[tx'.user] \subseteq tx'.deleted
      BY DEF RemovalIsWhole
    <3>1. tx' = tx /\ ~raced /\ ~Deactivating(u)
      BY <2>6, <2>9
    <3>2. tx.user \in Users /\ tx.user # u
      BY <3>1 DEF Deactivating, TypeOK, TxRows
    <3> QED
      BY <2>3, <3>1, <3>2 DEF Ownership, RemovalIsWhole
  <2>12. RolesAreMembers'
    <3>1. ~raced' => ~raced
      BY <2>9
    <3>2. t.invite = 0 => u \in members
      BY <1>11 DEF Ownership, AssigneesStay, Assigning
    <3> HIDE DEF t, u
    <3> QED
      BY <2>1, <2>3, <3>1, <3>2 DEF Ownership, RolesAreMembers
  <2> QED
    BY <2>8, <2>10, <2>11, <2>12 DEF Ownership
<1>12. ASSUME CommitDeactivate PROVE Ownership'
  <2>1. /\ tx # None /\ tx \in TxRows /\ tx.pc = "removing" /\ tx' = None /\ UNCHANGED <<change, raced>>
        /\ members' = members \ {tx.user} /\ role' = [role EXCEPT ![tx.user] = @ \ tx.deleted]
        /\ unseen' = (unseen \/ (Owner \in tx.deleted /\ ~tx.held))
    BY <1>12 DEF CommitDeactivate, TypeOK
  <2>2. /\ tx.user \in Users /\ \A w \in Users \ {tx.user} : role'[w] = role[w]
        /\ role'[tx.user] = role[tx.user] \ tx.deleted
    BY <2>1 DEF TypeOK, TxRows
  <2>3. \A w \in Users : Losing(w)' => Losing(w)
    BY <2>1, LosingShrinks DEF Deactivating
  <2>4. AnOwnerIsSafe'
    <3> SUFFICES ASSUME ~unseen' PROVE \E w \in Users : Owner \in role'[w] /\ ~Losing(w)'
      BY DEF AnOwnerIsSafe
    <3>1. ~unseen /\ ~(Owner \in tx.deleted /\ ~tx.held)
      BY <2>1, Zenon
    <3>2. PICK w \in Users : Owner \in role[w] /\ ~Losing(w)
      BY <3>1 DEF Ownership, AnOwnerIsSafe
    <3>3. w = tx.user => ~(tx.held /\ Owner \in tx.deleted)
      BY <2>1, <3>2 DEF Losing, Deactivating
    <3> QED
      BY <2>2, <2>3, <3>1, <3>2, <3>3
  <2>5. \A x \in Changers : ~Assigning(x)
    BY <2>1 DEF Ownership, AssigneesStay
  <2>6. AssigneesStay' /\ RemovalIsWhole'
    BY <2>1, <2>5 DEF AssigneesStay, Assigning, RemovalIsWhole
  <2>7. RolesAreMembers'
    BY <2>1, <2>2 DEF Ownership, RemovalIsWhole, RolesAreMembers
  <2> QED
    BY <2>4, <2>6, <2>7 DEF Ownership
<1> QED
  BY <1>1, <1>2, <1>3, <1>4, <1>5, <1>6, <1>7, <1>8, <1>9, <1>10, <1>11, <1>12
     DEF Next, ScimNext, ChangeNext

-----------------------------------------------------------------------------
(* Answers.                                                                *)

\* A step that leaves the memberships, the receipts and the calls alone, and
\* at most moves the deactivation in flight, leaves all the answers as they were.
LEMMA QuietAnswers ==
  ASSUME Answers, UNCHANGED <<members, receipts, off, call>>,
         tx' # None => tx # None /\ tx'.user = tx.user /\ tx'.call = tx.call
  PROVE  Answers'
  BY DEF Answers, TxIsOfItsCall, GenerationsPassed, CallsHaveSeen, AnswersWereTrue, InFlight

\* The answers are as good as each call's own, and each receipt: what one call
\* and one receipt must satisfy.
CallIsSound(c) ==
  /\ InFlight(c) =>
       /\ call[c].intent.key = None => call[c].intent.generation <= off[call[c].intent.user]
       /\ Standing(call[c].intent.user, members) \in call[c].seen
       /\ \A r \in receipts : r.intent = call[c].intent => r.answer \in call[c].seen
  /\ call[c].answer # None => call[c].answer \in call[c].seen
ReceiptIsSound(r) ==
  r.intent.key = None =>
    /\ r.answer = Promised(r.intent.op)
    /\ IF r.intent.op = "deactivate" THEN r.intent.generation < off[r.intent.user]
       ELSE /\ r.intent.generation <= off[r.intent.user]
            /\ r.intent.generation = off[r.intent.user] => r.intent.user \in members
ReceiptsPassed == \A r \in receipts : ReceiptIsSound(r)

\* The invariant about answers, split into its calls and its receipts.
LEMMA AnswersPerCall ==
  Answers <=> TxIsOfItsCall /\ ReceiptsPassed /\ \A c \in Calls : CallIsSound(c)
  BY DEF Answers, GenerationsPassed, CallsHaveSeen, AnswersWereTrue, CallIsSound, ReceiptsPassed,
         ReceiptIsSound

\* A request without a key finds no receipt of its own intent, or one that
\* tells the truth now: this is what the generation is for.
LEMMA FreshIntent ==
  ASSUME TypeOK, ReceiptsPassed, NEW t \in Tokens, NEW op \in {"provision", "deactivate"}, NEW u \in Users
  PROVE  /\ IntentOf(t, None, op, u).generation <= off[u]
         /\ \A r \in receipts : r.intent = IntentOf(t, None, op, u) => r.answer = Standing(u, members)
<1> DEFINE i == IntentOf(t, None, op, u)
<1>1. i.op = op /\ i.user = u /\ i.key = None /\ i.generation = Generation(op, u)
  BY DEF IntentOf
<1>2. off[u] \in Nat
  BY DEF TypeOK
<1>3. Generation(op, u) <= off[u]
  BY <1>2 DEF Generation
<1> HIDE DEF i
<1>4. ASSUME NEW r \in receipts, r.intent = i PROVE r.answer = Standing(u, members)
  <2>1. ReceiptIsSound(r)
    BY DEF ReceiptsPassed
  <2>2. CASE op = "provision"
    <3>1. Generation(op, u) = off[u]
      BY <2>2 DEF Generation
    <3>2. r.answer = "active" /\ u \in members
      BY <1>1, <1>4, <2>1, <2>2, <3>1 DEF ReceiptIsSound, Promised
    <3> QED
      BY <3>2 DEF Standing
  <2>3. CASE op = "deactivate"
    <3>1. r.answer = "inactive" /\ Generation(op, u) < off[u]
      BY <1>1, <1>4, <2>1, <2>3 DEF ReceiptIsSound, Promised
    <3>2. u \notin members
      BY <1>2, <2>3, <3>1 DEF Generation
    <3> QED
      BY <3>1, <3>2 DEF Standing
  <2> QED
    BY <2>2, <2>3
<1> QED
  BY <1>1, <1>3, <1>4 DEF i

\* A commit that adds a member, or removes one and passes to the next
\* generation, leaves the calls it does not answer sound.
LEMMA WitnessSound ==
  ASSUME TypeOK, NEW c \in Calls, CallIsSound(c), call'[c] = Witness(members')[c],
         InFlight(c) => /\ off[call[c].intent.user] <= off'[call[c].intent.user]
                        /\ off'[call[c].intent.user] \in Nat
                        /\ \A r \in receipts' : (r \notin receipts /\ r.intent = call[c].intent)
                             => r.answer = Standing(call[c].intent.user, members')
  PROVE  CallIsSound(c)'
<1>1. CASE ~InFlight(c)
  <2>1. call'[c] = call[c]
    BY <1>1, WitnessShape
  <2> QED
    BY <1>1, <2>1 DEF CallIsSound, InFlight
<1>2. CASE InFlight(c)
  <2>1. /\ call'[c] \in CallRows /\ call'[c].pc = call[c].pc /\ call'[c].intent = call[c].intent
        /\ call'[c].seen = call[c].seen \cup {Standing(call[c].intent.user, members')}
    BY <1>2, WitnessShape
  <2>2. call'[c].answer = None
    BY <2>1 DEF CallRows
  <2>3. call[c].intent.generation \in Nat /\ off[call[c].intent.user] \in Nat
    BY <1>2 DEF TypeOK, CallRows, Intents
  <2>4. ASSUME NEW r \in receipts', r.intent = call[c].intent PROVE r.answer \in call'[c].seen
    BY <1>2, <2>1, <2>4 DEF CallIsSound
  <2>5. call[c].intent.key = None => call[c].intent.generation <= off'[call[c].intent.user]
    BY <1>2, <2>3 DEF CallIsSound
  <2> QED
    BY <1>2, <2>1, <2>2, <2>4, <2>5 DEF CallIsSound, InFlight
<1> QED
  BY <1>1, <1>2

\* A commit leaves the call and the user of the deactivation in flight.
LEMMA WitnessTx ==
  ASSUME TypeOK, TxIsOfItsCall, members \subseteq members',
         tx' # None => /\ tx # None /\ tx'.user = tx.user /\ tx'.call = tx.call
                       /\ call'[tx.call] = Witness(members')[tx.call]
  PROVE  TxIsOfItsCall'
<1> SUFFICES ASSUME tx' # None
             PROVE  /\ tx'.user \in members' /\ call'[tx'.call].pc = "deactivating"
                    /\ call'[tx'.call].intent.op = "deactivate"
                    /\ call'[tx'.call].intent.user = tx'.user
  BY DEF TxIsOfItsCall
<1>1. tx # None /\ tx.call \in Calls /\ InFlight(tx.call)
  BY DEF TxIsOfItsCall, InFlight, TypeOK, TxRows
<1>2. call'[tx.call].pc = call[tx.call].pc /\ call'[tx.call].intent = call[tx.call].intent
  BY <1>1, WitnessShape
<1> QED
  BY <1>1, <1>2 DEF TxIsOfItsCall

\* Every step keeps the calls, their receipts and their answers sound.
LEMMA AnswersStep == TypeOK /\ Answers /\ [Next]_vars => Answers'
<1> SUFFICES ASSUME TypeOK, Answers, [Next]_vars PROVE Answers'
  OBVIOUS
<1>0. TxIsOfItsCall /\ ReceiptsPassed /\ \A c \in Calls : CallIsSound(c)
  BY AnswersPerCall
<1>1. ASSUME TxIsOfItsCall', ReceiptsPassed', \A c \in Calls : CallIsSound(c)' PROVE Answers'
  BY <1>1 DEF Answers, GenerationsPassed, CallsHaveSeen, AnswersWereTrue, CallIsSound, ReceiptsPassed,
              ReceiptIsSound
\* Steps that concern no call.
<1>2. ASSUME \/ \E r \in Roles : CreateRole(r) \/ \E ps \in SUBSET Permissions : UpdateRolePermissions(r, ps)
             \/ \E u \in Users, r \in Roles \cup {Owner} : InviteMember(u, r)
             \/ \E x \in Changers :
                  \/ \E u \in Users, r \in Roles \cup {Owner} : AssignRole(x, u, r)
                  \/ \E i \in DOMAIN invites : ClaimInvitation(x, i)
                  \/ ReplaceRole(x) \/ AbortChange(x)
             \/ \E i \in DOMAIN invites : ExpireInvitation(i)
             \/ \E t \in Tokens : CreateToken(t) \/ RevokeToken(t)
             \/ UNCHANGED vars
      PROVE  UNCHANGED <<members, receipts, off, call, tx>>
  BY <1>2 DEF CreateRole, UpdateRolePermissions, AssignRole, InviteMember, ClaimInvitation, ReplaceRole,
              AbortChange, ExpireInvitation, CreateToken, RevokeToken, vars, scimVars
<1>3. ASSUME UNCHANGED <<members, receipts, off, call, tx>> PROVE Answers'
  BY <1>3, QuietAnswers
<1>4. ASSUME LookMember \/ RemoveMember PROVE Answers'
  <2>1. tx \in TxRows /\ tx # None
    BY <1>4 DEF LookMember, RemoveMember, TypeOK
  <2>2. tx'.user = tx.user /\ tx'.call = tx.call
    BY <1>4, <2>1 DEF LookMember, RemoveMember, TxRows
  <2> QED
    BY <1>4, <2>1, <2>2, QuietAnswers DEF LookMember, RemoveMember
\* A step of one call, while nothing is committed.
<1>5. ASSUME NEW c \in Calls, \A d \in Calls \ {c} : call'[d] = call[d], CallIsSound(c)',
             UNCHANGED <<members, receipts, off>>, TxIsOfItsCall'
      PROVE  Answers'
  <2>1. ReceiptsPassed'
    BY <1>0, <1>5 DEF ReceiptsPassed, ReceiptIsSound
  <2>2. ASSUME NEW d \in Calls, d # c PROVE CallIsSound(d)'
    BY <1>0, <1>5, <2>2 DEF CallIsSound, InFlight
  <2> QED
    BY <1>1, <1>5, <2>1, <2>2
<1>6. ASSUME NEW t \in Tokens, NEW c \in Calls, NEW key \in Keys \cup {None},
             NEW op \in {"provision", "deactivate"}, NEW u \in Users, Request(c, t, key, op, u)
      PROVE  Answers'
  <2> DEFINE i == IntentOf(t, key, op, u)
  <2>1. /\ \A d \in Calls \ {c} : call'[d] = call[d]
        /\ call'[c] \in CallRows /\ call'[c].intent = i
        /\ Standing(u, members) \in call'[c].seen
        /\ key # None => \A r \in receipts : r.intent = i => r.answer \in call'[c].seen
    BY <1>6, RequestCalls
  <2>2. UNCHANGED <<members, receipts, off, tx>> /\ call[c].pc = "idle"
    BY <1>6 DEF Request
  <2>3. call'[c].answer = None
    BY <2>1 DEF CallRows
  <2>4. i.user = u /\ i.key = key
    BY DEF IntentOf
  <2>5. key = None => /\ i.generation <= off[u]
                      /\ \A r \in receipts : r.intent = i => r.answer = Standing(u, members)
    BY <1>0, FreshIntent
  <2> HIDE DEF i
  <2>6. CallIsSound(c)'
    BY <2>1, <2>2, <2>3, <2>4, <2>5 DEF CallIsSound
  <2>7. TxIsOfItsCall'
    BY <1>0, <2>1, <2>2 DEF TxIsOfItsCall, TypeOK, TxRows
  <2> QED
    BY <1>5, <2>1, <2>2, <2>6, <2>7
\* An answer without a commit, stored if the request has a key.
<1>7. ASSUME NEW c \in Calls, InFlight(c), NEW answer, call' = Answer(call, c, answer),
             UNCHANGED <<members, off>>, tx' = None \/ (tx' = tx /\ tx.call # c),
             \/ UNCHANGED receipts /\ (answer = None \/ answer \in call[c].seen)
             \/ receipts' = Stored(c, answer) /\ answer = Standing(call[c].intent.user, members)
      PROVE  Answers'
  <2>1. /\ \A d \in Calls \ {c} : call'[d] = call[d]
        /\ call'[c].pc = "idle" /\ call'[c].answer = answer /\ call'[c].seen = call[c].seen
    BY <1>7, AnsweredCalls
  <2>2. answer # None => answer \in call[c].seen
    BY <1>0, <1>7 DEF CallIsSound
  <2>3. CallIsSound(c)'
    BY <2>1, <2>2 DEF CallIsSound, InFlight
  <2>4. TxIsOfItsCall'
    BY <1>0, <1>7, <2>1 DEF TxIsOfItsCall, TypeOK, TxRows
  <2>5. ASSUME NEW r \in receipts', r \notin receipts
        PROVE  /\ r.intent = call[c].intent /\ r.intent.key # None
               /\ r.answer = Standing(call[c].intent.user, members)
    BY <1>7, <2>5 DEF Stored, Receipt
  <2>6. ReceiptsPassed'
    BY <1>0, <1>7, <2>5 DEF ReceiptsPassed, ReceiptIsSound
  <2>7. ASSUME NEW d \in Calls, d # c PROVE CallIsSound(d)'
    <3>1. call'[d] = call[d] /\ CallIsSound(d)
      BY <1>0, <2>1, <2>7
    <3>2. ASSUME InFlight(d), NEW r \in receipts', r.intent = call[d].intent PROVE r.answer \in call[d].seen
      BY <2>5, <3>1, <3>2 DEF CallIsSound
    <3> QED
      BY <1>7, <3>1, <3>2 DEF CallIsSound, InFlight
  <2> QED
    BY <1>1, <2>3, <2>4, <2>6, <2>7
<1>8. ASSUME NEW c \in Calls, call[c].pc = "resolved"
      PROVE  InFlight(c) /\ call[c] \in CallRows /\ (tx # None => tx.call # c)
  BY <1>0, <1>8 DEF TxIsOfItsCall, InFlight, TypeOK
<1>9. ASSUME tx # None
      PROVE  /\ tx \in TxRows /\ tx.call \in Calls /\ tx.user \in members /\ tx.user \in Users
             /\ InFlight(tx.call) /\ call[tx.call].intent.op = "deactivate"
             /\ call[tx.call].intent.user = tx.user
  BY <1>0, <1>9 DEF TxIsOfItsCall, TypeOK, TxRows, InFlight
<1>10. ASSUME NEW c \in Calls, Replay(c) PROVE Answers'
  <2>1. /\ call[c].pc = "resolved" /\ UNCHANGED <<members, receipts, off, tx>>
    BY <1>10 DEF Replay, Holds
  <2>2. InFlight(c) /\ (tx # None => tx.call # c)
    BY <1>8, <2>1
  <2>3. PICK r \in Prior(c) : call' = Answer(call, c, IF r.intent = call[c].intent THEN r.answer ELSE None)
    BY <1>10 DEF Replay
  <2>4. r \in receipts /\ (r.intent = call[c].intent => r.answer \in call[c].seen)
    BY <1>0, <2>2, <2>3 DEF CallIsSound, Prior
  <2>5. CASE r.intent = call[c].intent
    BY <1>7, <2>1, <2>2, <2>3, <2>4, <2>5
  <2>6. CASE r.intent # call[c].intent
    BY <1>7, <2>1, <2>2, <2>3, <2>6
  <2> QED
    BY <2>5, <2>6
<1>11. ASSUME NEW c \in Calls, RefuseToken(c) PROVE Answers'
  <2>1. InFlight(c) /\ (tx # None => tx.call # c)
    BY <1>8, <1>11 DEF RefuseToken, Holds
  <2> QED
    BY <1>7, <1>11, <2>1 DEF RefuseToken
<1>12. ASSUME NEW c \in Calls, LockMember(c) PROVE Answers'
  <2>1. call[c].pc = "resolved" /\ call[c].intent.op = "deactivate" /\ tx = None
        /\ UNCHANGED <<members, off>>
    BY <1>12 DEF LockMember, Holds
  <2>2. InFlight(c) /\ call[c] \in CallRows
    BY <1>8, <2>1
  <2>3. CASE /\ call[c].intent.user \notin members /\ call' = Answer(call, c, "inactive")
             /\ receipts' = Stored(c, "inactive") /\ UNCHANGED tx
    <3>1. Standing(call[c].intent.user, members) = "inactive"
      BY <2>3 DEF Standing
    <3> QED
      BY <1>7, <2>1, <2>2, <2>3, <3>1
  <2>4. CASE /\ call[c].intent.user \in members
             /\ tx' = [call |-> c, user |-> call[c].intent.user, pc |-> "locked", held |-> FALSE,
                       deleted |-> {}]
             /\ call' = [call EXCEPT ![c].pc = "deactivating"] /\ UNCHANGED receipts
    <3>1. \A d \in Calls \ {c} : call'[d] = call[d]
      BY <2>4 DEF TypeOK
    <3>2. call'[c] = [call[c] EXCEPT !.pc = "deactivating"]
      BY <2>4 DEF TypeOK
    <3>3. /\ call'[c].pc = "deactivating" /\ call'[c].intent = call[c].intent
          /\ call'[c].seen = call[c].seen /\ call'[c].answer = call[c].answer
      BY <2>2, <3>2 DEF CallRows
    <3>4. CallIsSound(c)'
      BY <1>0, <2>1, <2>2, <2>4, <3>3 DEF CallIsSound
    <3>5. TxIsOfItsCall'
      BY <2>1, <2>4, <3>3 DEF TxIsOfItsCall
    <3> QED
      BY <1>5, <2>1, <2>4, <3>1, <3>4, <3>5
  <2> QED
    BY <1>12, <2>3, <2>4 DEF LockMember
<1>13. ASSUME RefuseLastOwner PROVE Answers'
  <2>1. /\ tx.call \in Calls /\ InFlight(tx.call) /\ call[tx.call].intent.user = tx.user
        /\ Standing(tx.user, members) = "active"
    BY <1>9, <1>13 DEF RefuseLastOwner, Standing
  <2> QED
    BY <1>7, <1>13, <2>1 DEF RefuseLastOwner
<1>14. ASSUME AbortDeactivate PROVE Answers'
  BY <1>7, <1>9, <1>14 DEF AbortDeactivate
\* Steps that commit a membership.
<1>15. ASSUME NEW x \in Changers, change[x] # None, NEW waiting \in SUBSET Waiting(x),
              NEW blind \in BOOLEAN, CommitChange(x, waiting, blind)
       PROVE  Answers'
  <2>1. /\ members \subseteq members' /\ call' = Witness(members') /\ UNCHANGED <<receipts, off>>
        /\ tx' = tx \/ (tx # None /\ tx' = Blind(tx, "removing"))
    BY <1>15 DEF CommitChange, TxWaits
  <2>2. ASSUME NEW c \in Calls PROVE CallIsSound(c)'
    <3>1. InFlight(c) => off[call[c].intent.user] \in Nat
      BY DEF TypeOK, CallRows, Intents
    <3> QED
      BY <1>0, <2>1, <3>1, WitnessSound
  <2>3. ReceiptsPassed'
    BY <1>0, <2>1 DEF ReceiptsPassed, ReceiptIsSound
  <2>4. tx' # None => tx # None /\ tx'.user = tx.user /\ tx'.call = tx.call
    BY <1>9, <2>1 DEF Blind, TxRows
  <2>5. TxIsOfItsCall'
    BY <1>0, <2>1, <2>4, WitnessTx
  <2> QED
    BY <1>1, <2>2, <2>3, <2>5
<1>16. ASSUME NEW c \in Calls, Provision(c) PROVE Answers'
  <2> DEFINE i == call[c].intent
  <2>11. PICK new : new = Receipt(c, "active")
    OBVIOUS
  <2>1. /\ call[c].pc = "resolved" /\ i.op = "provision" /\ members' = members \cup {i.user}
        /\ call' = Answer(Witness(members'), c, "active") /\ receipts' = receipts \cup {new}
        /\ UNCHANGED <<off, tx>>
    BY <1>16, <2>11 DEF Provision, Holds, history
  <2>2. InFlight(c) /\ call[c] \in CallRows /\ (tx # None => tx.call # c)
    BY <1>8, <2>1
  <2>3. i \in Intents /\ i.user \in Users /\ i.generation \in Nat /\ off[i.user] \in Nat
    BY <2>2 DEF CallRows, Intents, TypeOK
  <2>4. /\ \A d \in Calls \ {c} : call'[d] = Witness(members')[d]
        /\ call'[c].pc = "idle" /\ call'[c].answer = "active"
        /\ call'[c].seen = call[c].seen \cup {Standing(i.user, members')}
    BY <2>1, <2>2, CommittedCalls
  <2>5. /\ Standing(i.user, members') = "active" /\ Promised(i.op) = "active"
        /\ new.intent = i /\ new.answer = "active"
    BY <2>1, <2>11 DEF Standing, Promised, Receipt
  <2> HIDE DEF i
  <2>6. CallIsSound(c)'
    BY <2>4, <2>5 DEF CallIsSound, InFlight
  <2>7. ASSUME NEW d \in Calls, d # c PROVE CallIsSound(d)'
    <3>1. InFlight(d) => off[call[d].intent.user] \in Nat
      BY DEF TypeOK, CallRows, Intents
    <3>2. \A r \in receipts' : (r \notin receipts /\ r.intent = call[d].intent)
             => r.answer = Standing(call[d].intent.user, members')
      BY <2>1, <2>5
    <3>3. call'[d] = Witness(members')[d] /\ CallIsSound(d) /\ off' = off
      BY <1>0, <2>1, <2>4, <2>7
    <3> QED
      BY <3>1, <3>2, <3>3, WitnessSound
  <2>8. ReceiptsPassed'
    <3>1. i.key = None => i.generation <= off[i.user]
      BY <1>0, <2>2 DEF CallIsSound, i
    <3>2. ReceiptIsSound(new)'
      BY <2>1, <2>5, <3>1 DEF ReceiptIsSound
    <3>3. ASSUME NEW r \in receipts PROVE ReceiptIsSound(r)'
      BY <1>0, <2>1 DEF ReceiptsPassed, ReceiptIsSound
    <3> QED
      BY <2>1, <3>2, <3>3 DEF ReceiptsPassed, ReceiptIsSound
  <2>9. TxIsOfItsCall'
    BY <1>0, <1>9, <2>1, <2>2, <2>4, WitnessTx
  <2> QED
    BY <1>1, <2>6, <2>7, <2>8, <2>9
<1>17. ASSUME CommitDeactivate PROVE Answers'
  <2>0. PICK c \in Calls : c = tx.call /\ tx # None
    BY <1>9, <1>17 DEF CommitDeactivate
  <2> DEFINE i == call[c].intent
  <2>11. PICK new : new = Receipt(c, "inactive")
    OBVIOUS
  <2>1. /\ InFlight(c) /\ tx.user \in members /\ tx.user \in Users
        /\ i.op = "deactivate" /\ i.user = tx.user /\ call[c] \in CallRows
    BY <1>9, <2>0 DEF TypeOK
  <2>2. /\ members' = members \ {tx.user} /\ off' = [off EXCEPT ![tx.user] = @ + 1]
        /\ receipts' = receipts \cup {new} /\ tx' = None
        /\ call' = Answer(Witness(members'), c, "inactive")
    BY <1>17, <2>0, <2>11 DEF CommitDeactivate
  <2>3. i \in Intents /\ i.generation \in Nat /\ off[tx.user] \in Nat
    BY <2>1 DEF CallRows, Intents, TypeOK
  <2>4. /\ off' \in [Users -> Nat] /\ off'[tx.user] = off[tx.user] + 1
        /\ \A u \in Users : off[u] <= off'[u]
        /\ \A u \in Users \ {tx.user} : off'[u] = off[u]
    BY <2>1, <2>2 DEF TypeOK
  <2>5. /\ \A d \in Calls \ {c} : call'[d] = Witness(members')[d]
        /\ call'[c].pc = "idle" /\ call'[c].answer = "inactive"
        /\ call'[c].seen = call[c].seen \cup {Standing(i.user, members')}
    BY <2>1, <2>2, CommittedCalls
  <2>6. /\ Standing(i.user, members') = "inactive" /\ Promised(i.op) = "inactive"
        /\ new.intent = i /\ new.answer = "inactive"
    BY <2>1, <2>2, <2>11 DEF Standing, Promised, Receipt
  <2> HIDE DEF i
  <2>7. CallIsSound(c)'
    BY <2>5, <2>6 DEF CallIsSound, InFlight
  <2>8. ASSUME NEW d \in Calls, d # c PROVE CallIsSound(d)'
    <3>1. InFlight(d) => call[d].intent.user \in Users
      BY DEF TypeOK, CallRows, Intents
    <3>2. InFlight(d) => /\ off[call[d].intent.user] <= off'[call[d].intent.user]
                         /\ off'[call[d].intent.user] \in Nat
      BY <2>4, <3>1
    <3>3. \A r \in receipts' : (r \notin receipts /\ r.intent = call[d].intent)
             => r.answer = Standing(call[d].intent.user, members')
      BY <2>2, <2>6
    <3>4. call'[d] = Witness(members')[d] /\ CallIsSound(d)
      BY <1>0, <2>5, <2>8
    <3> QED
      BY <3>2, <3>3, <3>4, WitnessSound
  <2>9. ReceiptsPassed'
    <3>1. i.key = None => i.generation <= off[tx.user]
      BY <1>0, <2>1 DEF CallIsSound, i
    <3>2. ReceiptIsSound(new)'
      BY <2>1, <2>3, <2>4, <2>6, <3>1 DEF ReceiptIsSound
    <3>3. ASSUME NEW r \in receipts PROVE ReceiptIsSound(r)'
      <4>1. /\ r.intent.user \in Users /\ r.intent.generation \in Nat /\ off[r.intent.user] \in Nat
            /\ ReceiptIsSound(r)
        BY <1>0 DEF TypeOK, Intents, ReceiptsPassed
      <4>2. CASE r.intent.user = tx.user
        BY <2>4, <4>1, <4>2 DEF ReceiptIsSound
      <4>3. CASE r.intent.user # tx.user
        BY <2>2, <2>4, <4>1, <4>3 DEF ReceiptIsSound
      <4> QED
        BY <4>2, <4>3
    <3> QED
      BY <2>2, <3>2, <3>3 DEF ReceiptsPassed, ReceiptIsSound
  <2>10. TxIsOfItsCall'
    BY <2>2 DEF TxIsOfItsCall
  <2> QED
    BY <1>1, <2>7, <2>8, <2>9, <2>10
<1> QED
  BY <1>2, <1>3, <1>4, <1>6, <1>10, <1>11, <1>12, <1>13, <1>14, <1>15, <1>16, <1>17
     DEF Next, ScimNext, ChangeNext

-----------------------------------------------------------------------------
(* Together.                                                               *)

Parts == TypeOK /\ Ownership /\ Answers

\* A new organization: its founders own it and nobody has called.
LEMMA PartsInit ==
  ASSUME FoundersAssumption
  PROVE  Init => Parts
<1> SUFFICES ASSUME Init PROVE Parts
  OBVIOUS
<1> USE DEF Init
<1>1. TypeOK
  <2>1. role \in [Users -> SUBSET RoleNames] /\ members \subseteq Users
    BY DEF FoundersAssumption, RoleNames
  <2>2. invites \in Seq(InviteRows) /\ DOMAIN change = Changers /\ \A x \in Changers : change[x] = None
    OBVIOUS
  <2>3. DOMAIN call = Calls /\ \A c \in Calls : ~InFlight(c)
    BY DEF InFlight
  <2>4. receipts = {} /\ off \in [Users -> Nat] /\ tx = None /\ raced \in BOOLEAN /\ unseen \in BOOLEAN
    OBVIOUS
  <2> QED
    BY <2>1, <2>2, <2>3, <2>4 DEF TypeOK
<1>2. Ownership
  <2>1. PICK u \in Owners : u \in Users
    BY DEF FoundersAssumption
  <2>2. Owner \in role[u]
    BY <2>1
  <2>3. ~Losing(u)
    BY DEF Losing, Replacing, Deactivating
  <2>4. AssigneesStay /\ RemovalIsWhole /\ RolesAreMembers
    BY DEF AssigneesStay, Assigning, RemovalIsWhole, RolesAreMembers
  <2> QED
    BY <2>1, <2>2, <2>3, <2>4 DEF Ownership, AnOwnerIsSafe
<1>3. Answers
  BY DEF Answers, TxIsOfItsCall, GenerationsPassed, CallsHaveSeen, AnswersWereTrue, InFlight
<1> QED
  BY <1>1, <1>2, <1>3 DEF Parts

\* The two halves, each with its types, hold of every reachable state.
LEMMA PartsAlways ==
  ASSUME FoundersAssumption
  PROVE  Spec => []Parts
<1>1. Init => Parts
  BY PartsInit
<1>2. Parts /\ [Next]_vars => Parts'
  <2>1. Parts => TxIsOfItsCall
    BY DEF Parts, Answers
  <2>2. Parts /\ [Next]_vars => TypeOK'
    BY <2>1, TypeStep DEF Parts
  <2>3. Parts /\ [Next]_vars => Ownership'
    BY <2>1, OwnershipStep DEF Parts
  <2>4. Parts /\ [Next]_vars => Answers'
    BY AnswersStep DEF Parts
  <2> QED
    BY <2>2, <2>3, <2>4 DEF Parts
<1> QED
  BY <1>1, <1>2, PTL DEF Spec

\* iamAssignRole, an accepted invitation and SCIM's deactivation each read
\* whether their user is an owner, count the others under locks if so, and
\* delete later.  Whatever the number of them in flight and their order of
\* commit, a member owns the organization as long as no delete met an owner
\* row its transaction had not seen and no role was given to a member being
\* deactivated; and while the latter does not happen only members have roles.
THEOREM AccessKeepsOwner ==
  ASSUME FoundersAssumption
  PROVE  Spec => []AnOwnerRemains
<1>1. Parts => AnOwnerRemains
  BY DEF Parts, Ownership, AnOwnerIsSafe, RolesAreMembers, AnOwnerRemains
<1>2. Spec => []Parts
  BY PartsAlways
<1> QED
  BY <1>1, <1>2, PTL

\* The identity provider's retries are answered from receipts: a repeated key
\* gets the first answer, and with the generation in the automatic intent no
\* other answer is that of an earlier life of the membership.
THEOREM AccessAnswersTrue ==
  ASSUME FoundersAssumption
  PROVE  Spec => []AnswersWereTrue
<1>1. Parts => AnswersWereTrue
  BY DEF Parts, Answers
<1>2. Spec => []Parts
  BY PartsAlways
<1> QED
  BY <1>1, <1>2, PTL

\* Both: the membership is sound.
THEOREM AccessMembershipIsSound ==
  ASSUME FoundersAssumption
  PROVE  Spec => []MembershipIsSound
<1>1. Spec => []AnOwnerRemains
  BY AccessKeepsOwner
<1>2. Spec => []AnswersWereTrue
  BY AccessAnswersTrue
<1> QED
  BY <1>1, <1>2, PTL DEF MembershipIsSound
=============================================================================
