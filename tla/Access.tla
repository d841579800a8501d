------------------------------- MODULE Access --------------------------------
(***************************************************************************)
(* Who belongs to one organization, and as what: roles and their           *)
(* permissions, invitations and their acceptance, and an identity          *)
(* provider that provisions and deactivates members through SCIM, with     *)
(* retries.  Three transactions may take the owner role from somebody: an  *)
(* assignment, an acceptance and a deactivation.  Each reads whether its   *)
(* user is an owner, counts the other owners under locks on their          *)
(* user_roles rows if so, and deletes the user's rows in a later           *)
(* statement; an acceptance does not take the lock iam.owner-grants.       *)
(***************************************************************************)
EXTENDS Naturals, Sequences, FiniteSets

CONSTANTS Users, Owners, Roles, Permissions, Tokens, Keys, Calls, Changers, MaxInvites, MaxOff, None

VARIABLES members, role, grants, invites, change, token, receipts, off, call, tx, raced, unseen

vars == <<members, role, grants, invites, change, token, receipts, off, call, tx, raced, unseen>>
scimVars == <<token, receipts, off, call, tx>>
history == <<raced, unseen>>

Owner == "owner"

\* What the answer to a SCIM call says of its user: active or not.
Standings == {"active", "inactive"}
Standing(u, ms) == IF u \in ms THEN "active" ELSE "inactive"

(* role[u] is the set of u's user_roles rows, grants[r] is None for a role *)
(* that does not exist, off[u] counts the receipts of u's deactivations.   *)
Init == /\ members = Owners /\ role = [u \in Users |-> IF u \in Owners THEN {Owner} ELSE {}]
        /\ grants = [r \in Roles \cup {Owner} |-> IF r = Owner THEN Permissions ELSE None]
        /\ invites = <<>> /\ change = [x \in Changers |-> None]
        /\ token = [t \in Tokens |-> "none"] /\ receipts = {} /\ off = [u \in Users |-> 0]
        /\ call = [c \in Calls |-> [pc |-> "idle", seen |-> Standings, answer |-> None]]
        /\ tx = None /\ raced = FALSE /\ unseen = FALSE

-----------------------------------------------------------------------------
(* Locks.  An assignment or acceptance in flight is a row of change, the   *)
(* deactivation in flight is tx; held is what it read of its user, deleted *)
(* the role rows it has deleted.                                           *)

Assigning(x) == change[x] # None /\ change[x].invite = 0
Accepting(x) == change[x] # None /\ change[x].invite # 0
Replacing(u) == {x \in Changers : change[x] # None /\ change[x].user = u /\ change[x].pc = "replaced"}
Deactivating(u) == tx # None /\ tx.user = u /\ tx.pc = "removing"

GrantsLocked == (tx # None /\ tx.pc # "locked") \/ \E x \in Changers : Assigning(x)

\* Who counts the owners locks all their rows; who deletes an owner row locks it.
LocksOwners(t) == t.pc \in {"replaced", "removing"} /\ (t.held \/ Owner \in t.deleted)
OwnerRowsFree == /\ tx # None => ~LocksOwners(tx)
                 /\ \A x \in Changers : change[x] # None => ~LocksOwners(change[x])
RowsFree(u) == \A x \in Replacing(u) : change[x].deleted = {}

\* Mutant of OthersOwn: the count includes the user.
AnybodyOwns(u) == \E v \in Users : Owner \in role[v]
OthersOwn(u) == \E v \in Users \ {u} : Owner \in role[v]

\* iamAssertNotLastOwner: the count locks the owner rows.
NotLastOwner(u, held) == held => OwnerRowsFree /\ OthersOwn(u)

\* The statements up to the delete of the user's rows go through.
MayDelete(u, held) == /\ NotLastOwner(u, held)
                      /\ Owner \in role[u] => OwnerRowsFree
                      /\ RowsFree(u)

-----------------------------------------------------------------------------
(* Roles.                                                                  *)

CreateRole(r) == /\ grants[r] = None /\ grants' = [grants EXCEPT ![r] = {}]
                 /\ UNCHANGED <<members, role, invites, change, scimVars, history>>
UpdateRolePermissions(r, ps) ==
  /\ grants[r] # None /\ r # Owner /\ grants' = [grants EXCEPT ![r] = ps]
  /\ UNCHANGED <<members, role, invites, change, scimVars, history>>

Look(x, u, r, i) ==
  change' = [change EXCEPT ![x] = [user |-> u, role |-> r, invite |-> i, pc |-> "looked",
                                   held |-> r # Owner /\ Owner \in role[u], deleted |-> {}]]

AssignRole(x, u, r) ==
  /\ change[x] = None /\ ~GrantsLocked /\ u \in members /\ grants[r] # None
  /\ Look(x, u, r, 0)
  /\ UNCHANGED <<members, role, grants, invites, scimVars, history>>

(* The rows are deleted and the new one inserted.  An acceptance inserts   *)
(* its membership first, which waits for a deactivation that deleted it.   *)
ReplaceRole(x) ==
  /\ change[x] # None /\ change[x].pc = "looked"
  /\ LET u == change[x].user
     IN /\ MayDelete(u, change[x].held) /\ ~Deactivating(u)
        /\ change' = [change EXCEPT ![x].pc = "replaced", ![x].deleted = role[u]]
  /\ UNCHANGED <<members, role, grants, invites, scimVars, history>>

(* Refused for the last owner, a victim of a deadlock, or cut off.         *)
AbortChange(x) ==
  /\ change[x] # None
  /\ change' = [change EXCEPT ![x] = None]
  /\ UNCHANGED <<members, role, grants, invites, scimVars, history>>

(* History: every SCIM call in flight sees what a commit makes of its      *)
(* user's membership.                                                      *)
Witness(ms) == [c \in Calls |-> IF call[c].pc = "idle" THEN call[c]
                                ELSE [call[c] EXCEPT !.seen = @ \cup {Standing(call[c].intent.user, ms)}]]

(* Whose delete waits for the rows x deleted sees neither those nor the    *)
(* one x inserted.                                                         *)
Waiting(x) == {y \in Changers \ {x} : /\ change[y] # None /\ change[y].user = change[x].user
                                      /\ change[y].pc = "looked" /\ change[x].deleted # {}
                                      /\ NotLastOwner(change[y].user, change[y].held)}
TxWaits(x) == /\ tx # None /\ tx.user = change[x].user /\ tx.pc = "looked"
              /\ change[x].deleted # {} /\ NotLastOwner(tx.user, tx.held)
Blind(t, pc) == [t EXCEPT !.pc = pc, !.deleted = {}]

CommitChange(x, waiting, blind) ==
  LET t == change[x]
  IN /\ t # None /\ t.pc = "replaced" /\ (blind => TxWaits(x))
     /\ members' = IF t.invite = 0 THEN members ELSE members \cup {t.user}
     /\ role' = [role EXCEPT ![t.user] = (@ \ t.deleted) \cup {t.role}]
     /\ invites' = IF t.invite = 0 THEN invites ELSE [invites EXCEPT ![t.invite].status = "accepted"]
     /\ change' = [y \in Changers |-> IF y = x THEN None
                                      ELSE IF y \in waiting THEN Blind(change[y], "replaced")
                                      ELSE change[y]]
     /\ tx' = IF blind THEN Blind(tx, "removing") ELSE tx
     /\ call' = Witness(members')
     /\ raced' = (raced \/ blind \/ Deactivating(t.user))
     /\ unseen' = (unseen \/ (Owner \in t.deleted /\ ~t.held /\ t.role # Owner))
  /\ UNCHANGED <<grants, token, receipts, off>>

-----------------------------------------------------------------------------
(* Invitations.  An acceptance locks the invitation.                       *)

InviteMember(u, r) ==
  /\ Len(invites) < MaxInvites /\ grants[r] # None
  /\ invites' = Append(invites, [user |-> u, role |-> r, status |-> "pending"])
  /\ UNCHANGED <<members, role, grants, change, scimVars, history>>
Pending(i) == /\ invites[i].status = "pending"
              /\ \A x \in Changers : Accepting(x) => change[x].invite # i
ClaimInvitation(x, i) ==
  /\ change[x] = None /\ Pending(i)
  /\ Look(x, invites[i].user, invites[i].role, i)
  /\ UNCHANGED <<members, role, grants, invites, scimVars, history>>
ExpireInvitation(i) ==
  /\ Pending(i)
  /\ invites' = [invites EXCEPT ![i].status = "expired"]
  /\ UNCHANGED <<members, role, grants, change, scimVars, history>>

-----------------------------------------------------------------------------
(* SCIM.  A request without an idempotency key gets an intent of the state *)
(* it found: the number of deactivations, less one when it asks again for  *)
(* what the last of them did.  The intent is taken before its lock.        *)

CreateToken(t) == /\ token[t] = "none" /\ token' = [token EXCEPT ![t] = "active"]
                  /\ UNCHANGED <<members, role, grants, invites, change, receipts, off, call, tx, history>>
RevokeToken(t) == /\ token[t] = "active" /\ token' = [token EXCEPT ![t] = "revoked"]
                  /\ UNCHANGED <<members, role, grants, invites, change, receipts, off, call, tx, history>>

Generation(op, u) ==
  IF op = "deactivate" /\ u \notin members /\ off[u] > 0 THEN off[u] - 1 ELSE off[u]
IntentOf(t, key, op, u) == [token |-> t, key |-> key, op |-> op, user |-> u,
                            generation |-> IF key = None THEN Generation(op, u) ELSE 0]

\* The key of two requests is one; without a key the whole intent is.
SameIntent(i, j) == IF i.key = None THEN i = j ELSE i.token = j.token /\ i.key = j.key

(* A client that repeats a key asks for the answer it was given first.     *)
Request(c, t, key, op, u) ==
  LET intent == IntentOf(t, key, op, u)
      first == {r \in receipts : key # None /\ r.intent = intent}
  IN /\ call[c].pc = "idle" /\ token[t] = "active"
     /\ call' = [call EXCEPT ![c] = [pc |-> "resolved", intent |-> intent,
                                     seen |-> {Standing(u, members)} \cup {r.answer : r \in first},
                                     answer |-> None]]
     /\ UNCHANGED <<members, role, grants, invites, change, token, receipts, off, tx, history>>

(* The call holds its intent's lock.                                       *)
Holds(c, op) == /\ call[c].pc = "resolved" /\ call[c].intent.op = op
                /\ tx # None => ~SameIntent(call[tx.call].intent, call[c].intent)
Prior(c) == {r \in receipts : SameIntent(r.intent, call[c].intent)}
Answer(calls, c, answer) == [calls EXCEPT ![c].pc = "idle", ![c].answer = answer]
Receipt(c, answer) == [intent |-> call[c].intent, answer |-> answer]

\* Answers that change nothing are stored only for a request with a key.
Stored(c, answer) == IF call[c].intent.key = None THEN receipts ELSE receipts \cup {Receipt(c, answer)}

\* A key that was used for something else is refused.
Replay(c) ==
  /\ \E op \in {"provision", "deactivate"} : Holds(c, op)
  /\ \E r \in Prior(c) :
       call' = Answer(call, c, IF r.intent = call[c].intent THEN r.answer ELSE None)
  /\ UNCHANGED <<members, role, grants, invites, change, token, receipts, off, tx, history>>
(* The helper that resolves the user looks at the token once more.         *)
Provision(c) ==
  /\ Holds(c, "provision") /\ Prior(c) = {}
  /\ token[call[c].intent.token] = "active"
  /\ LET u == call[c].intent.user
     IN /\ ~Deactivating(u)
        /\ members' = members \cup {u}
        /\ call' = Answer(Witness(members'), c, "active")
  /\ receipts' = receipts \cup {Receipt(c, "active")}
  /\ UNCHANGED <<role, grants, invites, change, token, off, tx, history>>
RefuseToken(c) ==
  /\ Holds(c, "provision") /\ Prior(c) = {}
  /\ token[call[c].intent.token] # "active"
  /\ call' = Answer(call, c, None)
  /\ UNCHANGED <<members, role, grants, invites, change, token, receipts, off, tx, history>>

(* A deactivation locks the membership row, takes iam.owner-grants and     *)
(* looks, counts the owners and deletes the rows it sees.                  *)
LockMember(c) ==
  LET u == call[c].intent.user
  IN /\ Holds(c, "deactivate") /\ Prior(c) = {} /\ tx = None /\ off[u] < MaxOff
     /\ IF u \in members
        THEN /\ tx' = [call |-> c, user |-> u, pc |-> "locked", held |-> FALSE, deleted |-> {}]
             /\ call' = [call EXCEPT ![c].pc = "deactivating"] /\ UNCHANGED receipts
        ELSE /\ call' = Answer(call, c, "inactive") /\ receipts' = Stored(c, "inactive")
             /\ UNCHANGED tx
  /\ UNCHANGED <<members, role, grants, invites, change, token, off, history>>
LookMember ==
  /\ tx # None /\ tx.pc = "locked" /\ ~GrantsLocked
  /\ tx' = [tx EXCEPT !.pc = "looked", !.held = Owner \in role[tx.user]]
  /\ UNCHANGED <<members, role, grants, invites, change, token, receipts, off, call, history>>
RemoveMember ==
  /\ tx # None /\ tx.pc = "looked" /\ MayDelete(tx.user, tx.held)
  /\ tx' = [tx EXCEPT !.pc = "removing", !.deleted = role[tx.user]]
  /\ UNCHANGED <<members, role, grants, invites, change, token, receipts, off, call, history>>
RefuseLastOwner ==
  /\ tx # None /\ tx.pc = "looked" /\ tx.held /\ OwnerRowsFree /\ ~OthersOwn(tx.user)
  /\ call' = Answer(call, tx.call, "active") /\ receipts' = Stored(tx.call, "active")
  /\ tx' = None
  /\ UNCHANGED <<members, role, grants, invites, change, token, off, history>>
(* Revoking the invitations waits for one that is being accepted.          *)
CommitDeactivate ==
  /\ tx # None /\ tx.pc = "removing"
  /\ \A x \in Changers : Accepting(x) => change[x].user # tx.user
  /\ members' = members \ {tx.user}
  /\ role' = [role EXCEPT ![tx.user] = @ \ tx.deleted]
  /\ invites' = [i \in DOMAIN invites |->
       IF invites[i].user = tx.user /\ invites[i].status = "pending"
       THEN [invites[i] EXCEPT !.status = "revoked"] ELSE invites[i]]
  /\ off' = [off EXCEPT ![tx.user] = @ + 1]
  /\ receipts' = receipts \cup {Receipt(tx.call, "inactive")}
  /\ call' = Answer(Witness(members'), tx.call, "inactive")
  /\ tx' = None
  /\ unseen' = (unseen \/ (Owner \in tx.deleted /\ ~tx.held))
  /\ UNCHANGED <<grants, change, token, raced>>
(* A victim of a deadlock with an acceptance, or cut off.                  *)
AbortDeactivate ==
  /\ tx # None
  /\ call' = Answer(call, tx.call, None) /\ tx' = None
  /\ UNCHANGED <<members, role, grants, invites, change, token, receipts, off, history>>

ScimNext ==
  \/ \E t \in Tokens : \/ CreateToken(t) \/ RevokeToken(t)
                       \/ \E c \in Calls, key \in Keys \cup {None}, op \in {"provision", "deactivate"},
                             u \in Users : Request(c, t, key, op, u)
  \/ \E c \in Calls : Replay(c) \/ Provision(c) \/ RefuseToken(c) \/ LockMember(c)
  \/ LookMember \/ RemoveMember \/ RefuseLastOwner \/ CommitDeactivate \/ AbortDeactivate
ChangeNext ==
  \E x \in Changers :
    \/ \E u \in Users, r \in Roles \cup {Owner} : AssignRole(x, u, r)
    \/ \E i \in DOMAIN invites : ClaimInvitation(x, i)
    \/ ReplaceRole(x) \/ AbortChange(x)
    \/ /\ change[x] # None
       /\ \E waiting \in SUBSET Waiting(x), blind \in BOOLEAN : CommitChange(x, waiting, blind)
Next ==
  \/ \E r \in Roles : CreateRole(r) \/ \E ps \in SUBSET Permissions : UpdateRolePermissions(r, ps)
  \/ \E u \in Users, r \in Roles \cup {Owner} : InviteMember(u, r)
  \/ \E i \in DOMAIN invites : ExpireInvitation(i)
  \/ ChangeNext \/ ScimNext
Spec == Init /\ [][Next]_vars

-----------------------------------------------------------------------------
(* Properties.                                                             *)

(* Assignments, acceptances and deactivations of several owners at once    *)
(* leave the organization an owner who belongs to it, unless one of two    *)
(* things the locks of iam.go and invitations.go do not prevent happened:  *)
(* a transaction deleted an owner row that was not there when it looked,   *)
(* so that it counted nobody (unseen), or a role was given to a member     *)
(* whose deactivation had already looked at their rows (raced).            *)
AnOwnerRemains ==
  /\ ~unseen => \E u \in Users : Owner \in role[u] /\ (~raced => u \in members)
  /\ ~raced => \A u \in Users : role[u] # {} => u \in members

(* The answer to a SCIM request was true of the membership at some moment  *)
(* between the request and the answer, or is the one first given under its *)
(* idempotency key, however often it was retried, replayed or overtaken:   *)
(* without a key it never replays the receipt of an earlier life.          *)
AnswersWereTrue == \A c \in Calls : call[c].answer # None => call[c].answer \in call[c].seen

(* The organization keeps an owner and the identity provider the truth.    *)
MembershipIsSound == AnOwnerRemains /\ AnswersWereTrue

-----------------------------------------------------------------------------
(* What makes these properties inductive (see AccessProofs).               *)

\* An organization is created by somebody, who owns it.
FoundersAssumption == Owners # {} /\ Owners \subseteq Users

RoleNames == Roles \cup {Owner}
Operations == {"provision", "deactivate"}
Intents == [token : Tokens, key : Keys \cup {None}, op : Operations, user : Users, generation : Nat]
InviteRows == [user : Users, role : RoleNames, status : {"pending", "accepted", "expired", "revoked"}]
ChangeRows == [user : Users, role : RoleNames, invite : Nat, pc : {"looked", "replaced"},
               held : BOOLEAN, deleted : SUBSET RoleNames]
CallRows == [pc : {"resolved", "deactivating"}, intent : Intents, seen : SUBSET Standings,
             answer : {None}]
TxRows == [call : Calls, user : Users, pc : {"locked", "looked", "removing"}, held : BOOLEAN,
           deleted : SUBSET RoleNames]

InFlight(c) == call[c].pc # "idle"
TypeOK ==
  /\ members \subseteq Users /\ role \in [Users -> SUBSET RoleNames]
  /\ raced \in BOOLEAN /\ unseen \in BOOLEAN
  /\ invites \in Seq(InviteRows) /\ DOMAIN change = Changers
  /\ \A x \in Changers : change[x] # None =>
       change[x] \in ChangeRows /\ (Accepting(x) => change[x].invite \in DOMAIN invites)
  /\ receipts \subseteq [intent : Intents, answer : Standings] /\ off \in [Users -> Nat]
  /\ DOMAIN call = Calls /\ \A c \in Calls : InFlight(c) => call[c] \in CallRows
  /\ tx # None => tx \in TxRows

\* Somebody has the owner role and is about to lose it to whoever counted the others.
Losing(u) ==
  \/ \E x \in Replacing(u) : /\ change[x].held /\ Owner \in change[x].deleted
                             /\ change[x].role # Owner
  \/ Deactivating(u) /\ tx.held /\ Owner \in tx.deleted
AnOwnerIsSafe == ~unseen => \E u \in Users : Owner \in role[u] /\ ~Losing(u)

\* An assignment is of a member, and no deactivation that has looked overlaps it.
AssigneesStay == \A x \in Changers : Assigning(x) =>
  change[x].user \in members /\ (tx = None \/ tx.pc = "locked")

\* A deactivation deletes all the roles of its user, unless one came in between.
RemovalIsWhole == (tx # None /\ tx.pc = "removing" /\ ~raced) => role[tx.user] \subseteq tx.deleted
RolesAreMembers == ~raced => \A u \in Users : role[u] # {} => u \in members

\* The deactivation in flight is what its call asked for.
TxIsOfItsCall == tx # None =>
  /\ tx.user \in members /\ call[tx.call].pc = "deactivating"
  /\ call[tx.call].intent.op = "deactivate" /\ call[tx.call].intent.user = tx.user

\* What a receipt without a key says: that the operation was done.
Promised(op) == IF op = "provision" THEN "active" ELSE "inactive"

\* An intent never names a generation ahead of its user, and a receipt without
\* a key speaks of the user's present life only if it still holds.
GenerationsPassed ==
  /\ \A c \in Calls : InFlight(c) /\ call[c].intent.key = None =>
       call[c].intent.generation <= off[call[c].intent.user]
  /\ \A r \in receipts : r.intent.key = None =>
       /\ r.answer = Promised(r.intent.op)
       /\ IF r.intent.op = "deactivate" THEN r.intent.generation < off[r.intent.user]
          ELSE /\ r.intent.generation <= off[r.intent.user]
               /\ r.intent.generation = off[r.intent.user] => r.intent.user \in members

\* A call in flight has seen the present, and what the receipts of its intent say.
CallsHaveSeen == \A c \in Calls : InFlight(c) =>
  /\ Standing(call[c].intent.user, members) \in call[c].seen
  /\ \A r \in receipts : r.intent = call[c].intent => r.answer \in call[c].seen

IInv == /\ TypeOK /\ AnOwnerIsSafe /\ AssigneesStay /\ RemovalIsWhole /\ RolesAreMembers
        /\ TxIsOfItsCall /\ GenerationsPassed /\ CallsHaveSeen /\ AnswersWereTrue
=============================================================================
