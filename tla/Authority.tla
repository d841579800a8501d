------------------------------ MODULE Authority ------------------------------
(***************************************************************************)
(* One request for a capability, sent and retried through one route of the *)
(* HTTP API, while the caller's authority changes: a route resolves the    *)
(* session, walks its guards on that snapshot and calls the executor,      *)
(* which checks identity, module and permission again in its transaction,  *)
(* then waits for the intent's advisory lock and answers from a receipt,   *)
(* from an approval, or by running the capability.  The caller holds no    *)
(* permission but the one the capability asks for.                         *)
(***************************************************************************)
EXTENDS RouteTable, FiniteSets

CONSTANTS Attempts, MaxChanges, None

VARIABLES op, row, world, pc, began, outcome

vars == <<op, row, world, pc, began, outcome>>

Changes == {"revoked", "left", "signedOut", "off", "strict"}

-----------------------------------------------------------------------------
(* The request: a route, an action of it, a credential and a flaw.         *)

Side(r, get) == IF get THEN Routes[r].reads ELSE Routes[r]
(* What the table says of the request, looked up once.                     *)
RowOf(o) == LET cap == Side(o.route, o.get).runs[o.action]
            IN [side |-> Side(o.route, o.get), cap |-> cap,
                permission |-> PermissionOf(cap), risk |-> RiskOf(cap)]
Route == row.side
Cap == row.cap
Flaws(r, get) ==
  {"none", "domain"} \cup ({Side(r, get).gate[i][1] : i \in DOMAIN Side(r, get).gate} \ {"permission", "module"})

Requests(r, get) ==
  {[route |-> r, get |-> get, action |-> a, by |-> "cookie", flaw |-> f, keyed |-> k, large |-> FALSE] :
     a \in DOMAIN Side(r, get).runs, f \in Flaws(r, get), k \in BOOLEAN}
Ops == {o \in UNION {Requests(r, g) : r \in DOMAIN Routes \ {"assertion"}, g \in BOOLEAN} :
          o.flaw = "none" \/ (o.keyed /\ ~o.get)}
       \cup {[o EXCEPT !.by = "bearer"] : o \in {o \in Requests("session", FALSE) : o.flaw \in {"none", "origin"}}}
       \cup {[o EXCEPT !.by = actor, !.large = l] :
               o \in Requests("assertion", FALSE), actor \in {"human", "agent"}, l \in BOOLEAN}

Init == /\ op \in Ops /\ row = RowOf(op) /\ world = {}
        /\ pc = [a \in Attempts |-> "idle"] /\ began = [a \in Attempts |-> {}]
        /\ outcome = [a \in Attempts |-> None]

(* A role loses the permission, the member leaves, the session ends, the   *)
(* module is switched off, every risk comes to require approval.           *)
Change(w) ==
  /\ op.flaw = "none" /\ w \notin world /\ Cardinality(world) < MaxChanges
  /\ world' = world \cup {w} /\ UNCHANGED <<op, row, pc, began, outcome>>

-----------------------------------------------------------------------------
(* The route.  A cookie must come from the same origin; a bearer token and *)
(* a signed assertion need not.                                            *)

SameOrigin == op.by # "cookie" \/ op.flaw # "origin"
AlwaysEnabled == {"settings", "iam", "signals", "routines", "operations"}
ModuleOff(seen) == "off" \in seen /\ Cap[1] \notin AlwaysEnabled
NeedsKey == Route.key = "required" /\ (op.get \/ op.action \notin Route.free)
Asked == IF op.action \in DOMAIN Route.asks THEN Route.asks[op.action] ELSE ""

Fails(guard, seen) ==
  \/ guard = "origin" /\ ~SameOrigin
  \/ guard \in {"selector", "method", "body", "action", "input", "key", "session", "organization", "limit"} /\ op.flaw = guard
  \/ guard = "session" /\ "signedOut" \in seen
  \/ guard = "organization" /\ "left" \in seen
  \/ guard = "permission" /\ ("revoked" \in seen \/ Asked \notin {"", row.permission})
  \/ guard = "module" /\ ModuleOff(seen)
  \/ guard = "key" /\ NeedsKey /\ ~op.keyed

FirstFailure(gate, seen) ==
  LET failing == {i \in DOMAIN gate : Fails(gate[i][1], seen)}
  IN  IF failing = {} THEN None ELSE gate[CHOOSE i \in failing : \A j \in failing : i <= j][2]

Answer(a, status, left) == /\ outcome' = [outcome EXCEPT ![a] = [status |-> status, left |-> left]]
                           /\ pc' = [pc EXCEPT ![a] = "done"]

(* An assertion carries the permissions its caller had when it was signed, *)
(* before any change.                                                      *)
Snapshot == IF op.route = "assertion" THEN {} ELSE world
Resolve(a) ==
  LET refused == FirstFailure(Route.gate, Snapshot) IN
  /\ pc[a] = "idle" /\ began' = [began EXCEPT ![a] = world]
  /\ IF refused # None THEN Answer(a, refused, "nothing")
     ELSE pc' = [pc EXCEPT ![a] = "resolved"] /\ UNCHANGED outcome
  /\ UNCHANGED <<op, row, world>>

-----------------------------------------------------------------------------
(* The executor.  Whoever has lost the session or the membership is        *)
(* answered 401 or 403; the routes differ in which.                        *)

HumanRequired == op.by = "agent" /\ Cap \in HumanOnly
IdentityLost == {"left", "signedOut"} \cap world # {}
ClaimedPermissions == {row.permission}
EffectivePermissions == ClaimedPermissions \ (IF "revoked" \in world THEN {row.permission} ELSE {})

Check(a) ==
  /\ pc[a] = "resolved"
  /\ CASE HumanRequired -> Answer(a, 422, "nothing")
       [] ~HumanRequired /\ IdentityLost -> Answer(a, 401, "nothing")
       [] ~HumanRequired /\ ~IdentityLost /\ ModuleOff(world) -> Answer(a, Route.answers.off, "nothing")
       [] ~HumanRequired /\ ~IdentityLost /\ ~ModuleOff(world) /\ row.permission \notin EffectivePermissions ->
            Answer(a, Route.answers.denied, "nothing")
       [] OTHER -> pc' = [pc EXCEPT ![a] = "checked"] /\ UNCHANGED outcome
  /\ UNCHANGED <<op, row, world, began>>

RiskRank == [read |-> 0, write |-> 1, money |-> 2, identity |-> 3, destructive |-> 4, secret |-> 5]
RequiresApproval ==
  /\ Cap \notin ApprovalExempt
  /\ IF op.by # "agent" THEN "strict" \in world
     ELSE \/ row.risk \in {"identity", "destructive"}
          \/ row.risk = "money" /\ op.large
          \/ row.risk # "money" /\ RiskRank[row.risk] > RiskRank["write"]

(* The intent of an attempt: the caller's key, or one of its own.          *)
Intent(a) == IF op.keyed /\ Route.key # "none" THEN "key" ELSE a
Payload(a) == IF ~op.get /\ op.action \in Route.varies THEN a ELSE "same"
Earlier(a, what) == {b \in Attempts \ {a} : Intent(b) = Intent(a) /\ outcome[b] # None /\ outcome[b].left = what}
Conflicts(a, what) == \E b \in Earlier(a, what) : Payload(b) # Payload(a)
Replays(a) == Earlier(a, "effect") # {}
AnsweredOnce == ~op.get /\ op.action \in Route.once

Commit(a) ==
  /\ pc[a] = "checked"
  /\ IF Replays(a)
       THEN Answer(a, IF Conflicts(a, "effect") THEN 422 ELSE IF AnsweredOnce THEN 409 ELSE 200, "nothing")
     ELSE IF Earlier(a, "approval") # {}
       THEN Answer(a, IF Conflicts(a, "approval") THEN 422 ELSE Route.answers.pending, "nothing")
     ELSE IF RequiresApproval
       THEN IF Cap \in OneTimeOutput THEN Answer(a, 422, "nothing") ELSE Answer(a, Route.answers.pending, "approval")
     ELSE IF op.flaw = "domain" THEN Answer(a, 422, "nothing") ELSE Answer(a, 200, "effect")
  /\ UNCHANGED <<op, row, world, began>>

Next == (\E w \in Changes : Change(w)) \/ \E a \in Attempts : Resolve(a) \/ Check(a) \/ Commit(a)
Spec == Init /\ [][Next]_vars

-----------------------------------------------------------------------------
(* What a caller and an administrator may count on.                        *)

Did(a) == outcome[a] # None /\ outcome[a].left # "nothing"
Refused(a) == outcome[a] # None /\ outcome[a].status >= 400

RevokedIsRefused ==
  \A a \in Attempts :
    outcome[a] # None /\ ({"revoked", "left", "signedOut"} \cap began[a] # {} \/ ModuleOff(began[a])) =>
      Refused(a) /\ ~Did(a)

OneEffectPerKey ==
  \A a, b \in Attempts : Did(a) /\ Did(b) /\ Intent(a) = Intent(b) => a = b

PendingAsError == {"time", "shiftSummary"}
RefusalIsTrue ==
  \A a \in Attempts : Refused(a) /\ Did(a) =>
    outcome[a].left = "approval" /\ (op.get \/ op.route \in PendingAsError \cup {"analytics"})

RetryIsAnswered ==
  \A a, b \in Attempts :
    (a # b /\ Did(a) /\ outcome[b] # None /\ Intent(a) = Intent(b) /\ world = {} /\ ~AnsweredOnce
      /\ (op.get \/ op.action \notin Route.varies)) => ~Refused(b)

NumbersByGet == {<<"documents", "allocateNumber">>}
GetsOnlyRead == op.get /\ (\E a \in Attempts : Did(a)) => row.risk = "read" \/ Cap \in NumbersByGet

HonestIsServed ==
  \A a \in Attempts :
    op.flaw = "none" /\ world = {} /\ op.by # "agent" /\ (op.keyed \/ ~NeedsKey) /\ outcome[a] # None /\ Refused(a) =>
      ~op.get /\ op.action \in Route.varies \cup Route.once

(* Whichever route carries a request: after a permission, a membership, a  *)
(* session or a module is taken away no request that arrives does          *)
(* anything, even one whose assertion was signed before; retries under one *)
(* key do one thing between them and a refused request left nothing behind *)
(* but, on the routes that have no answer for it, an approval request; a   *)
(* retry of what was done is not refused; reading changes nothing but the  *)
(* document counter; and a correct request of a caller who holds the one   *)
(* permission its capability asks for is served, so no route asks for      *)
(* another.                                                                *)
RequestsAreGoverned ==
  /\ RevokedIsRefused /\ OneEffectPerKey /\ RefusalIsTrue
  /\ RetryIsAnswered /\ GetsOnlyRead /\ HonestIsServed

=============================================================================
