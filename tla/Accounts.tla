------------------------------ MODULE Accounts ------------------------------
(***************************************************************************)
(* Accounts of the sign-in service: sign-up, sign-in, sessions and their   *)
(* refresh, password recovery, the throttle of the public endpoints and    *)
(* the outbox that mails the links.  A request that looks before it writes *)
(* does so in two steps; a transaction that locks what it looks at is one. *)
(* A password is its version; tokens and sessions are numbered.            *)
(***************************************************************************)
EXTENDS Integers, FiniteSets, FiniteSetsExt

CONSTANTS Users, Workers, Mailers,
          Uses,           \* the operations a scene exercises
          Horizon,        \* the last tick
          LongLife, ShortLife, RefreshAge,  \* of a session
          LinkLife,       \* of a mailed link and of a recovery token
          Window, MaxAttempts,  \* the throttle, per endpoint
          MaxPending,     \* mails waiting to be sent
          Lease, Backoff, \* of a claimed mail, and after a failure
          MaxSessions, MaxTokens, MaxMails,
          None

VARIABLES clock, users, sessions, opened, tokens, issued, consumed, mails, queued,
          sent, tries, admitted, job, mailer, refusals

vars == <<clock, users, sessions, opened, tokens, issued, consumed, mails, queued,
          sent, tries, admitted, job, mailer, refusals>>
mailVars == <<mails, queued, sent, mailer>>
tokenVars == <<tokens, issued, consumed>>
sessionVars == <<sessions, opened, refusals>>
tryVars == <<tries, admitted>>

Idle == [op |-> "idle"]

Init == /\ clock = 0 /\ sessions = {} /\ opened = 0 /\ tokens = {} /\ issued = {} /\ consumed = {}
        /\ users = [u \in Users |-> IF "signup" \in Uses THEN None ELSE [pw |-> 0, verified |-> TRUE]]
        /\ mails = {} /\ queued = 0 /\ sent = {} /\ tries = {} /\ admitted = {} /\ refusals = {}
        /\ job = [w \in Workers |-> Idle] /\ mailer = [m \in Mailers |-> None]

(* A delivery is cut off long before its lease ends.                       *)
Tick == /\ clock < Horizon /\ clock' = clock + 1
        /\ \A m \in Mailers : mailer[m] # None => clock + 1 < mailer[m].since + Lease
        /\ UNCHANGED <<users, sessionVars, tokenVars, mailVars, tryVars, job>>

-----------------------------------------------------------------------------
(* The throttle: one row per admitted attempt, which lives one window.     *)

Live(rows) == {r \in rows : r.until > clock}
Counted(endpoint) == {r \in Live(tries) : r.endpoint = endpoint}
\* An attempt past the limit is refused and leaves no row.
Admit(endpoint) ==
  /\ Cardinality(Counted(endpoint)) < MaxAttempts
  /\ LET row == [endpoint |-> endpoint, until |-> clock + Window,
                 n |-> Cardinality(Counted(endpoint))]
     IN tries' = Live(tries) \cup {row}
  /\ admitted' = {a \in admitted : a.at > clock - Window} \cup
       {[endpoint |-> endpoint, at |-> clock,
         n |-> Cardinality({a \in admitted : a.endpoint = endpoint /\ a.at = clock})]}

-----------------------------------------------------------------------------
(* The outbox of links.                                                    *)

Pending == Live(mails)
CanEnqueue == Cardinality(Pending) < MaxPending /\ queued < MaxMails
Mail(kind, u, token) == [id |-> queued, kind |-> kind, user |-> u, token |-> token,
                         until |-> clock + LinkLife, from |-> clock, owner |-> None, lease |-> 0]
Link(x) == [id |-> x.id, kind |-> x.kind, user |-> x.user, until |-> x.until]
EnqueueLink(kind, u, token) == /\ CanEnqueue /\ queued' = queued + 1
                               /\ mails' = mails \cup {Mail(kind, u, token)}
                               /\ UNCHANGED <<sent, mailer>>

Claimable == {x \in Pending : x.from <= clock /\ (x.owner = None \/ x.lease <= clock)}
Oldest(rows) == CHOOSE x \in rows : \A y \in rows : x.from < y.from \/ (x.from = y.from /\ x.id <= y.id)
(* Expired mails go, with the recovery tokens they carried; so do expired  *)
(* tokens.                                                                 *)
PruneEmailOutbox == LET gone == mails \ Pending
                    IN tokens' = {t \in Live(tokens) : \A x \in gone : x.token # t.id}
ClaimEmail(m) ==
  /\ mailer[m] = None /\ PruneEmailOutbox
  /\ \/ /\ Claimable # {}
        /\ LET x == Oldest(Claimable)
           IN /\ mails' = (Pending \ {x}) \cup {[x EXCEPT !.owner = m, !.lease = clock + Lease]}
              /\ mailer' = [mailer EXCEPT ![m] = [id |-> x.id, link |-> Link(x), since |-> clock, done |-> FALSE]]
     \/ /\ Claimable = {} /\ Pending # mails /\ mails' = Pending /\ UNCHANGED mailer
  /\ UNCHANGED <<clock, users, sessionVars, issued, consumed, queued, sent, tryVars, job>>
Held(m) == {x \in mails : x.id = mailer[m].id /\ x.owner = m}
(* The provider takes the mail or refuses it; then the row is removed, or  *)
(* put back for later; or the process stops and the lease runs out.        *)
Deliver(m) == /\ mailer[m] # None /\ ~mailer[m].done
              /\ \/ /\ sent' = sent \cup {mailer[m].link}
                    /\ mailer' = [mailer EXCEPT ![m].done = TRUE] /\ UNCHANGED mails
                 \/ /\ mails' = (mails \ Held(m)) \cup
                         {[x EXCEPT !.owner = None, !.from = clock + Backoff] : x \in Held(m)}
                    /\ mailer' = [mailer EXCEPT ![m] = None] /\ UNCHANGED sent
              /\ UNCHANGED <<clock, users, sessionVars, tokenVars, queued, tryVars, job>>
Acknowledge(m) == /\ mailer[m] # None /\ mailer[m].done
                  /\ mails' = mails \ Held(m)
                  /\ mailer' = [mailer EXCEPT ![m] = None]
                  /\ UNCHANGED <<clock, users, sessionVars, tokenVars, queued, sent, tryVars, job>>
Crash(m) == /\ mailer[m] # None /\ mailer' = [mailer EXCEPT ![m] = None]
            /\ UNCHANGED <<clock, users, sessionVars, tokenVars, mails, queued, sent, tryVars, job>>

-----------------------------------------------------------------------------
(* Sign-up, verification and sign-in.                                      *)

\* An address that has an account is answered alike, and nothing is written.
SignUpWithCallback(u) == /\ users[u] = None /\ EnqueueLink("verify", u, None)
                         /\ users' = [users EXCEPT ![u] = [pw |-> 0, verified |-> FALSE]]
SignUp(u) == /\ "signup" \in Uses /\ Admit("signup") /\ SignUpWithCallback(u)
             /\ UNCHANGED <<clock, sessionVars, tokenVars, job>>

SendVerification(u) == users[u] # None /\ ~users[u].verified /\ EnqueueLink("verify", u, None)
SendVerificationEmail(u) == /\ "signup" \in Uses /\ Admit("verify") /\ SendVerification(u)
                            /\ UNCHANGED <<clock, users, sessionVars, tokenVars, job>>

\* The link proves its own age: it holds an hour from its signature.
VerifyJwt(x) == x.until > clock
VerifyEmail(u) == /\ \E x \in sent : x.kind = "verify" /\ x.user = u /\ VerifyJwt(x)
                  /\ users[u].verified = FALSE
                  /\ users' = [users EXCEPT ![u].verified = TRUE]
FollowVerification(u) == /\ VerifyEmail(u)
                         /\ UNCHANGED <<clock, sessionVars, tokenVars, mailVars, tryVars, job>>

\* The hash is read and compared before the session is written.
CheckPassword(w, u, remember) ==
  /\ "signin" \in Uses /\ job[w] = Idle /\ users[u] # None /\ Admit("signin")
  /\ \/ /\ users[u].verified
        /\ job' = [job EXCEPT ![w] = [op |-> "signin", user |-> u, pw |-> users[u].pw,
                                      remember |-> remember, overtaken |-> FALSE]]
        /\ UNCHANGED mailVars
     \/ /\ ~users[u].verified /\ EnqueueLink("verify", u, None) /\ UNCHANGED job
  /\ UNCHANGED <<clock, users, sessionVars, tokenVars>>
Lifetime(remember) == IF remember THEN LongLife ELSE ShortLife
CreateSession(u, pw, remember, overtaken) ==
  [id |-> opened, user |-> u, pw |-> pw, created |-> clock,
   until |-> clock + Lifetime(remember), overtaken |-> overtaken]
SignIn(w) == /\ job[w].op = "signin" /\ opened < MaxSessions
             /\ sessions' = sessions \cup
                  {CreateSession(job[w].user, job[w].pw, job[w].remember, job[w].overtaken)}
             /\ opened' = opened + 1 /\ job' = [job EXCEPT ![w] = Idle]
             /\ UNCHANGED <<clock, users, refusals, tokenVars, mailVars, tryVars>>

-----------------------------------------------------------------------------
(* Sessions.                                                               *)

Remembered(s) == s.until - s.created > ShortLife
DueForRefresh(s) == Remembered(s) /\ clock >= s.until - LongLife + RefreshAge
\* A session that needs no refresh is answered at once.
ReadSession(w, s) == /\ "session" \in Uses /\ job[w] = Idle /\ s \in Live(sessions) /\ DueForRefresh(s)
                     /\ job' = [job EXCEPT ![w] = [op |-> "session", id |-> s.id, seen |-> s.until,
                                                   now |-> clock, raced |-> FALSE]]
                     /\ UNCHANGED <<clock, users, sessionVars, tokenVars, mailVars, tryVars>>
Unmoved(w) == {s \in sessions : s.id = job[w].id /\ s.until = job[w].seen /\ s.until > job[w].now}
Refreshed(s, w) == [s EXCEPT !.until = job[w].now + LongLife]
RefreshSession(w) ==
  /\ job[w].op = "session"
  /\ LET mine == Unmoved(w)
     IN /\ sessions' = (sessions \ mine) \cup {Refreshed(s, w) : s \in mine}
        /\ refusals' = IF mine # {} THEN refusals
                       ELSE refusals \cup {[raced |-> job[w].raced,
                              live |-> \E s \in Live(sessions) : s.id = job[w].id]}
        /\ job' = [v \in Workers |->
             IF v = w THEN Idle
             ELSE IF mine # {} /\ job[v].op = "session" /\ job[v].id = job[w].id
                  THEN [job[v] EXCEPT !.raced = TRUE] ELSE job[v]]
  /\ UNCHANGED <<clock, users, opened, tokenVars, mailVars, tryVars>>

Revoke(gone) == /\ sessions' = sessions \ gone
                /\ UNCHANGED <<clock, users, opened, refusals, tokenVars, mailVars, tryVars, job>>
RevokeSession(s) == /\ "revoke" \in Uses /\ s \in sessions /\ Revoke({s})
Current(s) == s \in Live(sessions)
RevokeSessionForUser(s, t) == /\ "revoke" \in Uses /\ Current(s) /\ t \in sessions
                              /\ t.user = s.user /\ Revoke({t})
RevokeAllSessions(s) == /\ "revoke" \in Uses /\ Current(s)
                        /\ Revoke({t \in sessions : t.user = s.user})

-----------------------------------------------------------------------------
(* Recovery.                                                               *)

PruneExpiredRecoveryTokens == Live(tokens)
RequestPasswordReset(u) ==
  /\ users[u] # None
  /\ Cardinality(issued) < MaxTokens
  /\ LET t == [id |-> Cardinality(issued), user |-> u, until |-> clock + LinkLife]
     IN /\ tokens' = PruneExpiredRecoveryTokens \cup {t}
        /\ issued' = issued \cup {[token |-> t.id, mail |-> queued, until |-> t.until]}
        /\ EnqueueLink("recovery", u, t.id)
AskForReset(u) == /\ "recover" \in Uses /\ Admit("recover") /\ RequestPasswordReset(u)
                  /\ UNCHANGED <<clock, users, sessionVars, consumed, job>>

\* A link can be followed once it was mailed.
RecoveryTokenValid(id) == /\ \E t \in Live(tokens) : t.id = id
                          /\ \E i \in issued, x \in sent : i.token = id /\ x.id = i.mail
BeginReset(w, id) == /\ "recover" \in Uses /\ job[w] = Idle /\ Admit("reset") /\ RecoveryTokenValid(id)
                     /\ job' = [job EXCEPT ![w] = [op |-> "reset", token |-> id,
                          user |-> (CHOOSE t \in tokens : t.id = id).user]]
                     /\ UNCHANGED <<clock, users, sessionVars, tokenVars, mailVars>>
Drop(w) == /\ job' = [job EXCEPT ![w] = Idle]
           /\ UNCHANGED <<users, sessions, tokens, consumed, mails>>
Consume(w) ==
  LET u == job[w].user
      id == job[w].token
  IN /\ users' = [users EXCEPT ![u].pw = @ + 1]
     /\ tokens' = {t \in tokens : t.id # id} /\ mails' = {x \in mails : x.token # id}
     /\ sessions' = {s \in sessions : s.user # u}
     /\ consumed' = consumed \cup {[token |-> id, pw |-> users[u].pw + 1, at |-> clock]}
     /\ job' = [v \in Workers |->
          IF v = w THEN Idle
          ELSE IF job[v].op = "signin" /\ job[v].user = u
               THEN [job[v] EXCEPT !.overtaken = TRUE] ELSE job[v]]
\* Mutant: the look before the hash was computed is trusted.
TrustTheLook(w) == Consume(w)
\* The row is locked and looked at again: it may be gone or too old by now.
ConsumeOnce(w) == IF \E t \in Live(tokens) : t.id = job[w].token THEN Consume(w) ELSE Drop(w)
ResetPassword(w) == /\ job[w].op = "reset" /\ ConsumeOnce(w)
                    /\ UNCHANGED <<clock, opened, refusals, issued, queued, sent, mailer, tryVars>>

-----------------------------------------------------------------------------
AccountNext == \E u \in Users : \/ SignUp(u) \/ SendVerificationEmail(u) \/ FollowVerification(u)
                                \/ AskForReset(u)
                                \/ \E w \in Workers, r \in BOOLEAN : CheckPassword(w, u, r)
SessionNext == \/ \E w \in Workers : SignIn(w) \/ RefreshSession(w) \/ \E s \in sessions : ReadSession(w, s)
               \/ \E s \in sessions : RevokeSession(s) \/ RevokeAllSessions(s)
               \/ \E s, t \in sessions : RevokeSessionForUser(s, t)
ResetNext == \E w \in Workers : ResetPassword(w) \/ \E t \in tokens : BeginReset(w, t.id)
MailNext == \E m \in Mailers : ClaimEmail(m) \/ Deliver(m) \/ Acknowledge(m) \/ Crash(m)
Next == Tick \/ AccountNext \/ SessionNext \/ ResetNext \/ MailNext
Spec == Init /\ [][Next]_vars

-----------------------------------------------------------------------------
\* A session of an old password was being opened when the password changed.
ResetEndsSessions == \A s \in sessions : s.pw # users[s.user].pw => s.overtaken
\* Who has a session proved the address.
SessionsAreVerified == \A s \in sessions : users[s.user].verified
\* A live session is refused only when two requests refreshed it at once.
LiveIsServed == \A r \in refusals : r.live => r.raced
\* A recovery link works once, and only while it is young.
LinksWorkOnce == /\ \A c, d \in consumed : c.token = d.token => c = d
                 /\ \A c \in consumed, i \in issued : c.token = i.token => c.at < i.until
\* A requested link was mailed, waits to be, expired or was used.
LinksAreMailed == \A i \in issued : \/ i.until <= clock
                                    \/ \E x \in {y.id : y \in sent \cup mails} : x = i.mail
                                    \/ \E c \in consumed : c.token = i.token
\* No window admits more attempts at an endpoint than the limit.
AttemptsAreLimited ==
  \A e \in {a.endpoint : a \in admitted} :
    Cardinality({a \in admitted : a.endpoint = e /\ a.at > clock - Window}) <= MaxAttempts
(* Accounts: a reset ends every session but one that was being opened, no  *)
(* link is lost, used twice or used late, a live session is refused only   *)
(* when two requests refresh it at once, and no window admits more         *)
(* attempts than the limit.                                                *)
AccountsAreKept == /\ ResetEndsSessions /\ SessionsAreVerified /\ LiveIsServed
                   /\ LinksWorkOnce /\ LinksAreMailed /\ AttemptsAreLimited
=============================================================================
