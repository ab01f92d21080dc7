------------------------------- MODULE Accounts -------------------------------
(***************************************************************************)
(* Signing in by magic link, sessions, signing out and deleting accounts:  *)
(* the login, verify, logout, account and admin handlers, the LoadUser     *)
(* middleware and the two cleanup jobs, on the users, login_tokens and     *)
(* sessions tables. Each SQL statement is one atomic step (the pool has    *)
(* one connection); ConsumeToken is one transaction.                       *)
(***************************************************************************)
EXTENDS Integers, FiniteSets

CONSTANTS
  People,      \* persons, told apart by their e-mail address
  MaxUsers,    \* bound: rows ever inserted into users
  Tokens,      \* magic-link tokens that may be generated
  Sessions,    \* session tokens that may be generated
  Verifies,    \* /auth/verify requests in progress at the same time
  Requests,    \* signed-in requests in progress at the same time
  TokenTTL,    \* loginTokenTTL, in ticks
  SessionTTL,  \* auth.SessionTTL, in ticks
  MaxTime,     \* bound: the clock stops here
  Offset,      \* Offset[t]: how far the local clock is ahead of t at the instant t
  MaxFaults,   \* bound: failed lookups, aborted requests and crashes
  NoRow, NoPerson, NoToken, NoSession

UserId == 1 .. MaxUsers
Time   == 0 .. MaxTime

\* The instants that can be in a row; the clock reaches the first of them.
Instant == 0 .. MaxTime + TokenTTL + SessionTTL

TokenRow   == [email : People, exp : 0 .. MaxTime + TokenTTL]
SessionRow == [uid : UserId, exp : 0 .. MaxTime + SessionTTL]

\* A verify request; pc names its next statement.
Verify ==
  [pc : {"idle", "consume", "lookup", "create", "session"},
   tok : Tokens \cup {NoToken}, email : People \cup {NoPerson}, uid : 0 .. MaxUsers]

\* What a signed-in request is going to do.
Act == {"logout", "revoke", "revoke_all", "delete"}

\* A signed-in request: sess is its cookie's session, uid the user LoadUser put
\* in its context, target the session it wants to revoke.
Request ==
  [pc : {"idle", "user", "drop"} \cup Act, act : Act \cup {"none"},
   sess : Sessions \cup {NoSession}, target : Sessions \cup {NoSession}, uid : 0 .. MaxUsers]

ASSUME AccountsAssumption ==
  /\ MaxUsers \in Nat /\ MaxTime \in Nat /\ MaxFaults \in Nat
  /\ TokenTTL \in Nat /\ SessionTTL \in Nat /\ Offset \in [Instant -> Int]
  /\ NoRow \notin People \cup TokenRow \cup SessionRow
  /\ NoPerson \notin People /\ NoToken \notin Tokens /\ NoSession \notin Sessions

VARIABLES
  users,     \* table users: id -> the person whose address it holds, or NoRow
  lastId,    \* sqlite_sequence: the largest id ever given to a row
  tokens,    \* table login_tokens
  sessions,  \* table sessions
  now,       \* the clock
  vr,        \* the verify requests
  rq,        \* the signed-in requests
  mail,      \* the links that reached a mailbox
  faults,    \* faults so far
  addressee, \* history: the person a token was generated for
  opened     \* history: the token a session was opened with

db   == <<users, lastId, tokens, sessions>>
hist == <<addressee, opened>>
vars == <<db, now, vr, rq, mail, faults, hist>>

NoVerify  == [pc |-> "idle", tok |-> NoToken, email |-> NoPerson, uid |-> 0]
NoRequest == [pc |-> "idle", act |-> "none", sess |-> NoSession, target |-> NoSession, uid |-> 0]

TypeOK ==
  /\ users \in [UserId -> People \cup {NoRow}]
  /\ lastId \in 0 .. MaxUsers
  /\ tokens \in [Tokens -> TokenRow \cup {NoRow}]
  /\ sessions \in [Sessions -> SessionRow \cup {NoRow}]
  /\ now \in Time
  /\ vr \in [Verifies -> Verify]
  /\ rq \in [Requests -> Request]
  /\ mail \subseteq Tokens
  /\ faults \in 0 .. MaxFaults
  /\ addressee \in [Tokens -> People \cup {NoPerson}]
  /\ opened \in [Sessions -> Tokens \cup {NoToken}]

Init ==
  /\ users = [u \in UserId |-> NoRow] /\ lastId = 0
  /\ tokens = [t \in Tokens |-> NoRow]
  /\ sessions = [s \in Sessions |-> NoRow]
  /\ now = 0
  /\ vr = [v \in Verifies |-> NoVerify]
  /\ rq = [q \in Requests |-> NoRequest]
  /\ mail = {} /\ faults = 0
  /\ addressee = [t \in Tokens |-> NoPerson]
  /\ opened = [s \in Sessions |-> NoToken]

Live(u) == users[u] # NoRow

-------------------------------------------------------------------------------
(***************************************************************************)
(* HandleLogin: anyone may ask for a link; it goes to the address alone.   *)
(***************************************************************************)

\* A mutant: the two lifetimes are added up.
Mutant_CreateToken(t, p) ==
  /\ addressee[t] = NoPerson
  /\ tokens' = [tokens EXCEPT ![t] = [email |-> p, exp |-> now + TokenTTL + SessionTTL]]
  /\ addressee' = [addressee EXCEPT ![t] = p]
  /\ UNCHANGED <<users, lastId, sessions, now, vr, rq, mail, faults, opened>>

\* CreateToken, for an address that passed validation and the rate limiter.
CreateToken(t, p) ==
  /\ addressee[t] = NoPerson
  /\ tokens' = [tokens EXCEPT ![t] = [email |-> p, exp |-> now + TokenTTL]]
  /\ addressee' = [addressee EXCEPT ![t] = p]
  /\ UNCHANGED <<users, lastId, sessions, now, vr, rq, mail, faults, opened>>

\* sender.Send, best effort: it may fail or take long.
SendLink(t) ==
  /\ addressee[t] # NoPerson /\ t \notin mail
  /\ mail' = mail \cup {t}
  /\ UNCHANGED <<db, now, vr, rq, faults, hist>>

-------------------------------------------------------------------------------
(***************************************************************************)
(* HandleVerify. A link can be opened any number of times, also at once.   *)
(***************************************************************************)
OpenLink(v, t) ==
  /\ vr[v].pc = "idle" /\ t \in mail
  /\ vr' = [vr EXCEPT ![v] = [NoVerify EXCEPT !.pc = "consume", !.tok = t]]
  /\ UNCHANGED <<db, now, rq, mail, faults, hist>>

\* A mutant: the row is read but not deleted in the same transaction.
Mutant_ConsumeToken(v) ==
  /\ vr[v].pc = "consume"
  /\ LET row == tokens[vr[v].tok] IN
     /\ vr' = [vr EXCEPT ![v] =
                 IF row = NoRow \/ (row # NoRow /\ row.exp < now) THEN NoVerify
                 ELSE [@ EXCEPT !.pc = "lookup", !.email = row.email]]
  /\ UNCHANGED <<db, now, rq, mail, faults, hist>>

\* The transaction reads and deletes the row; an expired link is deleted too.
ConsumeToken(v) ==
  /\ vr[v].pc = "consume"
  /\ LET row == tokens[vr[v].tok] IN
     /\ tokens' = [tokens EXCEPT ![vr[v].tok] = NoRow]
     /\ vr' = [vr EXCEPT ![v] =
                 IF row = NoRow THEN NoVerify
                 ELSE IF row.exp < now THEN NoVerify
                 ELSE [@ EXCEPT !.pc = "lookup", !.email = row.email]]
  /\ UNCHANGED <<users, lastId, sessions, now, rq, mail, faults, hist>>

FaultLeft == faults < MaxFaults /\ faults' = faults + 1

\* UserByEmail.
FindUser(v) ==
  /\ vr[v].pc = "lookup"
  /\ \/ \E u \in UserId :
          /\ users[u] = vr[v].email
          /\ vr' = [vr EXCEPT ![v].pc = "session", ![v].uid = u]
     \/ /\ \A u \in UserId : users[u] # vr[v].email
        /\ vr' = [vr EXCEPT ![v].pc = "create"]
  /\ UNCHANGED <<db, now, rq, mail, faults, hist>>

\* A lookup that fails for another reason is taken for a missing row too.
FindUserFails(v) ==
  /\ FaultLeft /\ vr[v].pc = "lookup"
  /\ vr' = [vr EXCEPT ![v].pc = "create"]
  /\ UNCHANGED <<db, now, rq, mail, hist>>

\* A mutant: ids without AUTOINCREMENT, so that a deleted row's id comes back.
Mutant_NextId == 1 + Cardinality({u \in UserId : Live(u)})

\* INTEGER PRIMARY KEY AUTOINCREMENT: an id is never given out twice.
NextId == lastId + 1

\* A mutant: a table with no UNIQUE(email).
Mutant_EmailTaken(p) == p \in {}

\* users.email is UNIQUE.
EmailTaken(p) == \E u \in UserId : users[u] = p

\* CreateUser; the request fails with 500 when a row for the address has
\* appeared since the lookup (or was there all along). The link is used up.
CreateUser(v) ==
  /\ vr[v].pc = "create"
  /\ \/ /\ EmailTaken(vr[v].email)
        /\ vr' = [vr EXCEPT ![v] = NoVerify]
        /\ UNCHANGED <<users, lastId>>
     \/ /\ ~EmailTaken(vr[v].email)
        /\ NextId \in UserId /\ ~Live(NextId)
        /\ users' = [users EXCEPT ![NextId] = vr[v].email]
        /\ lastId' = NextId
        /\ vr' = [vr EXCEPT ![v].pc = "session", ![v].uid = NextId]
  /\ UNCHANGED <<tokens, sessions, now, rq, mail, faults, hist>>

\* CreateSession under a fresh random id; the foreign key refuses it when the
\* account was deleted meanwhile.
CreateSession(v) ==
  /\ vr[v].pc = "session"
  /\ \/ /\ Live(vr[v].uid)
        /\ \E s \in Sessions :
             /\ opened[s] = NoToken
             /\ sessions' = [sessions EXCEPT ![s] = [uid |-> vr[v].uid, exp |-> now + SessionTTL]]
             /\ opened' = [opened EXCEPT ![s] = vr[v].tok]
     \/ /\ ~Live(vr[v].uid)
        /\ UNCHANGED <<sessions, opened>>
  /\ vr' = [vr EXCEPT ![v] = NoVerify]
  /\ UNCHANGED <<users, lastId, tokens, now, rq, mail, faults, addressee>>

-------------------------------------------------------------------------------
(***************************************************************************)
(* Signed-in requests: LoadUser, then a handler behind RequireUser and the *)
(* CSRF check, whose token is bound to the session. (HandleLogout is       *)
(* behind neither; without a session it does nothing.)                     *)
(***************************************************************************)

\* A session LoadUser accepts: its row is there and has not expired.
Accepted(s) == sessions[s] # NoRow /\ sessions[s].exp >= now

\* LoadUser's SessionByID, for a request whose cookie holds session s.
LoadSession(q, s, act, target) ==
  /\ rq[q].pc = "idle" /\ Accepted(s)
  /\ rq' = [rq EXCEPT ![q] = [pc |-> "user", act |-> act, sess |-> s,
                              target |-> IF act = "revoke" THEN target ELSE NoSession,
                              uid |-> sessions[s].uid]]
  /\ UNCHANGED <<db, now, vr, mail, faults, hist>>

\* LoadUser's UserByID.
LoadUser(q) ==
  /\ rq[q].pc = "user"
  /\ rq' = [rq EXCEPT ![q] = IF Live(rq[q].uid) THEN [@ EXCEPT !.pc = rq[q].act] ELSE NoRequest]
  /\ UNCHANGED <<db, now, vr, mail, faults, hist>>

End(q) == rq' = [rq EXCEPT ![q] = NoRequest]

Logout(q) ==
  /\ rq[q].pc = "logout"
  /\ sessions' = [sessions EXCEPT ![rq[q].sess] = NoRow]
  /\ End(q)
  /\ UNCHANGED <<users, lastId, tokens, now, vr, mail, faults, hist>>

\* A mutant: the owner of the session to revoke is not checked.
Mutant_CheckRevoke(q) ==
  /\ rq[q].pc = "revoke"
  /\ rq' = [rq EXCEPT ![q] = IF sessions[rq[q].target] = NoRow THEN NoRequest
                              ELSE [@ EXCEPT !.pc = "drop"]]
  /\ UNCHANGED <<db, now, vr, mail, faults, hist>>

\* HandleRevokeSession, in two statements: only the caller's own sessions.
CheckRevoke(q) ==
  /\ rq[q].pc = "revoke"
  /\ LET row == sessions[rq[q].target] IN
       rq' = [rq EXCEPT ![q] = IF row = NoRow THEN NoRequest
                               ELSE IF row.uid # rq[q].uid THEN NoRequest
                               ELSE [@ EXCEPT !.pc = "drop"]]
  /\ UNCHANGED <<db, now, vr, mail, faults, hist>>

DropSession(q) ==
  /\ rq[q].pc = "drop"
  /\ sessions' = [sessions EXCEPT ![rq[q].target] = NoRow]
  /\ End(q)
  /\ UNCHANGED <<users, lastId, tokens, now, vr, mail, faults, hist>>

\* DELETE FROM sessions WHERE user_id = u AND id # except.
WithoutSessionsOf(u, except) ==
  [s \in Sessions |-> IF sessions[s] = NoRow \/ s = except THEN sessions[s]
                      ELSE IF sessions[s].uid = u THEN NoRow ELSE sessions[s]]

\* HandleRevokeAllSessions: "sign out everywhere else".
RevokeAll(q) ==
  /\ rq[q].pc = "revoke_all"
  /\ sessions' = WithoutSessionsOf(rq[q].uid, rq[q].sess)
  /\ End(q)
  /\ UNCHANGED <<users, lastId, tokens, now, vr, mail, faults, hist>>

\* A mutant: without ON DELETE CASCADE the sessions stay.
Mutant_DeleteAccount(q) ==
  /\ rq[q].pc = "delete"
  /\ users' = [users EXCEPT ![rq[q].uid] = NoRow]
  /\ End(q)
  /\ UNCHANGED <<lastId, tokens, sessions, now, vr, mail, faults, hist>>

\* HandleDeleteAccount: the sessions go with the row, by cascade. A second such
\* request finds no row, which is no error.
DeleteAccount(q) ==
  /\ rq[q].pc = "delete"
  /\ users' = [users EXCEPT ![rq[q].uid] = NoRow]
  /\ sessions' = WithoutSessionsOf(rq[q].uid, NoSession)
  /\ End(q)
  /\ UNCHANGED <<lastId, tokens, now, vr, mail, faults, hist>>

\* HandleAdminRevokeSessions, for any id.
AdminRevokeSessions(u) ==
  /\ \E s \in Sessions : sessions[s] # NoRow
  /\ sessions' = WithoutSessionsOf(u, NoSession)
  /\ UNCHANGED <<users, lastId, tokens, now, vr, rq, mail, faults, hist>>

-------------------------------------------------------------------------------
(***************************************************************************)
(* The clock, the cleanup jobs, and faults.                                *)
(***************************************************************************)
Tick ==
  /\ now < MaxTime
  /\ now' = now + 1
  /\ UNCHANGED <<db, vr, rq, mail, faults, hist>>

\* What the driver stores for an instant, a DATETIME column being text: the local
\* date and time, then the zone, which no comparison gets to but in a tie.
Wall(t) == t + Offset[t]

\* DELETE ... WHERE expires_at < now: SQLite compares the texts. (ConsumeToken's
\* caller and LoadUser parse them and compare the instants.)
Swept(row) == Wall(row.exp) < Wall(now)

CleanupTokens ==
  /\ tokens' = [t \in Tokens |-> IF tokens[t] = NoRow THEN NoRow
                                 ELSE IF Swept(tokens[t]) THEN NoRow ELSE tokens[t]]
  /\ UNCHANGED <<users, lastId, sessions, now, vr, rq, mail, faults, hist>>

CleanupSessions ==
  /\ sessions' = [s \in Sessions |-> IF sessions[s] = NoRow THEN NoRow
                                     ELSE IF Swept(sessions[s]) THEN NoRow ELSE sessions[s]]
  /\ UNCHANGED <<users, lastId, tokens, now, vr, rq, mail, faults, hist>>

AbortVerify(v) ==
  /\ FaultLeft /\ vr[v].pc # "idle"
  /\ vr' = [vr EXCEPT ![v] = NoVerify]
  /\ UNCHANGED <<db, now, rq, mail, hist>>

AbortRequest(q) ==
  /\ FaultLeft /\ rq[q].pc # "idle"
  /\ End(q)
  /\ UNCHANGED <<db, now, vr, mail, hist>>

Crash ==
  /\ FaultLeft
  /\ vr' = [v \in Verifies |-> NoVerify]
  /\ rq' = [q \in Requests |-> NoRequest]
  /\ UNCHANGED <<db, now, mail, hist>>

VerifyStep(v) ==
  \/ ConsumeToken(v) \/ FindUser(v) \/ FindUserFails(v) \/ CreateUser(v) \/ CreateSession(v)

RequestStep(q) ==
  LoadUser(q) \/ Logout(q) \/ CheckRevoke(q) \/ DropSession(q) \/ RevokeAll(q) \/ DeleteAccount(q)

Next ==
  \/ \E t \in Tokens, p \in People : CreateToken(t, p)
  \/ \E t \in Tokens : SendLink(t)
  \/ \E v \in Verifies, t \in Tokens : OpenLink(v, t)
  \/ \E v \in Verifies : VerifyStep(v) \/ AbortVerify(v)
  \/ \E q \in Requests, s, target \in Sessions, act \in Act : LoadSession(q, s, act, target)
  \/ \E q \in Requests : RequestStep(q) \/ AbortRequest(q)
  \/ \E u \in UserId : AdminRevokeSessions(u)
  \/ Tick \/ CleanupTokens \/ CleanupSessions \/ Crash

Spec == Init /\ [][Next]_vars

-------------------------------------------------------------------------------
(***************************************************************************)
(* Safety.                                                                 *)
(***************************************************************************)

\* The person a session was opened for.
Holder(s) == IF opened[s] = NoToken THEN NoPerson ELSE addressee[opened[s]]

\* A session is on the account of the person to whose address its link was
\* sent, however long the verify request took and whatever was deleted or
\* created meanwhile; a session's account exists.
SessionIsAddressees ==
  \A s \in Sessions :
    sessions[s] # NoRow =>
      Live(sessions[s].uid) /\ users[sessions[s].uid] = Holder(s)

\* A link signs in at most once, though it may be opened many times at once.
LinkUsedOnce ==
  \A s, o \in Sessions : opened[s] # NoToken /\ opened[s] = opened[o] => s = o

\* There is never more than one account for an address, though any number of
\* links for it may be opened at once.
OneAccountPerAddress ==
  \A u, w \in UserId : Live(u) /\ users[u] = users[w] => u = w

\* A signed-in request that is about to change something acts for the person
\* who holds its session's link, on that person's account or on none: also when
\* the session was revoked, or the account deleted, after LoadUser.
ActsForHolder ==
  \A q \in Requests :
    rq[q].pc # "idle" /\ Live(rq[q].uid) => users[rq[q].uid] = Holder(rq[q].sess)

\* One person's request, whatever it does and however late it does it, never
\* ends a session of another person.
OthersStaySignedIn ==
  [][\A q \in Requests : RequestStep(q) =>
       \A s \in Sessions : Holder(s) # Holder(rq[q].sess) => sessions[s]' = sessions[s]]_vars

\* The cleanup jobs prune what has expired: no link that would still sign its
\* holder in, no session LoadUser would still accept.
PrunesExpiredOnly ==
  [][/\ CleanupTokens =>
          \A t \in Tokens : tokens[t] # NoRow /\ tokens[t].exp >= now => tokens'[t] # NoRow
     /\ CleanupSessions => \A s \in Sessions : Accepted(s) => Accepted(s)']_vars

\* "Find-or-create the user (unified signup)": a valid link that found no row
\* for its address signs its holder up or in. The code gives a 500 instead, and
\* the link is used up, when another link for the address, opened at the same
\* time, created the row first.
FindOrCreate ==
  [][\A v \in Verifies :
       vr[v].pc = "create" /\ vr[v]' = NoVerify => faults' # faults]_vars

-------------------------------------------------------------------------------
(***************************************************************************)
(* What the parts of this module promise to the rest of the program.       *)
(***************************************************************************)
Dir == INSTANCE Directory
         WITH Holders <- People, Ids <- UserId, NoHolder <- NoRow, holder <- users, last <- lastId

\* The users table is a directory: sign-ups that race each other and accounts
\* deleted under the requests that work on them never give an address a second
\* row, an id a second owner, or a row another owner.
ImplementsDirectory == Dir!Spec

\* A verify request that got past ConsumeToken has the link to itself.
Claims(v) == vr[v].pc \in {"lookup", "create", "session"}

LinkOf(t) ==
  IF addressee[t] = NoPerson THEN "new"
  ELSE IF \E s \in Sessions : opened[s] = t THEN "used"
  ELSE IF \E v \in Verifies : Claims(v) /\ vr[v].tok = t THEN "taken"
  ELSE IF tokens[t] # NoRow /\ tokens[t].exp >= now THEN "valid" ELSE "dead"

SessionOf(s) ==
  IF opened[s] = NoToken THEN "none" ELSE IF Accepted(s) THEN "open" ELSE "closed"

LinksNow    == [t \in Tokens |-> LinkOf(t)]
SessionsNow == [s \in Sessions |-> SessionOf(s)]

Mail == INSTANCE SignIn
          WITH Links <- Tokens, NoLink <- NoToken, link <- LinksNow, sentTo <- addressee,
               session <- SessionsNow, with <- opened

\* The login, verify and account handlers with the clock and the cleanup jobs are
\* a sign-in service: however often a link is opened, also at once, and whatever
\* is aborted, expires, is swept or is deleted meanwhile, it opens one session at
\* most, never after it lapsed, and a session once closed stays closed.
ImplementsSignIn == Mail!Spec
===============================================================================
