---------------------------- MODULE AccountsProofs ----------------------------
(***************************************************************************)
(* Theorems about Accounts, for any number of people, links, sessions and  *)
(* requests and any lifetimes.                                             *)
(***************************************************************************)
EXTENDS Accounts, TLAPS

\* Ids above lastId were never given to a row.
IdsInv == \A u \in UserId : u > lastId => users[u] = NoRow

\* Whose link it is: a link not used yet belongs to its row's address and opened
\* nothing; a session was opened with a link that was asked for.
LinkInv ==
  /\ \A t \in Tokens : tokens[t] # NoRow => /\ tokens[t].email = addressee[t]
                                            /\ \A s \in Sessions : opened[s] # t
  /\ \A s \in Sessions : opened[s] # NoToken => addressee[opened[s]] # NoPerson

\* A link is claimed by one verify request at a time.
ClaimedOnce ==
  \A v, w \in Verifies : Claims(v) /\ Claims(w) /\ vr[v].tok = vr[w].tok => v = w

VerifyOK(v) ==
  /\ vr[v].pc # "idle" => vr[v].tok \in Tokens
  /\ Claims(v) => /\ vr[v].email \in People /\ addressee[vr[v].tok] = vr[v].email
                  /\ tokens[vr[v].tok] = NoRow
                  /\ \A s \in Sessions : opened[s] # vr[v].tok
  /\ vr[v].pc = "session" => /\ vr[v].uid \in 1 .. lastId
                             /\ Live(vr[v].uid) => users[vr[v].uid] = vr[v].email

VerifyInv == ClaimedOnce /\ \A v \in Verifies : VerifyOK(v)

\* A session has been opened with a link, and is on the account of its addressee.
SessionOK(s) ==
  sessions[s] # NoRow =>
    /\ opened[s] # NoToken /\ sessions[s].uid <= lastId
    /\ Live(sessions[s].uid) /\ users[sessions[s].uid] = Holder(s)

SessionInv == \A s \in Sessions : SessionOK(s)

\* A signed-in request acts for the holder of its session, and the session it is
\* about to drop is one of the holder's.
RequestOK(q) ==
  rq[q].pc # "idle" =>
    /\ rq[q].sess \in Sessions /\ opened[rq[q].sess] # NoToken /\ rq[q].uid \in 1 .. lastId
    /\ rq[q].act \in Act
    /\ Live(rq[q].uid) => users[rq[q].uid] = Holder(rq[q].sess)
    /\ rq[q].act = "revoke" => rq[q].target \in Sessions
    /\ rq[q].pc \in Act => rq[q].pc = rq[q].act
    /\ rq[q].pc = "drop" => /\ rq[q].target \in Sessions /\ opened[rq[q].target] # NoToken
                            /\ Holder(rq[q].target) = Holder(rq[q].sess)

RequestInv == \A q \in Requests : RequestOK(q)

Inv == /\ TypeOK /\ IdsInv /\ OneAccountPerAddress /\ LinkInv /\ LinkUsedOnce
       /\ VerifyInv /\ SessionInv /\ RequestInv

-------------------------------------------------------------------------------
(* The steps, by what they change.                                             *)

\* The users table: a row under a new id for an address that has none, or one
\* row less.
Added(u, p) ==
  /\ u = lastId + 1 /\ u \in UserId /\ p \in People /\ ~EmailTaken(p)
  /\ users' = [users EXCEPT ![u] = p] /\ lastId' = u

Gone(u) == users' = [users EXCEPT ![u] = NoRow] /\ lastId' = lastId

UsersStep ==
  \/ \E u \in UserId, p \in People : Added(u, p)
  \/ \E u \in UserId : Gone(u)
  \/ UNCHANGED <<users, lastId>>

\* Rows that were there stay as they are or go.
UsersKept ==
  /\ users' \in [UserId -> People \cup {NoRow}] /\ lastId' \in 0 .. MaxUsers /\ lastId <= lastId'
  /\ \A u \in UserId : u <= lastId => users'[u] \in {users[u], NoRow}

LEMMA TableKept ==
  ASSUME Inv, UsersStep
  PROVE  UsersKept /\ IdsInv' /\ OneAccountPerAddress'
<1>0. /\ users \in [UserId -> People \cup {NoRow}] /\ lastId \in 0 .. MaxUsers /\ MaxUsers \in Nat
      /\ NoRow \notin People /\ IdsInv /\ OneAccountPerAddress
  BY AccountsAssumption DEF Inv, TypeOK, AccountsAssumption
<1>1. CASE \E u \in UserId, p \in People : Added(u, p)
  <2>1. PICK u \in UserId, p \in People : Added(u, p)
    BY <1>1
  <2>2. /\ u = lastId + 1 /\ users' = [users EXCEPT ![u] = p] /\ lastId' = u
        /\ \A w \in UserId : users[w] # p
    BY <2>1 DEF Added, EmailTaken
  <2>3. \A w \in UserId : users'[w] = IF w = u THEN p ELSE users[w]
    BY <1>0, <2>2
  <2>4. UsersKept
    BY <1>0, <2>2, <2>3 DEF UsersKept, UserId
  <2>5. IdsInv'
    BY <1>0, <2>2, <2>3 DEF IdsInv, UserId
  <2>6. OneAccountPerAddress'
    BY <1>0, <2>2, <2>3 DEF OneAccountPerAddress, Live
  <2> QED
    BY <2>4, <2>5, <2>6
<1>2. CASE \E u \in UserId : Gone(u)
  <2>1. PICK u \in UserId : Gone(u)
    BY <1>2
  <2>2. lastId' = lastId /\ \A w \in UserId : users'[w] = IF w = u THEN NoRow ELSE users[w]
    BY <1>0, <2>1 DEF Gone
  <2>3. UsersKept
    BY <1>0, <2>1, <2>2 DEF UsersKept, Gone
  <2>4. IdsInv' /\ OneAccountPerAddress'
    BY <1>0, <2>2 DEF IdsInv, OneAccountPerAddress, Live
  <2> QED
    BY <2>3, <2>4
<1>3. CASE UNCHANGED <<users, lastId>>
  BY <1>0, <1>3 DEF UsersKept, IdsInv, OneAccountPerAddress, Live
<1> QED
  BY <1>1, <1>2, <1>3 DEF UsersStep

\* Links and sessions keep whom they are for and what they were opened with; a
\* link gets a row only when it is asked for, and is used up once used.
HistoryKept ==
  /\ addressee' \in [Tokens -> People \cup {NoPerson}]
  /\ opened' \in [Sessions -> Tokens \cup {NoToken}]
  /\ \A t \in Tokens : addressee[t] # NoPerson => addressee'[t] = addressee[t]
  /\ \A s \in Sessions : opened[s] # NoToken => opened'[s] = opened[s]

LEMMA HistoryStep ==
  ASSUME TypeOK, Next
  PROVE  HistoryKept
<1>0. /\ addressee \in [Tokens -> People \cup {NoPerson}]
      /\ opened \in [Sessions -> Tokens \cup {NoToken}] /\ vr \in [Verifies -> Verify]
  BY DEF TypeOK
<1>1. ASSUME NEW t \in Tokens, NEW p \in People, CreateToken(t, p) PROVE HistoryKept
  BY <1>0, <1>1 DEF HistoryKept, CreateToken
<1>2. ASSUME NEW v \in Verifies, CreateSession(v) PROVE HistoryKept
  <2>1. vr[v].tok \in Tokens \cup {NoToken}
    BY <1>0 DEF Verify
  <2> QED
    BY <1>0, <1>2, <2>1 DEF HistoryKept, CreateSession
<1>3. CASE UNCHANGED hist
  BY <1>0, <1>3 DEF HistoryKept, hist
<1>4. \/ \E t \in Tokens, p \in People : CreateToken(t, p)
      \/ \E v \in Verifies : CreateSession(v)
      \/ UNCHANGED hist
  BY DEF Next, hist, SendLink, OpenLink, VerifyStep, ConsumeToken, FindUser, FindUserFails,
         CreateUser, AbortVerify, LoadSession, RequestStep, LoadUser, Logout, CheckRevoke,
         DropSession, RevokeAll, DeleteAccount, AbortRequest, AdminRevokeSessions, Tick,
         CleanupTokens, CleanupSessions, Crash
<1> QED
  BY <1>1, <1>2, <1>3, <1>4

LEMMA UsersStepHolds ==
  ASSUME Inv, Next
  PROVE  UsersStep
<1>0. lastId \in 0 .. MaxUsers /\ MaxUsers \in Nat
  BY AccountsAssumption DEF Inv, TypeOK, AccountsAssumption
<1>1. ASSUME NEW v \in Verifies, CreateUser(v) PROVE UsersStep
  <2>1. vr[v].email \in People
    BY <1>1 DEF CreateUser, Inv, VerifyInv, VerifyOK, Claims
  <2>2. UNCHANGED <<users, lastId>> \/ Added(NextId, vr[v].email)
    BY <1>1, <2>1 DEF CreateUser, Added, NextId
  <2> QED
    BY <2>1, <2>2 DEF UsersStep, Added
<1>2. ASSUME NEW q \in Requests, DeleteAccount(q) PROVE UsersStep
  <2>1. rq[q].uid \in 1 .. lastId
    BY <1>2 DEF DeleteAccount, Inv, RequestInv, RequestOK
  <2>2. rq[q].uid \in UserId
    BY <1>0, <2>1 DEF UserId
  <2> QED
    BY <1>2, <2>2 DEF DeleteAccount, UsersStep, Gone
<1>3. \/ \E v \in Verifies : CreateUser(v)
      \/ \E q \in Requests : DeleteAccount(q)
      \/ UNCHANGED <<users, lastId>>
  BY DEF Next, db, SendLink, CreateToken, OpenLink, VerifyStep, ConsumeToken, FindUser,
         FindUserFails, CreateSession, AbortVerify, LoadSession, RequestStep, LoadUser, Logout,
         CheckRevoke, DropSession, RevokeAll, AbortRequest, AdminRevokeSessions, Tick,
         CleanupTokens, CleanupSessions, Crash
<1> QED
  BY <1>1, <1>2, <1>3 DEF UsersStep

\* The sessions table: a session is opened under an id that was never used, or
\* sessions go.
Opened(v, s) ==
  /\ vr[v].pc = "session" /\ Live(vr[v].uid)
  /\ opened[s] = NoToken /\ opened' = [opened EXCEPT ![s] = vr[v].tok]
  /\ sessions' = [sessions EXCEPT ![s] = [uid |-> vr[v].uid, exp |-> now + SessionTTL]]

Ended ==
  /\ opened' = opened /\ sessions' = [s \in Sessions |-> sessions'[s]]
  /\ \A s \in Sessions : sessions'[s] \in {sessions[s], NoRow}

LEMMA WithoutIsEnded ==
  ASSUME NEW u, NEW except, sessions' = WithoutSessionsOf(u, except), opened' = opened
  PROVE  /\ Ended
         /\ \A s \in Sessions : sessions'[s] # NoRow /\ s # except => sessions'[s].uid # u
  BY DEF WithoutSessionsOf, Ended

LEMMA SessionsStep ==
  ASSUME TypeOK, Next
  PROVE  Ended \/ \E v \in Verifies, s \in Sessions : CreateSession(v) /\ Opened(v, s)
<1>0. sessions \in [Sessions -> SessionRow \cup {NoRow}]
  BY DEF TypeOK
<1>1. ASSUME NEW v \in Verifies, CreateSession(v)
      PROVE  Ended \/ \E s \in Sessions : Opened(v, s)
  BY <1>0, <1>1 DEF CreateSession, Opened, Ended
<1>2. ASSUME NEW q \in Requests, RequestStep(q) PROVE Ended
  <2>1. CASE RevokeAll(q) \/ DeleteAccount(q)
    BY <2>1, WithoutIsEnded DEF RevokeAll, DeleteAccount, hist
  <2>2. CASE LoadUser(q) \/ Logout(q) \/ CheckRevoke(q) \/ DropSession(q)
    BY <1>0, <2>2 DEF LoadUser, Logout, CheckRevoke, DropSession, Ended, hist, db
  <2> QED
    BY <1>2, <2>1, <2>2 DEF RequestStep
<1>3. ASSUME NEW u \in UserId, AdminRevokeSessions(u) PROVE Ended
  BY <1>3, WithoutIsEnded DEF AdminRevokeSessions, hist
<1>4. CASE CleanupSessions
  BY <1>4 DEF CleanupSessions, Ended, hist
<1>5. CASE UNCHANGED <<sessions, opened>>
  BY <1>0, <1>5 DEF Ended
<1>6. \/ \E v \in Verifies : CreateSession(v)
      \/ \E q \in Requests : RequestStep(q)
      \/ \E u \in UserId : AdminRevokeSessions(u)
      \/ CleanupSessions \/ UNCHANGED <<sessions, opened>>
  BY DEF Next, db, hist, SendLink, CreateToken, OpenLink, VerifyStep, ConsumeToken, FindUser,
         FindUserFails, CreateUser, AbortVerify, LoadSession, AbortRequest, Tick,
         CleanupTokens, Crash
<1> QED
  BY <1>1, <1>2, <1>3, <1>4, <1>5, <1>6

-------------------------------------------------------------------------------
(* The type invariant.                                                         *)

LEMMA TokensTyped ==
  ASSUME TypeOK, Next
  PROVE  tokens' \in [Tokens -> TokenRow \cup {NoRow}]
<1>0. /\ tokens \in [Tokens -> TokenRow \cup {NoRow}] /\ now \in 0 .. MaxTime
      /\ vr \in [Verifies -> Verify] /\ MaxTime \in Nat /\ TokenTTL \in Nat
  BY AccountsAssumption DEF TypeOK, Time, AccountsAssumption
<1>1. ASSUME NEW t \in Tokens, NEW p \in People, CreateToken(t, p)
      PROVE  tokens' \in [Tokens -> TokenRow \cup {NoRow}]
  <2>1. now + TokenTTL \in 0 .. MaxTime + TokenTTL
    BY <1>0
  <2>2. [email |-> p, exp |-> now + TokenTTL] \in TokenRow
    BY <2>1 DEF TokenRow
  <2> QED
    BY <1>0, <1>1, <2>2 DEF CreateToken
<1>2. ASSUME NEW v \in Verifies, ConsumeToken(v)
      PROVE  tokens' \in [Tokens -> TokenRow \cup {NoRow}]
  BY <1>0, <1>2 DEF ConsumeToken
<1>3. CASE CleanupTokens
  BY <1>0, <1>3 DEF CleanupTokens
<1>4. \/ \E t \in Tokens, p \in People : CreateToken(t, p)
      \/ \E v \in Verifies : ConsumeToken(v)
      \/ CleanupTokens \/ UNCHANGED tokens
  BY DEF Next, db, SendLink, OpenLink, VerifyStep, FindUser, FindUserFails, CreateUser,
         CreateSession, AbortVerify, LoadSession, RequestStep, LoadUser, Logout, CheckRevoke,
         DropSession, RevokeAll, DeleteAccount, AbortRequest, AdminRevokeSessions, Tick,
         CleanupSessions, Crash
<1> QED
  BY <1>0, <1>1, <1>2, <1>3, <1>4

LEMMA SessionsTyped ==
  ASSUME Inv, Next
  PROVE  sessions' \in [Sessions -> SessionRow \cup {NoRow}]
<1>0. /\ sessions \in [Sessions -> SessionRow \cup {NoRow}] /\ now \in 0 .. MaxTime
      /\ lastId \in 0 .. MaxUsers /\ MaxUsers \in Nat /\ MaxTime \in Nat /\ SessionTTL \in Nat
  BY AccountsAssumption DEF Inv, TypeOK, Time, AccountsAssumption
<1>1. ASSUME NEW v \in Verifies, NEW s \in Sessions, Opened(v, s)
      PROVE  sessions' \in [Sessions -> SessionRow \cup {NoRow}]
  <2>1. vr[v].uid \in 1 .. lastId
    BY <1>1 DEF Opened, Inv, VerifyInv, VerifyOK
  <2>2. vr[v].uid \in UserId /\ now + SessionTTL \in 0 .. MaxTime + SessionTTL
    BY <1>0, <2>1 DEF UserId
  <2>3. [uid |-> vr[v].uid, exp |-> now + SessionTTL] \in SessionRow
    BY <2>2 DEF SessionRow
  <2> QED
    BY <1>0, <1>1, <2>3 DEF Opened
<1>2. CASE Ended
  BY <1>0, <1>2 DEF Ended
<1> QED
  BY <1>1, <1>2, SessionsStep DEF Inv

\* A verify request goes to its next statement, with what it has found.
Moved(v, pc, email, uid) ==
  /\ vr' = [vr EXCEPT ![v] = vr'[v]] /\ vr'[v] \in Verify
  /\ vr'[v].pc = pc /\ vr'[v].tok = vr[v].tok /\ vr'[v].email = email /\ vr'[v].uid = uid

\* What a step does to the verify requests.
Consumed(v) ==
  /\ vr[v].pc = "consume" /\ tokens[vr[v].tok] # NoRow
  /\ tokens' = [tokens EXCEPT ![vr[v].tok] = NoRow]
  /\ Moved(v, "lookup", tokens[vr[v].tok].email, vr[v].uid)

FoundUser(v, u) ==
  /\ vr[v].pc = "lookup" /\ users[u] = vr[v].email /\ opened' = opened
  /\ Moved(v, "session", vr[v].email, u)

FoundNone(v) ==
  vr[v].pc = "lookup" /\ opened' = opened /\ Moved(v, "create", vr[v].email, vr[v].uid)

Created(v, u) ==
  /\ vr[v].pc = "create" /\ u = lastId + 1 /\ lastId' = u /\ opened' = opened
  /\ users' = [users EXCEPT ![u] = vr[v].email]
  /\ Moved(v, "session", vr[v].email, u)

Dropped == vr' = [v \in Verifies |-> vr'[v]] /\ \A v \in Verifies : vr'[v] \in {vr[v], NoVerify}

LEMMA VerifyStepKinds ==
  ASSUME Inv, Next
  PROVE  \/ \E v \in Verifies, t \in Tokens : OpenLink(v, t)
         \/ \E v \in Verifies : (Consumed(v) /\ ConsumeToken(v)) \/ FoundNone(v)
         \/ \E v \in Verifies, u \in UserId : FoundUser(v, u) \/ Created(v, u)
         \/ Dropped
<1>0. /\ vr \in [Verifies -> Verify] /\ tokens \in [Tokens -> TokenRow \cup {NoRow}]
      /\ MaxUsers \in Nat
  BY AccountsAssumption DEF Inv, TypeOK, AccountsAssumption
<1>1. ASSUME NEW v \in Verifies, ConsumeToken(v)
      PROVE  (Consumed(v) /\ ConsumeToken(v)) \/ Dropped
  <2>1. CASE vr' = [vr EXCEPT ![v] = NoVerify]
    BY <1>0, <2>1 DEF Dropped
  <2>2. CASE vr' # [vr EXCEPT ![v] = NoVerify]
    <3>1. /\ tokens[vr[v].tok] # NoRow /\ vr[v].pc = "consume"
          /\ tokens' = [tokens EXCEPT ![vr[v].tok] = NoRow]
          /\ vr' = [vr EXCEPT ![v] = [@ EXCEPT !.pc = "lookup", !.email = tokens[vr[v].tok].email]]
      BY <1>1, <2>2 DEF ConsumeToken
    <3>2. vr[v] \in Verify /\ tokens[vr[v].tok].email \in People
      <4>1. vr[v] \in Verify
        BY <1>0
      <4>2. vr[v].tok \in Tokens
        BY <3>1 DEF Inv, VerifyInv, VerifyOK
      <4> QED
        BY <1>0, <3>1, <4>1, <4>2 DEF TokenRow
    <3>3. /\ vr'[v] = [vr[v] EXCEPT !.pc = "lookup", !.email = tokens[vr[v].tok].email]
          /\ vr' = [vr EXCEPT ![v] = vr'[v]]
      BY <1>0, <3>1
    <3>4. Moved(v, "lookup", tokens[vr[v].tok].email, vr[v].uid)
      BY <3>2, <3>3 DEF Moved, Verify
    <3> QED
      BY <1>1, <3>1, <3>4 DEF Consumed
  <2> QED
    BY <2>1, <2>2
<1>2. ASSUME NEW v \in Verifies, FindUser(v) \/ FindUserFails(v)
      PROVE  FoundNone(v) \/ \E u \in UserId : FoundUser(v, u)
  <2>1. vr[v] \in Verify /\ UserId \subseteq 0 .. MaxUsers
    BY <1>0 DEF UserId
  <2>2. ASSUME NEW u \in UserId, vr' = [vr EXCEPT ![v].pc = "session", ![v].uid = u]
        PROVE  Moved(v, "session", vr[v].email, u)
    <3>1. /\ vr'[v] = [vr[v] EXCEPT !.pc = "session", !.uid = u]
          /\ vr' = [vr EXCEPT ![v] = vr'[v]]
      BY <1>0, <2>2
    <3> QED
      BY <2>1, <3>1 DEF Moved, Verify
  <2>3. ASSUME vr' = [vr EXCEPT ![v].pc = "create"]
        PROVE  Moved(v, "create", vr[v].email, vr[v].uid)
    <3>1. /\ vr'[v] = [vr[v] EXCEPT !.pc = "create"]
          /\ vr' = [vr EXCEPT ![v] = vr'[v]]
      BY <1>0, <2>3
    <3> QED
      BY <2>1, <3>1 DEF Moved, Verify
  <2> QED
    BY <1>2, <2>2, <2>3 DEF FindUser, FindUserFails, FoundNone, FoundUser, hist
<1>3. ASSUME NEW v \in Verifies, CreateUser(v)
      PROVE  Dropped \/ \E u \in UserId : Created(v, u)
  <2>1. CASE vr' = [vr EXCEPT ![v] = NoVerify]
    BY <1>0, <2>1 DEF Dropped
  <2>2. CASE vr' # [vr EXCEPT ![v] = NoVerify]
    <3>1. /\ NextId \in UserId /\ users' = [users EXCEPT ![NextId] = vr[v].email]
          /\ lastId' = NextId /\ vr[v].pc = "create" /\ opened' = opened
          /\ vr' = [vr EXCEPT ![v].pc = "session", ![v].uid = NextId]
      BY <1>3, <2>2 DEF CreateUser, hist
    <3>2. vr[v] \in Verify /\ NextId \in 0 .. MaxUsers
      BY <1>0, <3>1 DEF UserId
    <3>3. /\ vr'[v] = [vr[v] EXCEPT !.pc = "session", !.uid = NextId]
          /\ vr' = [vr EXCEPT ![v] = vr'[v]]
      BY <1>0, <3>1
    <3>4. Moved(v, "session", vr[v].email, NextId)
      BY <3>2, <3>3 DEF Moved, Verify
    <3> QED
      BY <3>1, <3>4 DEF Created, NextId
  <2> QED
    BY <2>1, <2>2
<1>4. ASSUME NEW v \in Verifies, CreateSession(v) \/ AbortVerify(v) PROVE Dropped
  BY <1>0, <1>4 DEF CreateSession, AbortVerify, Dropped
<1>5. CASE Crash
  BY <1>5 DEF Crash, Dropped
<1>6. CASE vr' = vr
  BY <1>0, <1>6 DEF Dropped
<1>7. \/ \E v \in Verifies, t \in Tokens : OpenLink(v, t)
      \/ \E v \in Verifies : VerifyStep(v) \/ AbortVerify(v)
      \/ Crash \/ vr' = vr
  BY DEF Next, SendLink, CreateToken, LoadSession, RequestStep, LoadUser, Logout, CheckRevoke,
         DropSession, RevokeAll, DeleteAccount, AbortRequest, AdminRevokeSessions, Tick,
         CleanupTokens, CleanupSessions
<1>8. ASSUME NEW v \in Verifies, VerifyStep(v) \/ AbortVerify(v)
      PROVE  \/ (Consumed(v) /\ ConsumeToken(v)) \/ FoundNone(v) \/ Dropped
             \/ \E u \in UserId : FoundUser(v, u) \/ Created(v, u)
  BY <1>1, <1>2, <1>3, <1>4, <1>8 DEF VerifyStep
<1> QED
  BY <1>5, <1>6, <1>7, <1>8

LEMMA VerifyTyped ==
  ASSUME Inv, Next
  PROVE  vr' \in [Verifies -> Verify]
<1>0. /\ vr \in [Verifies -> Verify] /\ mail \subseteq Tokens /\ NoVerify \in Verify
      /\ NoToken \notin Tokens
  BY AccountsAssumption DEF Inv, TypeOK, AccountsAssumption, NoVerify, Verify
<1>1. ASSUME NEW v \in Verifies, NEW t \in Tokens, OpenLink(v, t)
      PROVE  vr' \in [Verifies -> Verify]
  <2>1. [NoVerify EXCEPT !.pc = "consume", !.tok = t] \in Verify
    BY <1>0 DEF NoVerify, Verify
  <2> QED
    BY <1>0, <1>1, <2>1 DEF OpenLink
<1>2. CASE Dropped
  BY <1>0, <1>2 DEF Dropped
<1>3. ASSUME NEW v \in Verifies, vr' = [vr EXCEPT ![v] = vr'[v]], vr'[v] \in Verify
      PROVE  vr' \in [Verifies -> Verify]
  BY <1>0, <1>3
<1> QED
  BY <1>1, <1>2, <1>3, VerifyStepKinds DEF Consumed, FoundNone, FoundUser, Created, Moved

LEMMA RequestTyped ==
  ASSUME Inv, Next
  PROVE  rq' \in [Requests -> Request]
<1>0. /\ rq \in [Requests -> Request] /\ sessions \in [Sessions -> SessionRow \cup {NoRow}]
      /\ NoRequest \in Request /\ MaxUsers \in Nat
  BY AccountsAssumption DEF Inv, TypeOK, AccountsAssumption, NoRequest, Request
<1>1. ASSUME NEW q \in Requests, NEW s \in Sessions, NEW target \in Sessions, NEW act \in Act,
             LoadSession(q, s, act, target)
      PROVE  rq' \in [Requests -> Request]
  <2>1. sessions[s] \in SessionRow
    BY <1>0, <1>1 DEF LoadSession, Accepted
  <2>2. sessions[s].uid \in 0 .. MaxUsers
    BY <1>0, <2>1 DEF SessionRow, UserId
  <2>3. [pc |-> "user", act |-> act, sess |-> s,
         target |-> IF act = "revoke" THEN target ELSE NoSession, uid |-> sessions[s].uid] \in Request
    BY <2>2 DEF Request
  <2> QED
    BY <1>0, <1>1, <2>3 DEF LoadSession
<1>2. ASSUME NEW q \in Requests, LoadUser(q) PROVE rq' \in [Requests -> Request]
  <2>1. rq[q].act \in Act \cup {"none"} /\ rq[q].act \in Act
    BY <1>0, <1>2 DEF Inv, RequestInv, RequestOK, LoadUser, Request
  <2>2. [rq[q] EXCEPT !.pc = rq[q].act] \in Request
    BY <1>0, <2>1 DEF Request
  <2> QED
    BY <1>0, <1>2, <2>2 DEF LoadUser
<1>3. ASSUME NEW q \in Requests, CheckRevoke(q) PROVE rq' \in [Requests -> Request]
  <2>1. [rq[q] EXCEPT !.pc = "drop"] \in Request
    BY <1>0 DEF Request
  <2> QED
    BY <1>0, <1>3, <2>1 DEF CheckRevoke
<1>4. ASSUME NEW q \in Requests, End(q) PROVE rq' \in [Requests -> Request]
  BY <1>0, <1>4 DEF End
<1>5. CASE Crash
  BY <1>0, <1>5 DEF Crash
<1>6. \/ \E q \in Requests, s, target \in Sessions, act \in Act : LoadSession(q, s, act, target)
      \/ \E q \in Requests : LoadUser(q) \/ CheckRevoke(q) \/ End(q)
      \/ Crash \/ rq' = rq
  BY DEF Next, SendLink, CreateToken, OpenLink, VerifyStep, ConsumeToken, FindUser,
         FindUserFails, CreateUser, CreateSession, AbortVerify, RequestStep, Logout,
         DropSession, RevokeAll, DeleteAccount, AbortRequest, AdminRevokeSessions, Tick,
         CleanupTokens, CleanupSessions
<1> QED
  BY <1>0, <1>1, <1>2, <1>3, <1>4, <1>5, <1>6

LEMMA TypeStep ==
  ASSUME Inv, Next
  PROVE  TypeOK'
<1>0. /\ now \in 0 .. MaxTime /\ MaxTime \in Nat /\ faults \in 0 .. MaxFaults /\ MaxFaults \in Nat
      /\ mail \subseteq Tokens
  BY AccountsAssumption DEF Inv, TypeOK, Time, AccountsAssumption
<1>1. UsersKept
  BY UsersStepHolds, TableKept
<1>2. HistoryKept
  BY HistoryStep DEF Inv
<1>3. now' \in 0 .. MaxTime
  <2>1. Tick \/ now' = now
    BY DEF Next, SendLink, CreateToken, OpenLink, VerifyStep, ConsumeToken, FindUser,
         FindUserFails, CreateUser, CreateSession, AbortVerify, LoadSession, RequestStep, LoadUser,
         Logout, CheckRevoke, DropSession, RevokeAll, DeleteAccount, AbortRequest,
         AdminRevokeSessions, CleanupTokens, CleanupSessions, Crash
  <2> QED
    BY <1>0, <2>1 DEF Tick
<1>4. faults' \in 0 .. MaxFaults
  <2>1. FaultLeft \/ faults' = faults
    BY DEF Next, SendLink, CreateToken, OpenLink, VerifyStep, ConsumeToken, FindUser,
         FindUserFails, CreateUser, CreateSession, AbortVerify, LoadSession, RequestStep, LoadUser,
         Logout, CheckRevoke, DropSession, RevokeAll, DeleteAccount, AbortRequest,
         AdminRevokeSessions, Tick, CleanupTokens, CleanupSessions, Crash
  <2> QED
    BY <1>0, <2>1 DEF FaultLeft
<1>5. mail' \subseteq Tokens
  <2>1. (\E t \in Tokens : SendLink(t)) \/ mail' = mail
    BY DEF Next, CreateToken, OpenLink, VerifyStep, ConsumeToken, FindUser,
         FindUserFails, CreateUser, CreateSession, AbortVerify, LoadSession, RequestStep, LoadUser,
         Logout, CheckRevoke, DropSession, RevokeAll, DeleteAccount, AbortRequest,
         AdminRevokeSessions, Tick, CleanupTokens, CleanupSessions, Crash
  <2> QED
    BY <1>0, <2>1 DEF SendLink
<1> QED
  BY <1>1, <1>2, <1>3, <1>4, <1>5, TokensTyped, SessionsTyped, VerifyTyped, RequestTyped
  DEF TypeOK, UsersKept, HistoryKept, Time, Inv

-------------------------------------------------------------------------------
(* Links.                                                                      *)

\* A link that has a row had it before, or has just been asked for.
TokensKept ==
  \A t \in Tokens : tokens'[t] # NoRow =>
    \/ tokens'[t] = tokens[t]
    \/ /\ addressee[t] = NoPerson /\ addressee'[t] # NoPerson /\ opened' = opened
       /\ tokens'[t].email = addressee'[t]

LEMMA TokensStep ==
  ASSUME TypeOK, Next
  PROVE  TokensKept
<1>0. /\ tokens \in [Tokens -> TokenRow \cup {NoRow}] /\ NoPerson \notin People
      /\ addressee \in [Tokens -> People \cup {NoPerson}] /\ vr \in [Verifies -> Verify]
  BY AccountsAssumption DEF TypeOK, AccountsAssumption
<1>1. ASSUME NEW t \in Tokens, NEW p \in People, CreateToken(t, p) PROVE TokensKept
  BY <1>0, <1>1 DEF CreateToken, TokensKept
<1>2. ASSUME NEW v \in Verifies, ConsumeToken(v) PROVE TokensKept
  BY <1>0, <1>2 DEF ConsumeToken, TokensKept
<1>3. CASE CleanupTokens
  BY <1>3 DEF CleanupTokens, TokensKept
<1>4. \/ \E t \in Tokens, p \in People : CreateToken(t, p)
      \/ \E v \in Verifies : ConsumeToken(v)
      \/ CleanupTokens \/ UNCHANGED tokens
  BY DEF Next, db, SendLink, OpenLink, VerifyStep, FindUser, FindUserFails, CreateUser,
         CreateSession, AbortVerify, LoadSession, RequestStep, LoadUser, Logout, CheckRevoke,
         DropSession, RevokeAll, DeleteAccount, AbortRequest, AdminRevokeSessions, Tick,
         CleanupSessions, Crash
<1> QED
  BY <1>1, <1>2, <1>3, <1>4 DEF TokensKept

\* A session opened now is opened with a link that nothing else was opened with.
LEMMA OpenedClaims ==
  ASSUME Inv, Next, NEW s \in Sessions, opened'[s] # opened[s]
  PROVE  \E v \in Verifies :
           /\ vr[v].pc = "session" /\ vr'[v] = NoVerify /\ opened'[s] = vr[v].tok
           /\ vr[v].tok \in Tokens /\ tokens[vr[v].tok] = NoRow /\ addressee[vr[v].tok] \in People
           /\ \A o \in Sessions : opened[o] # vr[v].tok /\ (o # s => opened'[o] = opened[o])
<1>0. opened \in [Sessions -> Tokens \cup {NoToken}] /\ vr \in [Verifies -> Verify]
  BY DEF Inv, TypeOK
<1>1. PICK v \in Verifies, w \in Sessions : CreateSession(v) /\ Opened(v, w)
  BY SessionsStep DEF Ended, Inv
<1>2. s = w /\ opened'[s] = vr[v].tok /\ \A o \in Sessions : o # s => opened'[o] = opened[o]
  BY <1>0, <1>1 DEF Opened
<1>3. vr[v].pc = "session" /\ vr'[v] = NoVerify
  BY <1>0, <1>1 DEF Opened, CreateSession
<1>4. Claims(v) /\ VerifyOK(v) /\ vr[v].pc # "idle"
  BY <1>3 DEF Claims, Inv, VerifyInv
<1> QED
  BY <1>2, <1>3, <1>4 DEF VerifyOK

LEMMA LinkStep ==
  ASSUME Inv, Next
  PROVE  LinkInv' /\ LinkUsedOnce'
<1>0. /\ addressee \in [Tokens -> People \cup {NoPerson}] /\ NoPerson \notin People
      /\ opened \in [Sessions -> Tokens \cup {NoToken}] /\ LinkInv /\ LinkUsedOnce
      /\ NoToken \notin Tokens
  BY AccountsAssumption DEF Inv, TypeOK, AccountsAssumption
<1>1. TokensKept /\ HistoryKept
  BY TokensStep, HistoryStep DEF Inv
<1>2. ASSUME NEW t \in Tokens, tokens'[t] # NoRow
      PROVE  tokens'[t].email = addressee'[t] /\ \A s \in Sessions : opened'[s] # t
  <2>1. CASE tokens'[t] = tokens[t]
    <3>1. tokens[t].email = addressee[t] /\ \A s \in Sessions : opened[s] # t
      BY <1>0, <1>2, <2>1 DEF LinkInv
    <3>2. addressee'[t] = addressee[t]
      <4>1. tokens[t] \in TokenRow
        BY <1>2, <2>1 DEF Inv, TypeOK
      <4>2. addressee[t] # NoPerson
        BY <1>0, <3>1, <4>1 DEF TokenRow
      <4> QED
        BY <1>1, <4>2 DEF HistoryKept
    <3>3. \A s \in Sessions : opened'[s] # t
      BY <1>2, <2>1, <3>1, OpenedClaims
    <3> QED
      BY <2>1, <3>1, <3>2, <3>3
  <2>2. CASE tokens'[t] # tokens[t]
    <3>1. /\ addressee[t] = NoPerson /\ opened' = opened
          /\ tokens'[t].email = addressee'[t]
      BY <1>1, <1>2, <2>2 DEF TokensKept
    <3>2. \A s \in Sessions : opened[s] # t
      BY <1>0, <3>1 DEF LinkInv
    <3> QED
      BY <3>1, <3>2
  <2> QED
    BY <2>1, <2>2
<1>3. ASSUME NEW s \in Sessions, opened'[s] # NoToken
      PROVE  addressee'[opened'[s]] # NoPerson
  <2>1. CASE opened'[s] = opened[s]
    BY <1>0, <1>1, <1>3, <2>1 DEF LinkInv, HistoryKept
  <2>2. CASE opened'[s] # opened[s]
    BY <1>0, <1>1, <2>2, OpenedClaims DEF HistoryKept
  <2> QED
    BY <2>1, <2>2
<1>4. ASSUME NEW s \in Sessions, NEW o \in Sessions,
             opened'[s] # NoToken, opened'[s] = opened'[o]
      PROVE  s = o
  <2>1. CASE opened'[s] # opened[s]
    BY <1>4, <2>1, OpenedClaims
  <2>2. CASE opened'[o] # opened[o]
    BY <1>4, <2>2, OpenedClaims
  <2>3. CASE opened'[s] = opened[s] /\ opened'[o] = opened[o]
    BY <1>0, <1>4, <2>3 DEF LinkUsedOnce
  <2> QED
    BY <2>1, <2>2, <2>3
<1> QED
  BY <1>2, <1>3, <1>4 DEF LinkInv, LinkUsedOnce

-------------------------------------------------------------------------------
(* Verify requests.                                                            *)

\* A verify request that takes no step of its own is not disturbed by others.
LEMMA VerifyStays ==
  ASSUME Inv, Next, NEW v \in Verifies, vr'[v] = vr[v]
  PROVE  VerifyOK(v)'
<1>0. /\ addressee \in [Tokens -> People \cup {NoPerson}] /\ NoPerson \notin People
      /\ vr \in [Verifies -> Verify] /\ VerifyOK(v) /\ ClaimedOnce
  BY AccountsAssumption DEF Inv, TypeOK, AccountsAssumption, VerifyInv
<1>1. TokensKept /\ HistoryKept /\ UsersKept
  BY TokensStep, HistoryStep, UsersStepHolds, TableKept DEF Inv
<1>2. ASSUME Claims(v)
      PROVE  /\ vr[v].email \in People /\ addressee'[vr[v].tok] = vr[v].email
             /\ tokens'[vr[v].tok] = NoRow
             /\ \A s \in Sessions : opened'[s] # vr[v].tok
  <2>1. /\ vr[v].tok \in Tokens /\ vr[v].email \in People /\ addressee[vr[v].tok] = vr[v].email
        /\ tokens[vr[v].tok] = NoRow /\ \A s \in Sessions : opened[s] # vr[v].tok
    BY <1>0, <1>2 DEF VerifyOK, Claims
  <2>2. addressee'[vr[v].tok] = vr[v].email /\ tokens'[vr[v].tok] = NoRow
    BY <1>0, <1>1, <2>1 DEF HistoryKept, TokensKept
  <2>3. ASSUME NEW s \in Sessions, opened'[s] = vr[v].tok PROVE FALSE
    <3>1. PICK w \in Verifies : vr[w].pc = "session" /\ vr'[w] = NoVerify /\ opened'[s] = vr[w].tok
      BY <2>1, <2>3, OpenedClaims
    <3>2. Claims(w)
      BY <3>1 DEF Claims
    <3>3. w = v
      BY <1>0, <1>2, <2>3, <3>1, <3>2 DEF ClaimedOnce
    <3> QED
      BY <3>1, <3>3 DEF NoVerify
  <2> QED
    BY <2>1, <2>2, <2>3
<1>3. ASSUME vr[v].pc = "session"
      PROVE  /\ vr[v].uid \in 1 .. lastId'
             /\ users'[vr[v].uid] # NoRow => users'[vr[v].uid] = vr[v].email
  <2>1. lastId \in 0 .. MaxUsers /\ MaxUsers \in Nat /\ lastId <= lastId' /\ lastId' \in 0 .. MaxUsers
    BY <1>1, AccountsAssumption DEF Inv, TypeOK, AccountsAssumption, UsersKept
  <2>2. vr[v].uid \in 1 .. lastId /\ (Live(vr[v].uid) => users[vr[v].uid] = vr[v].email)
    BY <1>0, <1>3 DEF VerifyOK
  <2>3. vr[v].uid \in 1 .. lastId' /\ vr[v].uid \in UserId /\ vr[v].uid <= lastId
    BY <2>1, <2>2 DEF UserId
  <2>4. users'[vr[v].uid] \in {users[vr[v].uid], NoRow}
    BY <1>1, <2>3 DEF UsersKept
  <2> QED
    BY <2>2, <2>3, <2>4 DEF Live
<1>4. vr[v].pc # "idle" => vr[v].tok \in Tokens
  BY <1>0 DEF VerifyOK
<1> QED
  BY <1>2, <1>3, <1>4 DEF VerifyOK, Claims, Live

\* One request moves: what it becomes must fit, and its link must be its own.
LEMMA OneMoves ==
  ASSUME Inv, Next, NEW v \in Verifies, vr' = [vr EXCEPT ![v] = vr'[v]], VerifyOK(v)',
         Claims(v)' => (Claims(v) /\ vr'[v].tok = vr[v].tok) \/ tokens[vr'[v].tok] # NoRow
  PROVE  VerifyInv'
<1>0. vr \in [Verifies -> Verify] /\ ClaimedOnce
  BY DEF Inv, TypeOK, VerifyInv
<1>1. \A w \in Verifies : w # v => vr'[w] = vr[w]
  BY <1>0
<1>2. \A w \in Verifies : VerifyOK(w)'
  BY <1>1, VerifyStays
<1>3. ASSUME NEW w \in Verifies, w # v, Claims(w)', Claims(v)', vr'[w].tok = vr'[v].tok
      PROVE  FALSE
  <2>1. Claims(w) /\ vr'[w] = vr[w]
    BY <1>1, <1>3 DEF Claims
  <2>2. tokens[vr[w].tok] = NoRow
    BY <2>1 DEF Inv, VerifyInv, VerifyOK
  <2>3. Claims(v) /\ vr'[v].tok = vr[v].tok
    BY <1>3, <2>1, <2>2
  <2> QED
    BY <1>0, <1>3, <2>1, <2>3 DEF ClaimedOnce
<1>4. ASSUME NEW w \in Verifies, NEW x \in Verifies,
             Claims(w)', Claims(x)', vr'[w].tok = vr'[x].tok
      PROVE  w = x
  <2>1. CASE w = v \/ x = v
    BY <1>3, <1>4, <2>1
  <2>2. CASE w # v /\ x # v
    <3>1. vr'[w] = vr[w] /\ vr'[x] = vr[x]
      BY <1>1, <2>2
    <3>2. Claims(w) /\ Claims(x) /\ vr[w].tok = vr[x].tok
      BY <1>4, <3>1 DEF Claims
    <3> QED
      BY <1>0, <3>2 DEF ClaimedOnce
  <2> QED
    BY <2>1, <2>2
<1>5. ClaimedOnce'
  BY <1>4 DEF ClaimedOnce
<1> QED
  BY <1>2, <1>5 DEF VerifyInv

LEMMA VerifyInvStep ==
  ASSUME Inv, Next
  PROVE  VerifyInv'
<1>0. /\ vr \in [Verifies -> Verify] /\ users \in [UserId -> People \cup {NoRow}]
      /\ lastId \in 0 .. MaxUsers /\ MaxUsers \in Nat /\ NoRow \notin People
      /\ \A v \in Verifies : VerifyOK(v)
  BY AccountsAssumption DEF Inv, TypeOK, AccountsAssumption, VerifyInv
<1>1. TokensKept /\ HistoryKept /\ UsersKept
  BY TokensStep, HistoryStep, UsersStepHolds, TableKept DEF Inv
<1>2. ASSUME NEW v \in Verifies, NEW t \in Tokens, OpenLink(v, t) PROVE VerifyInv'
  <2>1. vr' = [vr EXCEPT ![v] = vr'[v]] /\ vr'[v].pc = "consume" /\ vr'[v].tok = t
    BY <1>0, <1>2 DEF OpenLink, NoVerify
  <2>2. VerifyOK(v)' /\ ~Claims(v)'
    BY <2>1 DEF VerifyOK, Claims
  <2> QED
    BY <2>1, <2>2, OneMoves
<1>3. ASSUME NEW v \in Verifies, Consumed(v), ConsumeToken(v) PROVE VerifyInv'
  <2> DEFINE t == vr[v].tok
  <2>1. /\ t \in Tokens /\ tokens[t] # NoRow /\ tokens'[t] = NoRow /\ opened' = opened
        /\ addressee' = addressee /\ tokens[t] \in TokenRow
    <3>1. t \in Tokens /\ tokens[t] # NoRow
      BY <1>0, <1>3 DEF Consumed, VerifyOK
    <3> QED
      BY <1>3, <3>1 DEF Consumed, ConsumeToken, hist, Inv, TypeOK
  <2>2. /\ tokens[t].email = addressee[t] /\ tokens[t].email \in People
        /\ \A s \in Sessions : opened[s] # t
    BY <2>1 DEF Inv, LinkInv, TokenRow
  <2>3. /\ vr' = [vr EXCEPT ![v] = vr'[v]] /\ vr'[v].pc = "lookup" /\ vr'[v].tok = t
        /\ vr'[v].email = tokens[t].email
    BY <1>3 DEF Consumed, Moved
  <2>4. VerifyOK(v)'
    BY <2>1, <2>2, <2>3 DEF VerifyOK
  <2> QED
    BY <2>1, <2>3, <2>4, OneMoves
<1>4. ASSUME NEW v \in Verifies, NEW pc \in {"create", "session"}, NEW uid,
             Claims(v), Moved(v, pc, vr[v].email, uid),
             pc = "session" => uid \in 1 .. lastId' /\ (users'[uid] # NoRow => users'[uid] = vr[v].email),
             opened' = opened
      PROVE  VerifyInv'
  <2>1. /\ vr[v].tok \in Tokens /\ vr[v].email \in People /\ addressee[vr[v].tok] = vr[v].email
        /\ tokens[vr[v].tok] = NoRow /\ \A s \in Sessions : opened[s] # vr[v].tok
    BY <1>0, <1>4 DEF VerifyOK, Claims
  <2>2. addressee'[vr[v].tok] = vr[v].email /\ tokens'[vr[v].tok] = NoRow
    BY <1>1, <2>1, AccountsAssumption DEF HistoryKept, TokensKept, AccountsAssumption
  <2>3. /\ vr' = [vr EXCEPT ![v] = vr'[v]] /\ vr'[v].pc = pc /\ vr'[v].tok = vr[v].tok
        /\ vr'[v].email = vr[v].email /\ vr'[v].uid = uid
    BY <1>4 DEF Moved
  <2>4. VerifyOK(v)'
    BY <1>4, <2>1, <2>2, <2>3 DEF VerifyOK, Live
  <2> QED
    BY <1>4, <2>3, <2>4, OneMoves
<1>5. ASSUME NEW v \in Verifies, FoundNone(v) PROVE VerifyInv'
  BY <1>4, <1>5 DEF FoundNone, Claims
<1>6. ASSUME NEW v \in Verifies, NEW u \in UserId, FoundUser(v, u) PROVE VerifyInv'
  <2>1. Claims(v) /\ vr[v].email \in People /\ users[u] = vr[v].email
    BY <1>0, <1>6 DEF FoundUser, Claims, VerifyOK
  <2>2. u <= lastId
    <3>1. users[u] # NoRow
      BY <1>0, <2>1
    <3>2. ~(u > lastId)
      BY <3>1 DEF Inv, IdsInv
    <3> QED
      BY <1>0, <3>2 DEF UserId
  <2>3. u \in 1 .. lastId' /\ (users'[u] # NoRow => users'[u] = vr[v].email)
    BY <1>0, <1>1, <2>1, <2>2 DEF UsersKept, UserId
  <2> QED
    BY <1>4, <1>6, <2>1, <2>3 DEF FoundUser
<1>7. ASSUME NEW v \in Verifies, NEW u \in UserId, Created(v, u) PROVE VerifyInv'
  <2>1. Claims(v)
    BY <1>7 DEF Created, Claims
  <2>2. u \in 1 .. lastId' /\ users'[u] = vr[v].email
    BY <1>0, <1>7 DEF Created, UserId
  <2> QED
    BY <1>4, <1>7, <2>1, <2>2 DEF Created
<1>8. CASE Dropped
  <2>1. ASSUME NEW v \in Verifies PROVE VerifyOK(v)' /\ (Claims(v)' => vr'[v] = vr[v])
    <3>1. CASE vr'[v] = vr[v]
      BY <3>1, VerifyStays
    <3>2. CASE vr'[v] = NoVerify
      BY <3>2 DEF NoVerify, VerifyOK, Claims
    <3> QED
      BY <1>8, <3>1, <3>2 DEF Dropped
  <2>2. ClaimedOnce'
    BY <2>1 DEF Inv, VerifyInv, ClaimedOnce, Claims
  <2> QED
    BY <2>1, <2>2 DEF VerifyInv
<1> QED
  BY <1>2, <1>3, <1>5, <1>6, <1>7, <1>8, VerifyStepKinds

-------------------------------------------------------------------------------
(* Sessions and signed-in requests.                                            *)

LEMMA HolderKept ==
  ASSUME Inv, Next, NEW s \in Sessions, opened[s] # NoToken
  PROVE  opened'[s] # NoToken /\ Holder(s)' = Holder(s)
<1>1. HistoryKept /\ opened[s] \in Tokens /\ addressee[opened[s]] # NoPerson
  BY HistoryStep DEF Inv, TypeOK, LinkInv
<1> QED
  BY <1>1 DEF HistoryKept, Holder

\* When an account goes, so do its sessions.
LEMMA RowGone ==
  ASSUME Inv, Next, NEW u \in UserId, users[u] # NoRow, users'[u] = NoRow
  PROVE  \A s \in Sessions : sessions'[s] # NoRow => sessions'[s].uid # u
<1>0. users \in [UserId -> People \cup {NoRow}] /\ NoRow \notin People /\ NoSession \notin Sessions
  BY AccountsAssumption DEF Inv, TypeOK, AccountsAssumption
<1>1. ASSUME NEW q \in Requests, DeleteAccount(q)
      PROVE  \A s \in Sessions : sessions'[s] # NoRow => sessions'[s].uid # u
  <2>1. u = rq[q].uid
    BY <1>0, <1>1 DEF DeleteAccount
  <2> QED
    BY <1>0, <1>1, <2>1, WithoutIsEnded DEF DeleteAccount, hist
<1>2. ASSUME NEW v \in Verifies, CreateUser(v) PROVE FALSE
  <2>1. vr[v].email \in People
    BY <1>2 DEF CreateUser, Inv, VerifyInv, VerifyOK, Claims
  <2> QED
    BY <1>0, <1>2, <2>1 DEF CreateUser
<1>3. \/ \E v \in Verifies : CreateUser(v)
      \/ \E q \in Requests : DeleteAccount(q)
      \/ UNCHANGED users
  BY DEF Next, db, SendLink, CreateToken, OpenLink, VerifyStep, ConsumeToken, FindUser,
         FindUserFails, CreateSession, AbortVerify, LoadSession, RequestStep, LoadUser, Logout,
         CheckRevoke, DropSession, RevokeAll, AbortRequest, AdminRevokeSessions, Tick,
         CleanupTokens, CleanupSessions, Crash
<1> QED
  BY <1>1, <1>2, <1>3

LEMMA SessionInvStep ==
  ASSUME Inv, Next
  PROVE  SessionInv'
<1>0. /\ sessions \in [Sessions -> SessionRow \cup {NoRow}] /\ lastId \in 0 .. MaxUsers
      /\ opened \in [Sessions -> Tokens \cup {NoToken}] /\ NoToken \notin Tokens /\ MaxUsers \in Nat
  BY AccountsAssumption DEF Inv, TypeOK, AccountsAssumption
<1>1. UsersKept /\ HistoryKept
  BY HistoryStep, UsersStepHolds, TableKept DEF Inv
<1>2. ASSUME NEW s \in Sessions, sessions'[s] # NoRow, sessions'[s] = sessions[s]
      PROVE  SessionOK(s)'
  <2> DEFINE u == sessions[s].uid
  <2>1. opened[s] # NoToken /\ u <= lastId /\ users[u] # NoRow /\ users[u] = Holder(s)
    BY <1>2 DEF Inv, SessionInv, SessionOK, Live
  <2>2. u \in UserId
    BY <1>0, <1>2 DEF SessionRow
  <2>3. users'[u] = users[u]
    BY <1>1, <1>2, <2>1, <2>2, RowGone DEF UsersKept
  <2>4. u <= lastId'
    BY <1>0, <1>1, <2>1, <2>2 DEF UsersKept, UserId
  <2>5. opened'[s] # NoToken /\ Holder(s)' = Holder(s)
    BY <2>1, HolderKept
  <2> QED
    BY <1>2, <2>1, <2>3, <2>4, <2>5 DEF SessionOK, Live
<1>3. ASSUME NEW v \in Verifies, NEW o \in Sessions, CreateSession(v), Opened(v, o)
      PROVE  SessionOK(o)'
  <2>1. VerifyOK(v) /\ vr[v].pc = "session" /\ Claims(v)
    BY <1>3 DEF Opened, Claims, Inv, VerifyInv
  <2>2. /\ vr[v].tok \in Tokens /\ addressee[vr[v].tok] = vr[v].email
        /\ vr[v].uid \in 1 .. lastId /\ users[vr[v].uid] # NoRow /\ users[vr[v].uid] = vr[v].email
    BY <1>3, <2>1 DEF VerifyOK, Opened, Live
  <2>3. UNCHANGED <<users, lastId, addressee>>
    BY <1>3 DEF CreateSession
  <2>4. opened'[o] = vr[v].tok /\ sessions'[o] = [uid |-> vr[v].uid, exp |-> now + SessionTTL]
    BY <1>0, <1>3 DEF Opened
  <2>5. sessions'[o].uid = vr[v].uid /\ vr[v].uid <= lastId'
    BY <1>0, <2>2, <2>3, <2>4
  <2> QED
    BY <1>0, <2>2, <2>3, <2>4, <2>5 DEF SessionOK, Live, Holder
<1>4. ASSUME NEW s \in Sessions PROVE SessionOK(s)'
  <2>1. CASE sessions'[s] = NoRow
    BY <2>1 DEF SessionOK
  <2>2. CASE sessions'[s] # NoRow /\ sessions'[s] = sessions[s]
    BY <1>2, <2>2
  <2>3. CASE sessions'[s] # NoRow /\ sessions'[s] # sessions[s]
    <3>1. PICK v \in Verifies, o \in Sessions : CreateSession(v) /\ Opened(v, o)
      BY <2>3, SessionsStep DEF Ended, Inv
    <3>2. s = o
      BY <1>0, <2>3, <3>1 DEF Opened
    <3> QED
      BY <1>3, <3>1, <3>2
  <2> QED
    BY <2>1, <2>2, <2>3
<1> QED
  BY <1>4 DEF SessionInv

\* A signed-in request that takes no step of its own is not disturbed by others.
LEMMA RequestStays ==
  ASSUME Inv, Next, NEW q \in Requests, rq'[q] = rq[q]
  PROVE  RequestOK(q)'
<1> SUFFICES ASSUME rq[q].pc # "idle" PROVE RequestOK(q)'
  BY DEF RequestOK
<1>0. lastId \in 0 .. MaxUsers /\ MaxUsers \in Nat /\ UsersKept
  BY AccountsAssumption, UsersStepHolds, TableKept DEF Inv, TypeOK, AccountsAssumption
<1>1. RequestOK(q)
  BY DEF Inv, RequestInv
<1>2. /\ rq[q].sess \in Sessions /\ opened'[rq[q].sess] # NoToken
      /\ Holder(rq[q].sess)' = Holder(rq[q].sess)
  BY <1>1, HolderKept DEF RequestOK
<1>3. /\ rq[q].uid \in 1 .. lastId'
      /\ users'[rq[q].uid] # NoRow => users'[rq[q].uid] = Holder(rq[q].sess)
  <2>1. rq[q].uid \in 1 .. lastId /\ (users[rq[q].uid] # NoRow => users[rq[q].uid] = Holder(rq[q].sess))
    BY <1>1 DEF RequestOK, Live
  <2>2. rq[q].uid \in UserId /\ rq[q].uid <= lastId /\ rq[q].uid \in 1 .. lastId'
    BY <1>0, <2>1 DEF UserId, UsersKept
  <2>3. users'[rq[q].uid] \in {users[rq[q].uid], NoRow}
    BY <1>0, <2>2 DEF UsersKept
  <2> QED
    BY <2>1, <2>2, <2>3
<1>4. rq[q].pc = "drop" => /\ rq[q].target \in Sessions /\ opened'[rq[q].target] # NoToken
                           /\ Holder(rq[q].target)' = Holder(rq[q].sess)
  BY <1>1, HolderKept DEF RequestOK
<1>5. /\ rq[q].act \in Act
      /\ rq[q].act = "revoke" => rq[q].target \in Sessions
      /\ rq[q].pc \in Act => rq[q].pc = rq[q].act
  BY <1>1 DEF RequestOK
<1> QED
  BY <1>2, <1>3, <1>4, <1>5 DEF RequestOK, Live, Holder

LEMMA RequestInvStep ==
  ASSUME Inv, Next
  PROVE  RequestInv'
<1>0. /\ rq \in [Requests -> Request] /\ sessions \in [Sessions -> SessionRow \cup {NoRow}]
      /\ lastId \in 0 .. MaxUsers /\ MaxUsers \in Nat
      /\ \A q \in Requests : RequestOK(q)
  BY AccountsAssumption DEF Inv, TypeOK, AccountsAssumption, RequestInv
<1>1. ASSUME NEW q \in Requests, NEW s \in Sessions, NEW target \in Sessions, NEW act \in Act,
             LoadSession(q, s, act, target)
      PROVE  RequestInv'
  <2>1. /\ sessions[s] # NoRow /\ UNCHANGED <<users, lastId, addressee, opened>>
        /\ rq' = [rq EXCEPT ![q] = rq'[q]]
        /\ rq'[q].pc = "user" /\ rq'[q].act = act /\ rq'[q].sess = s
        /\ rq'[q].target = (IF act = "revoke" THEN target ELSE NoSession)
        /\ rq'[q].uid = sessions[s].uid
    BY <1>0, <1>1 DEF LoadSession, Accepted, db, hist
  <2>2. SessionOK(s) /\ sessions[s].uid \in 1 .. MaxUsers
    BY <1>0, <2>1 DEF Inv, SessionInv, SessionRow, UserId
  <2>3. /\ opened[s] # NoToken /\ sessions[s].uid \in 1 .. lastId
        /\ users[sessions[s].uid] = Holder(s)
    BY <1>0, <2>1, <2>2 DEF SessionOK
  <2>4. Holder(s)' = Holder(s)
    BY <2>1 DEF Holder
  <2>5. RequestOK(q)'
    <3>1. rq'[q].sess \in Sessions /\ opened'[rq'[q].sess] # NoToken /\ rq'[q].uid \in 1 .. lastId'
      BY <2>1, <2>3
    <3>2. users'[rq'[q].uid] = Holder(rq[q].sess)'
      BY <2>1, <2>3, <2>4 DEF Holder
    <3>3. rq'[q].act \in Act /\ (rq'[q].act = "revoke" => rq'[q].target \in Sessions)
      BY <2>1
    <3>4. rq'[q].pc \notin Act /\ rq'[q].pc # "drop"
      BY <2>1 DEF Act
    <3> QED
      BY <3>1, <3>2, <3>3, <3>4 DEF RequestOK
  <2>6. ASSUME NEW o \in Requests, o # q PROVE RequestOK(o)'
    BY <1>0, <2>1, <2>6, RequestStays
  <2> QED
    BY <2>5, <2>6 DEF RequestInv
<1>2. ASSUME NEW q \in Requests, LoadUser(q) PROVE RequestInv'
  <2>1. UNCHANGED <<users, lastId, addressee, opened>> /\ rq[q].pc = "user"
    BY <1>2 DEF LoadUser, db, hist
  <2>2. RequestOK(q) /\ rq[q].act \in Act
    BY <1>0, <2>1 DEF RequestOK
  <2>3. CASE rq' = [rq EXCEPT ![q] = NoRequest]
    <3>1. RequestOK(q)'
      BY <1>0, <2>3 DEF RequestOK, NoRequest
    <3>2. ASSUME NEW o \in Requests, o # q PROVE RequestOK(o)'
      BY <1>0, <2>3, <3>2, RequestStays
    <3> QED
      BY <3>1, <3>2 DEF RequestInv
  <2>4. CASE rq' = [rq EXCEPT ![q] = [@ EXCEPT !.pc = rq[q].act]]
    <3>1. /\ rq'[q].pc = rq[q].act /\ rq'[q].act = rq[q].act /\ rq'[q].sess = rq[q].sess
          /\ rq'[q].target = rq[q].target /\ rq'[q].uid = rq[q].uid
          /\ rq' = [rq EXCEPT ![q] = rq'[q]]
      BY <1>0, <2>4 DEF Request
    <3>2. rq'[q].pc # "drop"
      BY <2>2, <3>1 DEF Act
    <3>3. /\ rq[q].sess \in Sessions /\ opened[rq[q].sess] # NoToken /\ rq[q].uid \in 1 .. lastId
          /\ Live(rq[q].uid) => users[rq[q].uid] = Holder(rq[q].sess)
          /\ rq[q].act = "revoke" => rq[q].target \in Sessions
      BY <2>1, <2>2 DEF RequestOK
    <3>4. RequestOK(q)'
      BY <2>1, <2>2, <3>1, <3>2, <3>3 DEF RequestOK, Live, Holder
    <3>5. ASSUME NEW o \in Requests, o # q PROVE RequestOK(o)'
      BY <1>0, <3>1, <3>5, RequestStays
    <3> QED
      BY <3>4, <3>5 DEF RequestInv
  <2> QED
    BY <1>2, <2>3, <2>4 DEF LoadUser
<1>3. ASSUME NEW q \in Requests, CheckRevoke(q) PROVE RequestInv'
  <2>1. UNCHANGED <<users, lastId, addressee, opened>> /\ rq[q].pc = "revoke"
    BY <1>3 DEF CheckRevoke, db, hist
  <2>2. RequestOK(q) /\ rq[q].act = "revoke" /\ rq[q].target \in Sessions
    BY <1>0, <2>1 DEF RequestOK, Act
  <2>3. CASE rq' = [rq EXCEPT ![q] = NoRequest]
    <3>1. RequestOK(q)'
      BY <1>0, <2>3 DEF RequestOK, NoRequest
    <3>2. ASSUME NEW o \in Requests, o # q PROVE RequestOK(o)'
      BY <1>0, <2>3, <3>2, RequestStays
    <3> QED
      BY <3>1, <3>2 DEF RequestInv
  <2>4. CASE rq' # [rq EXCEPT ![q] = NoRequest]
    <3> DEFINE t == rq[q].target
    <3>1. /\ rq' = [rq EXCEPT ![q] = [@ EXCEPT !.pc = "drop"]]
          /\ sessions[t] # NoRow /\ sessions[t].uid = rq[q].uid
      BY <1>3, <2>4 DEF CheckRevoke
    <3>2. /\ rq'[q].pc = "drop" /\ rq'[q].act = rq[q].act /\ rq'[q].sess = rq[q].sess
          /\ rq'[q].target = t /\ rq'[q].uid = rq[q].uid
          /\ rq' = [rq EXCEPT ![q] = rq'[q]]
      BY <1>0, <3>1 DEF Request
    <3>3. opened[t] # NoToken /\ Live(rq[q].uid) /\ users[rq[q].uid] = Holder(t)
      BY <2>2, <3>1 DEF Inv, SessionInv, SessionOK
    <3>4. /\ rq[q].sess \in Sessions /\ opened[rq[q].sess] # NoToken /\ rq[q].uid \in 1 .. lastId
          /\ users[rq[q].uid] = Holder(rq[q].sess)
      BY <2>1, <2>2, <3>3 DEF RequestOK
    <3>5. rq'[q].pc \notin Act
      BY <3>2 DEF Act
    <3>6. RequestOK(q)'
      BY <2>1, <2>2, <3>2, <3>3, <3>4, <3>5 DEF RequestOK, Live, Holder, Act
    <3>7. ASSUME NEW o \in Requests, o # q PROVE RequestOK(o)'
      BY <1>0, <3>2, <3>7, RequestStays
    <3> QED
      BY <3>6, <3>7 DEF RequestInv
  <2> QED
    BY <2>3, <2>4
<1>4. ASSUME \A q \in Requests : rq'[q] \in {rq[q], NoRequest} PROVE RequestInv'
  <2>1. ASSUME NEW q \in Requests PROVE RequestOK(q)'
    <3>1. CASE rq'[q] = rq[q]
      BY <3>1, RequestStays
    <3>2. CASE rq'[q] = NoRequest
      BY <3>2 DEF RequestOK, NoRequest
    <3> QED
      BY <1>4, <3>1, <3>2
  <2> QED
    BY <2>1 DEF RequestInv
<1>5. \/ \E q \in Requests, s, target \in Sessions, act \in Act : LoadSession(q, s, act, target)
      \/ \E q \in Requests : LoadUser(q) \/ CheckRevoke(q)
      \/ \E q \in Requests : End(q)
      \/ Crash \/ rq' = rq
  BY DEF Next, SendLink, CreateToken, OpenLink, VerifyStep, ConsumeToken, FindUser,
         FindUserFails, CreateUser, CreateSession, AbortVerify, RequestStep, Logout,
         DropSession, RevokeAll, DeleteAccount, AbortRequest, AdminRevokeSessions, Tick,
         CleanupTokens, CleanupSessions
<1>6. CASE (\E q \in Requests : End(q)) \/ Crash \/ rq' = rq
  BY <1>0, <1>4, <1>6 DEF End, Crash
<1> QED
  BY <1>1, <1>2, <1>3, <1>5, <1>6

-------------------------------------------------------------------------------
(* The theorems.                                                               *)

LEMMA InvInit == Init => Inv
<1> SUFFICES ASSUME Init PROVE Inv
  OBVIOUS
<1>0. AccountsAssumption /\ NoVerify \in Verify /\ NoRequest \in Request
  BY AccountsAssumption DEF AccountsAssumption, NoVerify, Verify, NoRequest, Request
<1>1. TypeOK
  BY <1>0 DEF Init, TypeOK, AccountsAssumption, Time
<1>2. IdsInv /\ OneAccountPerAddress
  BY DEF Init, IdsInv, OneAccountPerAddress, Live
<1>3. LinkInv /\ LinkUsedOnce
  BY DEF Init, LinkInv, LinkUsedOnce
<1>4. VerifyInv
  BY DEF Init, VerifyInv, ClaimedOnce, VerifyOK, Claims, NoVerify
<1>5. SessionInv
  BY DEF Init, SessionInv, SessionOK
<1>6. RequestInv
  BY DEF Init, RequestInv, RequestOK, NoRequest
<1> QED
  BY <1>1, <1>2, <1>3, <1>4, <1>5, <1>6 DEF Inv

LEMMA InvStep == Inv /\ [Next]_vars => Inv'
<1> SUFFICES ASSUME Inv, [Next]_vars PROVE Inv'
  OBVIOUS
<1>1. CASE Next
  BY <1>1, TypeStep, UsersStepHolds, TableKept, LinkStep, VerifyInvStep, SessionInvStep,
     RequestInvStep DEF Inv
<1>2. CASE UNCHANGED vars
  <2>1. UNCHANGED <<users, lastId, tokens, sessions, now, vr, rq, mail, faults, addressee, opened>>
    BY <1>2 DEF vars, db, hist
  <2>2. TypeOK' /\ IdsInv' /\ OneAccountPerAddress' /\ LinkInv' /\ LinkUsedOnce'
    BY <2>1 DEF Inv, TypeOK, IdsInv, OneAccountPerAddress, Live, LinkInv, LinkUsedOnce
  <2>3. VerifyInv'
    BY <2>1 DEF Inv, VerifyInv, ClaimedOnce, Claims, VerifyOK, Live
  <2>4. SessionInv' /\ RequestInv'
    BY <2>1 DEF Inv, SessionInv, SessionOK, RequestInv, RequestOK, Holder, Live
  <2> QED
    BY <2>2, <2>3, <2>4 DEF Inv
<1> QED
  BY <1>1, <1>2

LEMMA AlwaysInv == Spec => []Inv
  BY InvInit, InvStep, PTL DEF Spec

\* The tables, the requests and the clock keep their types.
THEOREM AccountsTypeCorrect == Spec => []TypeOK
  BY AlwaysInv, PTL DEF Inv

\* A link signs in at most once, however many times it is opened at once.
THEOREM LinkAlwaysUsedOnce == Spec => []LinkUsedOnce
  BY AlwaysInv, PTL DEF Inv

\* There is never a second account for an address.
THEOREM OneAccountAlways == Spec => []OneAccountPerAddress
  BY AlwaysInv, PTL DEF Inv

\* A session is on the account of the person whose link opened it.
THEOREM SessionAlwaysAddressees == Spec => []SessionIsAddressees
<1>1. Inv => SessionIsAddressees
  BY DEF Inv, SessionInv, SessionOK, SessionIsAddressees
<1> QED
  BY <1>1, AlwaysInv, PTL

\* A signed-in request acts for the holder of its session or on no account.
THEOREM AlwaysActsForHolder == Spec => []ActsForHolder
<1>1. Inv => ActsForHolder
  BY DEF Inv, RequestInv, RequestOK, ActsForHolder
<1> QED
  BY <1>1, AlwaysInv, PTL

\* A session of the account that a request works on is of the same person.
LEMMA SameHolder ==
  ASSUME Inv, NEW q \in Requests, rq[q].pc # "idle", NEW s \in Sessions,
         sessions[s] # NoRow, sessions[s].uid = rq[q].uid
  PROVE  Holder(s) = Holder(rq[q].sess)
  BY DEF Inv, SessionInv, SessionOK, RequestInv, RequestOK

\* No request ends another person's session.
THEOREM OthersAlwaysStaySignedIn == Spec => OthersStaySignedIn
<1>1. ASSUME Inv, NEW q \in Requests, RequestStep(q), NEW s \in Sessions,
             Holder(s) # Holder(rq[q].sess)
      PROVE  sessions'[s] = sessions[s]
  <2>0. /\ sessions \in [Sessions -> SessionRow \cup {NoRow}] /\ RequestOK(q)
        /\ NoSession \notin Sessions
    BY <1>1, AccountsAssumption DEF Inv, TypeOK, RequestInv, AccountsAssumption
  <2>1. CASE LoadUser(q) \/ CheckRevoke(q)
    BY <2>1 DEF LoadUser, CheckRevoke, db
  <2>2. CASE Logout(q)
    <3>1. s # rq[q].sess
      BY <1>1
    <3> QED
      BY <2>0, <2>2, <3>1 DEF Logout
  <2>3. CASE DropSession(q)
    <3>1. s # rq[q].target
      BY <1>1, <2>0, <2>3 DEF DropSession, RequestOK
    <3> QED
      BY <2>0, <2>3, <3>1 DEF DropSession
  <2>4. CASE RevokeAll(q) \/ DeleteAccount(q)
    <3>1. sessions[s] # NoRow => sessions[s].uid # rq[q].uid
      BY <1>1, <2>4, SameHolder DEF RevokeAll, DeleteAccount
    <3> QED
      BY <2>4, <3>1 DEF RevokeAll, DeleteAccount, WithoutSessionsOf
  <2> QED
    BY <1>1, <2>1, <2>2, <2>3, <2>4 DEF RequestStep
<1>2. Inv /\ [Next]_vars =>
        [\A q \in Requests : RequestStep(q) =>
           \A s \in Sessions : Holder(s) # Holder(rq[q].sess) => sessions[s]' = sessions[s]]_vars
  BY <1>1
<1> QED
  BY <1>2, AlwaysInv, PTL DEF Spec, OthersStaySignedIn

-------------------------------------------------------------------------------
(* The users table is a directory.                                             *)

\* Every step is a step of the directory, or invisible to it.
LEMMA DirectoryStep ==
  ASSUME Inv, [Next]_vars
  PROVE  [Dir!Next]_(Dir!table)
<1>1. CASE Next
  <2>1. ASSUME NEW u \in UserId, NEW p \in People, Added(u, p) PROVE Dir!Next
    BY <2>1 DEF Added, EmailTaken, Dir!Next, Dir!Add
  <2>2. ASSUME NEW u \in UserId, Gone(u) PROVE Dir!Next
    BY <2>2 DEF Gone, Dir!Next, Dir!Remove
  <2> QED
    BY <1>1, <2>1, <2>2, UsersStepHolds DEF UsersStep, Dir!table
<1>2. CASE UNCHANGED vars
  BY <1>2 DEF vars, db, Dir!table
<1> QED
  BY <1>1, <1>2

\* The users table is a directory: one row for an address, no id twice, no row
\* that changes hands.
THEOREM AlwaysADirectory == Spec => ImplementsDirectory
<1>1. Init => Dir!Init
  BY DEF Init, Dir!Init
<1>2. Inv /\ [Next]_vars => [Dir!Next]_(Dir!table)
  BY DirectoryStep
<1> QED
  BY <1>1, <1>2, AlwaysInv, PTL DEF Spec, ImplementsDirectory, Dir!Spec

-------------------------------------------------------------------------------
(* Signing in by mail implements the sign-in service.                          *)

\* What a link or a session may do in a step that neither sends, nor takes, nor opens.
LinkLapses(t) ==
  LinkOf(t)' = LinkOf(t) \/ (LinkOf(t) \in {"valid", "taken"} /\ LinkOf(t)' = "dead")

SessionLapses(s) ==
  SessionOf(s)' = SessionOf(s) \/ (SessionOf(s) = "open" /\ SessionOf(s)' = "closed")

\* The clock never goes back.
LEMMA ClockStep ==
  ASSUME TypeOK, Next
  PROVE  now \in Nat /\ now' \in Nat /\ now <= now'
<1>0. now \in Nat
  BY AccountsAssumption DEF TypeOK, Time, AccountsAssumption
<1>1. now' = now \/ now' = now + 1
  BY DEF Next, db, SendLink, CreateToken, OpenLink, VerifyStep, ConsumeToken, FindUser,
         FindUserFails, CreateUser, CreateSession, AbortVerify, LoadSession, RequestStep, LoadUser,
         Logout, CheckRevoke, DropSession, RevokeAll, DeleteAccount, AbortRequest,
         AdminRevokeSessions, Tick, CleanupTokens, CleanupSessions, Crash
<1> QED
  BY <1>0, <1>1

\* Rows expire at a time.
LEMMA ExpiresLater ==
  ASSUME TypeOK
  PROVE  /\ \A s \in Sessions : sessions[s] # NoRow => sessions[s].exp \in Nat
         /\ \A t \in Tokens : tokens[t] # NoRow => tokens[t].exp \in Nat
<1>1. ASSUME NEW s \in Sessions, sessions[s] # NoRow PROVE sessions[s].exp \in Nat
  BY <1>1, AccountsAssumption DEF TypeOK, SessionRow, AccountsAssumption
<1>2. ASSUME NEW t \in Tokens, tokens[t] # NoRow PROVE tokens[t].exp \in Nat
  BY <1>2, AccountsAssumption DEF TypeOK, TokenRow, AccountsAssumption
<1> QED
  BY <1>1, <1>2

\* A step that opens no session ends some: a session it keeps may have expired.
LEMMA EndedLapses ==
  ASSUME Inv, Next, Ended, NEW s \in Sessions
  PROVE  SessionLapses(s)
<1>1. /\ opened'[s] = opened[s] /\ sessions'[s] \in {sessions[s], NoRow}
      /\ now \in Nat /\ now' \in Nat /\ now <= now'
      /\ sessions[s] # NoRow => sessions[s].exp \in Nat
  BY ClockStep, ExpiresLater DEF Ended, Inv
<1>2. Accepted(s)' => Accepted(s)
  BY <1>1 DEF Accepted
<1>3. CASE opened[s] = NoToken
  BY <1>1, <1>3 DEF SessionLapses, SessionOf
<1>4. CASE opened[s] # NoToken
  BY <1>1, <1>2, <1>4 DEF SessionLapses, SessionOf
<1> QED
  BY <1>3, <1>4

\* A verify request that goes on or ends takes no link from another.
ClaimsKept ==
  \A t \in Tokens : (\E v \in Verifies : Claims(v)' /\ vr'[v].tok = t)
                      => \E v \in Verifies : Claims(v) /\ vr[v].tok = t

LEMMA GoesOn ==
  ASSUME TypeOK, NEW v \in Verifies, Claims(v), NEW pc, NEW email, NEW uid, Moved(v, pc, email, uid)
  PROVE  ClaimsKept
<1>0. vr \in [Verifies -> Verify]
  BY DEF TypeOK
<1>1. vr'[v].tok = vr[v].tok /\ \A w \in Verifies : w # v => vr'[w] = vr[w]
  BY <1>0 DEF Moved
<1> QED
  BY <1>1 DEF ClaimsKept, Claims

LEMMA ClaimsStep ==
  ASSUME Inv, Next
  PROVE  ClaimsKept \/ \E v \in Verifies : Consumed(v) /\ ConsumeToken(v)
<1>0. vr \in [Verifies -> Verify] /\ TypeOK
  BY DEF Inv, TypeOK
<1>1. ASSUME NEW v \in Verifies, NEW t \in Tokens, OpenLink(v, t) PROVE ClaimsKept
  <2>1. /\ vr'[v].pc = "consume" /\ \A w \in Verifies : w # v => vr'[w] = vr[w]
    BY <1>0, <1>1 DEF OpenLink, NoVerify
  <2> QED
    BY <2>1 DEF ClaimsKept, Claims
<1>2. ASSUME NEW v \in Verifies, FoundNone(v) PROVE ClaimsKept
  BY <1>0, <1>2, GoesOn DEF FoundNone, Claims
<1>3. ASSUME NEW v \in Verifies, NEW u \in UserId, FoundUser(v, u) \/ Created(v, u)
      PROVE  ClaimsKept
  BY <1>0, <1>3, GoesOn DEF FoundUser, Created, Claims
<1>4. CASE Dropped
  <2>1. ASSUME NEW v \in Verifies, Claims(v)' PROVE vr'[v] = vr[v]
    BY <1>4, <2>1 DEF Dropped, Claims, NoVerify
  <2> QED
    BY <2>1 DEF ClaimsKept, Claims
<1> QED
  BY <1>1, <1>2, <1>3, <1>4, VerifyStepKinds

\* A step that sends no link leaves the links' rows as they are or deletes them.
LinksKept == addressee' = addressee /\ \A t \in Tokens : tokens'[t] \in {tokens[t], NoRow}

LEMMA LinksStep ==
  ASSUME TypeOK, Next
  PROVE  LinksKept \/ \E t \in Tokens, p \in People : CreateToken(t, p)
<1>0. tokens \in [Tokens -> TokenRow \cup {NoRow}]
  BY DEF TypeOK
<1>1. ASSUME NEW v \in Verifies, ConsumeToken(v) PROVE LinksKept
  BY <1>0, <1>1 DEF ConsumeToken, LinksKept, hist
<1>2. CASE CleanupTokens
  BY <1>0, <1>2 DEF CleanupTokens, LinksKept, hist
<1>3. CASE UNCHANGED <<tokens, addressee>>
  BY <1>3 DEF LinksKept
<1>4. \/ \E t \in Tokens, p \in People : CreateToken(t, p)
      \/ \E v \in Verifies : ConsumeToken(v)
      \/ CleanupTokens \/ UNCHANGED <<tokens, addressee>>
  BY DEF Next, db, hist, SendLink, OpenLink, VerifyStep, FindUser, FindUserFails, CreateUser,
         CreateSession, AbortVerify, LoadSession, RequestStep, LoadUser, Logout, CheckRevoke,
         DropSession, RevokeAll, DeleteAccount, AbortRequest, AdminRevokeSessions, Tick,
         CleanupSessions, Crash
<1> QED
  BY <1>1, <1>2, <1>3, <1>4

\* A link that no request has claimed since, and that opened no session since, is
\* where it was or has lapsed.
LEMMA KeptLapses ==
  ASSUME Inv, Next, Ended, LinksKept, ClaimsKept, NEW t \in Tokens
  PROVE  LinkLapses(t)
<1>1. /\ addressee'[t] = addressee[t] /\ opened' = opened
      /\ tokens'[t] \in {tokens[t], NoRow}
      /\ (\E v \in Verifies : Claims(v)' /\ vr'[v].tok = t)
           => \E v \in Verifies : Claims(v) /\ vr[v].tok = t
      /\ now \in Nat /\ now' \in Nat /\ now <= now'
      /\ tokens[t] # NoRow => tokens[t].exp \in Nat
  BY ClockStep, ExpiresLater DEF Ended, LinksKept, ClaimsKept, Inv
<1>2. CASE addressee[t] = NoPerson \/ \E s \in Sessions : opened[s] = t
  BY <1>1, <1>2 DEF LinkLapses, LinkOf
<1>3. CASE /\ addressee[t] # NoPerson /\ \A s \in Sessions : opened[s] # t
           /\ \E v \in Verifies : Claims(v) /\ vr[v].tok = t
  <2>1. LinkOf(t) = "taken"
    BY <1>3 DEF LinkOf
  <2>2. tokens'[t] = NoRow
    BY <1>1, <1>3 DEF Inv, VerifyInv, VerifyOK
  <2>3. LinkOf(t)' \in {"taken", "dead"}
    BY <1>1, <1>3, <2>2 DEF LinkOf
  <2> QED
    BY <2>1, <2>3 DEF LinkLapses
<1>4. CASE /\ addressee[t] # NoPerson /\ \A s \in Sessions : opened[s] # t
           /\ ~ \E v \in Verifies : Claims(v) /\ vr[v].tok = t
  <2>1. LinkOf(t) = IF tokens[t] # NoRow /\ tokens[t].exp >= now THEN "valid" ELSE "dead"
    BY <1>4 DEF LinkOf
  <2>2. LinkOf(t)' = IF tokens'[t] # NoRow /\ tokens'[t].exp >= now' THEN "valid" ELSE "dead"
    BY <1>1, <1>4 DEF LinkOf
  <2>3. tokens'[t] # NoRow /\ tokens'[t].exp >= now' => tokens[t] # NoRow /\ tokens[t].exp >= now
    BY <1>1
  <2> QED
    BY <2>1, <2>2, <2>3 DEF LinkLapses
<1> QED
  BY <1>2, <1>3, <1>4

\* CreateToken sends a link.
LEMMA SendStep ==
  ASSUME Inv, Next, NEW t \in Tokens, NEW p \in People, CreateToken(t, p)
  PROVE  Mail!Send(t, p)
<1>0. /\ tokens \in [Tokens -> TokenRow \cup {NoRow}]
      /\ addressee \in [Tokens -> People \cup {NoPerson}]
      /\ opened \in [Sessions -> Tokens \cup {NoToken}] /\ NoToken \notin Tokens
      /\ NoPerson \notin People /\ NoRow \notin TokenRow /\ now \in Nat /\ TokenTTL \in Nat
      /\ MaxTime \in Nat /\ now \in 0 .. MaxTime
  BY ClockStep, AccountsAssumption DEF Inv, TypeOK, Time, AccountsAssumption
<1>1. /\ addressee[t] = NoPerson /\ addressee' = [addressee EXCEPT ![t] = p]
      /\ tokens' = [tokens EXCEPT ![t] = [email |-> p, exp |-> now + TokenTTL]]
      /\ UNCHANGED <<sessions, now, vr, opened>>
  BY DEF CreateToken
<1>2. \A s \in Sessions : opened[s] # t
  BY <1>0, <1>1 DEF Inv, LinkInv
<1>3. ~ \E v \in Verifies : Claims(v) /\ vr[v].tok = t
  BY <1>0, <1>1 DEF Inv, VerifyInv, VerifyOK
<1>4. LinkOf(t) = "new"
  BY <1>1 DEF LinkOf
<1>5. LinkOf(t)' = "valid"
  <2>1. tokens'[t] = [email |-> p, exp |-> now + TokenTTL] /\ addressee'[t] = p
    BY <1>0, <1>1
  <2>2. tokens'[t] \in TokenRow /\ tokens'[t].exp >= now
    BY <1>0, <2>1 DEF TokenRow
  <2>3. tokens'[t] # NoRow /\ addressee'[t] # NoPerson
    BY <1>0, <2>1, <2>2
  <2> QED
    BY <1>1, <1>2, <1>3, <2>2, <2>3 DEF LinkOf, Claims
<1>6. ASSUME NEW o \in Tokens, o # t PROVE LinkOf(o)' = LinkOf(o)
  <2>1. tokens'[o] = tokens[o] /\ addressee'[o] = addressee[o]
    BY <1>0, <1>1, <1>6
  <2> QED
    BY <1>1, <2>1 DEF LinkOf, Claims
<1>7. LinksNow' = [LinksNow EXCEPT ![t] = "valid"]
  BY <1>5, <1>6 DEF LinksNow
<1>8. SessionsNow' = SessionsNow
  BY <1>1 DEF SessionsNow, SessionOf, Accepted
<1> QED
  BY <1>1, <1>4, <1>7, <1>8 DEF Mail!Send, LinksNow

\* ConsumeToken takes a valid link; it was nobody's and opened nothing.
LEMMA TakeStep ==
  ASSUME Inv, NEW v \in Verifies, Consumed(v), ConsumeToken(v), NEW t \in Tokens, t = vr[v].tok
  PROVE  Mail!Take(t)
<1>0. /\ tokens \in [Tokens -> TokenRow \cup {NoRow}] /\ vr \in [Verifies -> Verify]
      /\ NoPerson \notin People
  BY AccountsAssumption DEF Inv, TypeOK, AccountsAssumption
<1>1. /\ vr[v].pc = "consume" /\ tokens[t] # NoRow
      /\ tokens' = [tokens EXCEPT ![t] = NoRow]
      /\ UNCHANGED <<sessions, now, addressee, opened>>
  BY DEF Consumed, ConsumeToken, hist
<1>2. /\ vr'[v].pc = "lookup" /\ vr'[v].tok = t
      /\ \A w \in Verifies : w # v => vr'[w] = vr[w]
  BY <1>0 DEF Consumed, Moved
<1>3. ~(tokens[t].exp < now)
  <2>1. ASSUME tokens[t].exp < now PROVE vr' = [vr EXCEPT ![v] = NoVerify]
    BY <1>1, <2>1 DEF ConsumeToken
  <2> QED
    BY <1>0, <1>2, <2>1 DEF NoVerify
<1>4. tokens[t].exp >= now
  BY <1>1, <1>3, ExpiresLater, AccountsAssumption DEF Inv, TypeOK, Time, AccountsAssumption
<1>5. /\ addressee[t] # NoPerson /\ \A s \in Sessions : opened[s] # t
      /\ ~ \E w \in Verifies : Claims(w) /\ vr[w].tok = t
  <2>1. tokens[t].email \in People
    BY <1>0, <1>1 DEF TokenRow
  <2> QED
    BY <1>0, <1>1, <2>1 DEF Inv, LinkInv, VerifyInv, VerifyOK
<1>6. LinkOf(t) = "valid"
  BY <1>1, <1>4, <1>5 DEF LinkOf
<1>7. LinkOf(t)' = "taken"
  BY <1>1, <1>2, <1>5 DEF LinkOf, Claims
<1>8. ASSUME NEW o \in Tokens, o # t PROVE LinkOf(o)' = LinkOf(o)
  <2>1. tokens'[o] = tokens[o]
    BY <1>0, <1>1, <1>8
  <2>2. (\E w \in Verifies : Claims(w)' /\ vr'[w].tok = o)
          <=> \E w \in Verifies : Claims(w) /\ vr[w].tok = o
    BY <1>1, <1>2, <1>8 DEF Claims
  <2> QED
    BY <1>1, <2>1, <2>2 DEF LinkOf
<1>9. LinksNow' = [LinksNow EXCEPT ![t] = "taken"]
  BY <1>7, <1>8 DEF LinksNow
<1>10. SessionsNow' = SessionsNow
  BY <1>1 DEF SessionsNow, SessionOf, Accepted
<1> QED
  BY <1>1, <1>6, <1>9, <1>10 DEF Mail!Take, LinksNow

\* CreateSession opens a session with the link its request took.
LEMMA OpenStep ==
  ASSUME Inv, Next, NEW v \in Verifies, NEW s \in Sessions, CreateSession(v), Opened(v, s),
         NEW t \in Tokens, t = vr[v].tok
  PROVE  Mail!Open(t, s)
<1>0. /\ sessions \in [Sessions -> SessionRow \cup {NoRow}] /\ vr \in [Verifies -> Verify]
      /\ opened \in [Sessions -> Tokens \cup {NoToken}]
      /\ NoPerson \notin People /\ NoToken \notin Tokens
  BY AccountsAssumption DEF Inv, TypeOK, AccountsAssumption
<1>1. /\ vr[v].pc = "session" /\ opened[s] = NoToken /\ opened' = [opened EXCEPT ![s] = t]
      /\ sessions' = [sessions EXCEPT ![s] = [uid |-> vr[v].uid, exp |-> now + SessionTTL]]
      /\ vr' = [vr EXCEPT ![v] = NoVerify] /\ UNCHANGED <<tokens, now, addressee>>
  BY DEF Opened, CreateSession
<1>2. /\ Claims(v) /\ addressee[t] # NoPerson
      /\ \A o \in Sessions : opened[o] # t
  BY <1>0, <1>1 DEF Inv, VerifyInv, VerifyOK, Claims
<1>3. LinkOf(t) = "taken"
  BY <1>2 DEF LinkOf
<1>4. opened'[s] = t /\ \A o \in Sessions : o # s => opened'[o] = opened[o]
  BY <1>0, <1>1
<1>5. LinkOf(t)' = "used"
  BY <1>1, <1>2, <1>4 DEF LinkOf
<1>6. ASSUME NEW o \in Tokens, o # t PROVE LinkOf(o)' = LinkOf(o)
  <2>1. (\E x \in Sessions : opened'[x] = o) <=> \E x \in Sessions : opened[x] = o
    BY <1>0, <1>1, <1>4, <1>6
  <2>2. vr'[v].pc = "idle" /\ \A w \in Verifies : w # v => vr'[w] = vr[w]
    BY <1>0, <1>1 DEF NoVerify
  <2>3. (\E w \in Verifies : Claims(w)' /\ vr'[w].tok = o)
          <=> \E w \in Verifies : Claims(w) /\ vr[w].tok = o
    BY <1>6, <2>2 DEF Claims
  <2> QED
    BY <1>1, <2>1, <2>3 DEF LinkOf
<1>7. LinksNow' = [LinksNow EXCEPT ![t] = "used"]
  BY <1>5, <1>6 DEF LinksNow
<1>8. SessionOf(s) = "none"
  BY <1>1 DEF SessionOf
<1>9. SessionOf(s)' = "open"
  <2>1. sessions'[s] = [uid |-> vr[v].uid, exp |-> now + SessionTTL]
    BY <1>0, <1>1
  <2>2. /\ now \in Nat /\ SessionTTL \in Nat /\ NoRow \notin SessionRow
        /\ sessions' \in [Sessions -> SessionRow \cup {NoRow}] /\ NoToken \notin Tokens
    BY ClockStep, SessionsTyped, AccountsAssumption DEF Inv, AccountsAssumption
  <2>3. sessions'[s].exp >= now'
    BY <1>1, <2>1, <2>2
  <2>4. sessions'[s] # NoRow
    <3>1. vr[v].uid \in UserId /\ now + SessionTTL \in 0 .. MaxTime + SessionTTL
      <4>1. /\ now \in 0 .. MaxTime /\ MaxTime \in Nat /\ MaxUsers \in Nat
            /\ lastId \in 0 .. MaxUsers
        BY AccountsAssumption DEF Inv, TypeOK, Time, AccountsAssumption
      <4>2. vr[v].uid \in 1 .. lastId
        BY <1>1 DEF Inv, VerifyInv, VerifyOK
      <4> QED
        BY <2>2, <4>1, <4>2 DEF UserId
    <3> QED
      BY <2>1, <2>2, <3>1 DEF SessionRow
  <2> QED
    BY <1>2, <1>4, <2>2, <2>3, <2>4 DEF SessionOf, Accepted
<1>10. ASSUME NEW o \in Sessions, o # s PROVE SessionOf(o)' = SessionOf(o)
  BY <1>0, <1>1, <1>4, <1>10 DEF SessionOf, Accepted
<1>11. SessionsNow' = [SessionsNow EXCEPT ![s] = "open"]
  BY <1>9, <1>10 DEF SessionsNow
<1> QED
  BY <1>1, <1>2, <1>3, <1>7, <1>8, <1>11 DEF Mail!Open, LinksNow, SessionsNow

\* Every other step lets links lapse and sessions close, if it does anything.
LEMMA LapseStep ==
  ASSUME Inv, Next, Ended, LinksKept, ClaimsKept
  PROVE  Mail!Lapse
<1>1. LinksNow' \in [Tokens -> Mail!LinkState] /\ SessionsNow' \in [Sessions -> Mail!SessionState]
  BY DEF LinksNow, SessionsNow, LinkOf, SessionOf, Mail!LinkState, Mail!SessionState
<1>2. \A t \in Tokens : LinkLapses(t)
  BY KeptLapses
<1>3. \A s \in Sessions : SessionLapses(s)
  BY EndedLapses
<1>4. addressee' = addressee /\ opened' = opened
  BY DEF LinksKept, Ended
<1> QED
  BY <1>1, <1>2, <1>3, <1>4 DEF Mail!Lapse, LinkLapses, SessionLapses, LinksNow, SessionsNow

\* Every step is a step of the sign-in service, or invisible to it.
LEMMA SignInStep ==
  ASSUME Inv, [Next]_vars
  PROVE  [Mail!Next]_(Mail!parts)
<1>1. ASSUME Next PROVE Mail!Next
  <2>1. ASSUME NEW t \in Tokens, NEW p \in People, CreateToken(t, p) PROVE Mail!Next
    BY <1>1, <2>1, SendStep DEF Mail!Next
  <2>2. ASSUME NEW v \in Verifies, Consumed(v), ConsumeToken(v) PROVE Mail!Next
    <3>1. vr[v].tok \in Tokens
      BY <2>2 DEF Consumed, Inv, VerifyInv, VerifyOK
    <3> QED
      BY <2>2, <3>1, TakeStep DEF Mail!Next
  <2>3. ASSUME NEW v \in Verifies, NEW s \in Sessions, CreateSession(v), Opened(v, s)
        PROVE Mail!Next
    <3>1. vr[v].tok \in Tokens
      BY <2>3 DEF Opened, Inv, VerifyInv, VerifyOK
    <3> QED
      BY <1>1, <2>3, <3>1, OpenStep DEF Mail!Next
  <2>4. CASE Ended /\ LinksKept /\ ClaimsKept
    BY <1>1, <2>4, LapseStep DEF Mail!Next
  <2> QED
    BY <1>1, <2>1, <2>2, <2>3, <2>4, SessionsStep, LinksStep, ClaimsStep DEF Inv
<1>2. ASSUME UNCHANGED vars PROVE UNCHANGED Mail!parts
  <2>1. UNCHANGED <<users, tokens, sessions, now, vr, addressee, opened>>
    BY <1>2 DEF vars, db, hist
  <2>2. LinksNow' = LinksNow
    BY <2>1 DEF LinksNow, LinkOf, Claims
  <2>3. SessionsNow' = SessionsNow
    BY <2>1 DEF SessionsNow, SessionOf, Accepted
  <2> QED
    BY <2>1, <2>2, <2>3 DEF Mail!parts
<1> QED
  BY <1>1, <1>2

\* Signing in by mail, with the clock, the cleanup jobs, aborted requests and
\* crashes, is the sign-in service of SignIn.
THEOREM AlwaysASignInService == Spec => ImplementsSignIn
<1>1. Init => Mail!Init
  <2> SUFFICES ASSUME Init PROVE Mail!Init
    OBVIOUS
  <2>1. \A t \in Tokens : LinkOf(t) = "new"
    BY DEF Init, LinkOf
  <2>2. \A s \in Sessions : SessionOf(s) = "none"
    BY DEF Init, SessionOf
  <2> QED
    BY <2>1, <2>2 DEF Init, Mail!Init, LinksNow, SessionsNow
<1>2. Inv /\ [Next]_vars => [Mail!Next]_(Mail!parts)
  BY SignInStep
<1> QED
  BY <1>1, <1>2, AlwaysInv, PTL DEF Spec, ImplementsSignIn, Mail!Spec
===============================================================================
