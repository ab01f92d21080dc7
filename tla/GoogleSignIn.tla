----------------------------- MODULE GoogleSignIn -----------------------------
(***************************************************************************)
(* Signing in with Google and linking a Google account: the callback       *)
(* handler with googleSignIn and googleLink, disconnecting, and the        *)
(* sign-ups and deletions they race with, on the users table. Each SQL     *)
(* statement is one atomic step. A person may have several addresses and   *)
(* several Google accounts, each with one of the addresses.                *)
(***************************************************************************)
EXTENDS Integers, FiniteSets

CONSTANTS
  Addresses,  \* e-mail addresses
  Gids,       \* Google accounts ("sub")
  Verified,   \* the Google accounts whose address Google has verified
  AddressOf,  \* AddressOf[g] : the address Google account g claims
  OwnerOf,    \* OwnerOf[a], OwnerOf[g] : the person whose address or account it is
  MaxUsers,   \* bound: rows ever inserted into users
  Callbacks,  \* callback requests in progress at the same time
  MaxFaults,  \* bound: aborted callbacks and crashes
  NoRow, NoGid

UserId == 1 .. MaxUsers

UserRow == [email : Addresses, gid : Gids \cup {NoGid}]

\* A callback whose profile has been fetched; pc names its next statement, uid
\* is the user it works on: in link mode the signed-in user of its context.
Callback ==
  [pc : {"idle", "link_find", "link_set", "find", "find_email", "create",
         "set", "reload", "set_new", "session"},
   gid : Gids \cup {NoGid}, uid : 0 .. MaxUsers]

ASSUME GoogleAssumption ==
  /\ MaxUsers \in Nat /\ MaxFaults \in Nat
  /\ Verified \subseteq Gids /\ AddressOf \in [Gids -> Addresses]
  /\ DOMAIN OwnerOf = Addresses \cup Gids
  /\ \A g \in Verified : OwnerOf[g] = OwnerOf[AddressOf[g]]
  /\ NoGid \notin Gids /\ NoRow \notin UserRow \cup Addresses

VARIABLES
  users,   \* table users: id -> row or NoRow
  lastId,  \* sqlite_sequence: the largest id ever given to a row
  cb,      \* the callback requests
  faults   \* faults so far

vars == <<users, lastId, cb, faults>>

Idle == [pc |-> "idle", gid |-> NoGid, uid |-> 0]

TypeOK ==
  /\ users \in [UserId -> UserRow \cup {NoRow}]
  /\ lastId \in 0 .. MaxUsers
  /\ cb \in [Callbacks -> Callback]
  /\ faults \in 0 .. MaxFaults

Init ==
  /\ users = [u \in UserId |-> NoRow] /\ lastId = 0
  /\ cb = [c \in Callbacks |-> Idle]
  /\ faults = 0

-------------------------------------------------------------------------------
(***************************************************************************)
(* The users table.                                                        *)
(***************************************************************************)
Live(u) == users[u] # NoRow

WithEmail(a)  == {u \in UserId : Live(u) /\ users[u].email = a}
WithGoogle(g) == {u \in UserId : Live(u) /\ users[u].gid = g}

\* A mutant: ids without AUTOINCREMENT, so that a deleted row's id comes back.
Mutant_NextId == 1 + Cardinality({u \in UserId : Live(u)})

\* INTEGER PRIMARY KEY AUTOINCREMENT: an id is never given out twice.
NextId == lastId + 1

\* INSERT INTO users; the caller has checked UNIQUE(email).
Insert(a) ==
  /\ NextId \in UserId /\ ~Live(NextId)
  /\ users' = [users EXCEPT ![NextId] = [email |-> a, gid |-> NoGid]]
  /\ lastId' = NextId

\* A mutant: no unique index on google_id.
Mutant_GoogleTaken(u, g) == u \in UserId /\ g \notin Gids

\* The partial unique index refuses to give g to row u: another row has it.
GoogleTaken(u, g) == Live(u) /\ WithGoogle(g) \ {u} # {}

\* A mutant: an upsert.
Mutant_WithGid(u, g) ==
  [users EXCEPT ![u] = IF @ = NoRow THEN [gid |-> g] ELSE [@ EXCEPT !.gid = g]]

\* UPDATE users SET google_id = g WHERE id = u: no row is no error, and the
\* account's other Google account is replaced.
WithGid(u, g) ==
  [users EXCEPT ![u] = IF @ = NoRow THEN NoRow ELSE [@ EXCEPT !.gid = g]]

-------------------------------------------------------------------------------
(***************************************************************************)
(* What else happens to accounts.                                          *)
(***************************************************************************)

\* Signing up by magic link.
SignUp(a) ==
  /\ WithEmail(a) = {} /\ Insert(a)
  /\ UNCHANGED <<cb, faults>>

DeleteAccount(u) ==
  /\ Live(u)
  /\ users' = [users EXCEPT ![u] = NoRow]
  /\ UNCHANGED <<lastId, cb, faults>>

\* HandleDisconnectGoogle: ClearUserGoogleID.
Disconnect(u) ==
  /\ Live(u)
  /\ users' = WithGid(u, NoGid)
  /\ UNCHANGED <<lastId, cb, faults>>

-------------------------------------------------------------------------------
(***************************************************************************)
(* HandleGoogleCallback, once state, code and profile are in order.        *)
(***************************************************************************)
Goto(c, pc) == cb' = [cb EXCEPT ![c].pc = pc]

\* The request ends, with or without an error page.
End(c) == cb' = [cb EXCEPT ![c] = Idle]

\* A mutant: any address will do.
Mutant_StartSignIn(c, g) ==
  /\ cb[c].pc = "idle"
  /\ cb' = [cb EXCEPT ![c] = [pc |-> "find", gid |-> g, uid |-> 0]]
  /\ UNCHANGED <<users, lastId, faults>>

\* Login mode, or link mode with a session that vanished. An unverified address
\* ends the request before any statement.
StartSignIn(c, g) ==
  /\ cb[c].pc = "idle" /\ g \in Verified
  /\ cb' = [cb EXCEPT ![c] = [pc |-> "find", gid |-> g, uid |-> 0]]
  /\ UNCHANGED <<users, lastId, faults>>

\* Link mode, for the user LoadUser found. A person signed in to one account
\* picks any Google account of theirs on the consent screen.
StartLink(c, g, u) ==
  /\ cb[c].pc = "idle" /\ g \in Verified
  /\ Live(u) /\ OwnerOf[users[u].email] = OwnerOf[g]
  /\ cb' = [cb EXCEPT ![c] = [pc |-> "link_find", gid |-> g, uid |-> u]]
  /\ UNCHANGED <<users, lastId, faults>>

\* googleLink's UserByGoogleID: an account that has the Google account ends the
\* request, with an error if it is another one.
LinkFind(c) ==
  /\ cb[c].pc = "link_find"
  /\ IF WithGoogle(cb[c].gid) = {} THEN Goto(c, "link_set") ELSE End(c)
  /\ UNCHANGED <<users, lastId, faults>>

\* googleLink's SetUserGoogleID.
LinkSet(c) ==
  /\ cb[c].pc = "link_set"
  /\ users' = IF GoogleTaken(cb[c].uid, cb[c].gid) THEN users ELSE WithGid(cb[c].uid, cb[c].gid)
  /\ End(c)
  /\ UNCHANGED <<lastId, faults>>

\* Go on with user u in the next statement, if a query found one.
Found(c, us, pc, otherwise) ==
  \/ \E u \in us : cb' = [cb EXCEPT ![c].pc = pc, ![c].uid = u]
  \/ us = {} /\ Goto(c, otherwise)

\* googleSignIn's UserByGoogleID.
FindGoogle(c) ==
  /\ cb[c].pc = "find"
  /\ Found(c, WithGoogle(cb[c].gid), "session", "find_email")
  /\ UNCHANGED <<users, lastId, faults>>

\* googleSignIn's UserByEmail.
FindEmail(c) ==
  /\ cb[c].pc = "find_email"
  /\ Found(c, WithEmail(AddressOf[cb[c].gid]), "set", "create")
  /\ UNCHANGED <<users, lastId, faults>>

\* googleSignIn's CreateUser, refused when the address has a row by now.
CreateUser(c) ==
  /\ cb[c].pc = "create"
  /\ LET a == AddressOf[cb[c].gid] IN
     \/ /\ WithEmail(a) # {}
        /\ End(c)
        /\ UNCHANGED <<users, lastId>>
     \/ /\ WithEmail(a) = {} /\ Insert(a)
        /\ cb' = [cb EXCEPT ![c].pc = "set_new", ![c].uid = NextId]
  /\ UNCHANGED faults

\* googleSignIn's SetUserGoogleID, on a row found by its address or just made.
SetGoogle(c) ==
  /\ cb[c].pc \in {"set", "set_new"}
  /\ LET u == cb[c].uid
         g == cb[c].gid
     IN \/ /\ GoogleTaken(u, g)
           /\ End(c)
           /\ UNCHANGED users
        \/ /\ ~GoogleTaken(u, g)
           /\ users' = WithGid(u, g)
           /\ Goto(c, IF cb[c].pc = "set" THEN "reload" ELSE "session")
  /\ UNCHANGED <<lastId, faults>>

\* googleSignIn's UserByID.
Reload(c) ==
  /\ cb[c].pc = "reload"
  /\ IF Live(cb[c].uid) THEN Goto(c, "session") ELSE End(c)
  /\ UNCHANGED <<users, lastId, faults>>

\* CreateSession, which its foreign key refuses for a deleted user. (What
\* becomes of the session is the matter of Accounts.)
CreateSession(c) ==
  /\ cb[c].pc = "session"
  /\ End(c)
  /\ UNCHANGED <<users, lastId, faults>>

FaultLeft == faults < MaxFaults /\ faults' = faults + 1

\* A canceled request or a failed statement.
Abort(c) ==
  /\ FaultLeft /\ cb[c].pc # "idle"
  /\ End(c)
  /\ UNCHANGED <<users, lastId>>

Crash ==
  /\ FaultLeft
  /\ cb' = [c \in Callbacks |-> Idle]
  /\ UNCHANGED <<users, lastId>>

CallbackStep(c) ==
  \/ LinkFind(c) \/ LinkSet(c) \/ FindGoogle(c) \/ FindEmail(c)
  \/ CreateUser(c) \/ SetGoogle(c) \/ Reload(c) \/ CreateSession(c)

Next ==
  \/ \E a \in Addresses : SignUp(a)
  \/ \E u \in UserId : DeleteAccount(u) \/ Disconnect(u)
  \/ \E c \in Callbacks, g \in Gids : StartSignIn(c, g) \/ \E u \in UserId : StartLink(c, g, u)
  \/ \E c \in Callbacks : CallbackStep(c) \/ Abort(c)
  \/ Crash

Spec == Init /\ [][Next]_vars

-------------------------------------------------------------------------------
(***************************************************************************)
(* Safety.                                                                 *)
(***************************************************************************)

\* The Google account on a row belongs to the person whose row it is, even if
\* the row's account was deleted, and its address signed up again, while a
\* callback was under way.
GoogleIsOwners ==
  \A u \in UserId :
    Live(u) /\ users[u].gid # NoGid => OwnerOf[users[u].gid] = OwnerOf[users[u].email]

\* A callback works for the person who owns its Google account: the row it is
\* about to link or to open a session on is that person's, or gone.
SignsInOwner ==
  \A c \in Callbacks :
    cb[c].uid # 0 /\ Live(cb[c].uid) => OwnerOf[users[cb[c].uid].email] = OwnerOf[cb[c].gid]

\* Callbacks of any mode at the same time never put a Google account on two
\* rows, so which account it signs in to is not a matter of chance.
OneAccountPerGoogle ==
  \A g \in Gids : \A u, w \in WithGoogle(g) : u = w

\* The users table, by the address a row holds.
HoldersNow == [u \in UserId |-> IF Live(u) THEN users[u].email ELSE NoRow]

Dir == INSTANCE Directory
         WITH Holders <- Addresses, Ids <- UserId, NoHolder <- NoRow,
              holder <- HoldersNow, last <- lastId

\* Whatever callbacks write into a row, however late, the users table is a
\* directory: a Google account put on a row never brings a deleted row back,
\* makes a second one for an address or changes a row's address.
ImplementsDirectory == Dir!Spec
===============================================================================
