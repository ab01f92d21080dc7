----------------------------- MODULE GoogleProofs -----------------------------
(***************************************************************************)
(* Theorems about GoogleSignIn, for every value of its constants.          *)
(***************************************************************************)
EXTENDS GoogleSignIn, TLAPS

\* Ids above lastId were never given to a row.
IdsInv == \A u \in UserId : u > lastId => users[u] = NoRow

\* A callback under way has a verified Google account and an id that was given
\* out, none only while it is still looking for one.
CallbackInv ==
  \A c \in Callbacks :
    /\ cb[c].pc # "idle" => cb[c].gid \in Verified
    /\ cb[c].uid <= lastId
    /\ cb[c].pc \in {"link_find", "link_set", "set", "set_new", "reload", "session"}
         => cb[c].uid # 0

Inv == TypeOK /\ IdsInv /\ CallbackInv /\ GoogleIsOwners /\ SignsInOwner /\ OneAccountPerGoogle

-------------------------------------------------------------------------------
(* What the statements on the table return and change.                         *)

\* An UPDATE of google_id keeps the table's type, which rows there are and their
\* addresses, and the google_id of every other row.
LEMMA WithGidEffect ==
  ASSUME TypeOK, NEW w \in UserId, NEW g \in Gids \cup {NoGid}
  PROVE  LET new == WithGid(w, g) IN
         /\ new \in [UserId -> UserRow \cup {NoRow}]
         /\ \A u \in UserId : new[u] = NoRow <=> users[u] = NoRow
         /\ \A u \in UserId : users[u] # NoRow =>
              /\ new[u].email = users[u].email
              /\ new[u].gid = IF u = w THEN g ELSE users[u].gid
<1> DEFINE new == WithGid(w, g)
<1>1. users \in [UserId -> UserRow \cup {NoRow}]
  BY DEF TypeOK
<1>2. NoRow \notin UserRow
  BY GoogleAssumption
<1>3. \A u \in UserId : new[u] = IF u = w /\ users[u] # NoRow THEN [users[u] EXCEPT !.gid = g] ELSE users[u]
  BY <1>1 DEF WithGid
<1>4. \A r \in UserRow : /\ [r EXCEPT !.gid = g] \in UserRow
                         /\ [r EXCEPT !.gid = g].email = r.email
                         /\ [r EXCEPT !.gid = g].gid = g
  BY DEF UserRow
<1>5. new \in [UserId -> UserRow \cup {NoRow}]
  BY <1>1, <1>3, <1>4 DEF WithGid
<1> QED
  BY <1>1, <1>2, <1>3, <1>4, <1>5

\* The initial state satisfies the invariant.
LEMMA InitInv == Init => Inv
<1> SUFFICES ASSUME Init PROVE Inv
  OBVIOUS
<1>1. Idle \in Callback
  BY GoogleAssumption DEF Idle, Callback
<1>2. \A u \in UserId : users[u] = NoRow
  BY DEF Init
<1>3. \A c \in Callbacks : cb[c] = Idle
  BY DEF Init
<1>4. TypeOK
  BY <1>1, GoogleAssumption DEF Init, TypeOK
<1>5. IdsInv /\ GoogleIsOwners /\ OneAccountPerGoogle
  BY <1>2 DEF IdsInv, GoogleIsOwners, OneAccountPerGoogle, WithGoogle, Live
<1>6. CallbackInv /\ SignsInOwner
  BY <1>3 DEF Init, CallbackInv, SignsInOwner, Idle
<1> QED
  BY <1>4, <1>5, <1>6 DEF Inv

-------------------------------------------------------------------------------
(* What a step can do to the table and to the callbacks.                       *)

\* One row is added, under a new id and without a Google account; or one goes;
\* or one gets another google_id, which no other row has and which is of the
\* row's owner.
Added(u, a) ==
  /\ u = lastId + 1 /\ u \in UserId
  /\ users' = [users EXCEPT ![u] = [email |-> a, gid |-> NoGid]]
  /\ lastId' = u

Gone(u) == users' = [users EXCEPT ![u] = NoRow] /\ lastId' = lastId

Linked(u, g) ==
  /\ users' = WithGid(u, g) /\ lastId' = lastId
  /\ g # NoGid => ~GoogleTaken(u, g)
  /\ g # NoGid /\ Live(u) => OwnerOf[users[u].email] = OwnerOf[g]

UsersStep ==
  \/ \E u \in UserId, a \in Addresses : Added(u, a)
  \/ \E u \in UserId : Gone(u)
  \/ \E u \in UserId, g \in Gids \cup {NoGid} : Linked(u, g)
  \/ UNCHANGED <<users, lastId>>

\* A callback record that the invariant allows on the next table.
Fits(r) ==
  /\ r \in Callback
  /\ r.pc # "idle" => r.gid \in Verified
  /\ r.uid <= lastId'
  /\ r.pc \in {"link_find", "link_set", "set", "set_new", "reload", "session"} => r.uid # 0
  /\ r.uid # 0 /\ users'[r.uid] # NoRow => OwnerOf[users'[r.uid].email] = OwnerOf[r.gid]

\* The table's own invariants follow from the way it changes.
LEMMA TableKept ==
  ASSUME Inv, UsersStep
  PROVE  /\ users' \in [UserId -> UserRow \cup {NoRow}] /\ lastId' \in 0 .. MaxUsers
         /\ lastId <= lastId'
         /\ IdsInv' /\ GoogleIsOwners' /\ OneAccountPerGoogle'
         /\ \A u \in UserId : u <= lastId /\ users'[u] # NoRow =>
              users[u] # NoRow /\ users'[u].email = users[u].email
<1> USE GoogleAssumption
<1>0. /\ users \in [UserId -> UserRow \cup {NoRow}] /\ lastId \in 0 .. MaxUsers
      /\ NoRow \notin UserRow /\ NoGid \notin Gids
  BY DEF Inv, TypeOK
<1>1. CASE \E u \in UserId, a \in Addresses : Added(u, a)
  <2>1. PICK u \in UserId, a \in Addresses : Added(u, a)
    BY <1>1
  <2> DEFINE r == [email |-> a, gid |-> NoGid]
  <2>2. r \in UserRow /\ r.email = a /\ r.gid = NoGid
    BY DEF UserRow
  <2>3. users' = [users EXCEPT ![u] = r] /\ lastId' = u /\ u = lastId + 1
    BY <2>1 DEF Added
  <2> HIDE DEF r
  <2>4. users' \in [UserId -> UserRow \cup {NoRow}] /\ lastId' \in 0 .. MaxUsers /\ lastId <= lastId'
    BY <1>0, <2>2, <2>3 DEF UserId
  <2>5. \A w \in UserId : users'[w] = IF w = u THEN r ELSE users[w]
    BY <1>0, <2>3
  <2>6. IdsInv'
    BY <1>0, <2>3, <2>5 DEF Inv, IdsInv, UserId
  <2>7. GoogleIsOwners'
    BY <2>2, <2>5 DEF Inv, GoogleIsOwners, Live
  <2>8. OneAccountPerGoogle'
    BY <1>0, <2>2, <2>5 DEF Inv, OneAccountPerGoogle, WithGoogle, Live
  <2>9. \A w \in UserId : w <= lastId /\ users'[w] # NoRow =>
              users[w] # NoRow /\ users'[w].email = users[w].email
    BY <1>0, <2>3, <2>5 DEF UserId
  <2> QED
    BY <2>4, <2>6, <2>7, <2>8, <2>9
<1>2. CASE \E u \in UserId : Gone(u)
  <2>1. PICK u \in UserId : Gone(u)
    BY <1>2
  <2>2. \A w \in UserId : users'[w] = IF w = u THEN NoRow ELSE users[w]
    BY <1>0, <2>1 DEF Gone
  <2>3. users' \in [UserId -> UserRow \cup {NoRow}] /\ lastId' = lastId
    BY <1>0, <2>1 DEF Gone
  <2>4. IdsInv' /\ GoogleIsOwners'
    BY <2>2, <2>3 DEF Inv, IdsInv, GoogleIsOwners, Live
  <2>5. OneAccountPerGoogle'
    BY <2>2 DEF Inv, OneAccountPerGoogle, WithGoogle, Live
  <2> QED
    BY <1>0, <2>2, <2>3, <2>4, <2>5
<1>3. CASE \E u \in UserId, g \in Gids \cup {NoGid} : Linked(u, g)
  <2>1. PICK w \in UserId, g \in Gids \cup {NoGid} : Linked(w, g)
    BY <1>3
  <2>2. /\ users' \in [UserId -> UserRow \cup {NoRow}]
        /\ \A u \in UserId : users'[u] = NoRow <=> users[u] = NoRow
        /\ \A u \in UserId : users[u] # NoRow =>
             /\ users'[u].email = users[u].email
             /\ users'[u].gid = IF u = w THEN g ELSE users[u].gid
    BY <2>1, WithGidEffect DEF Inv, Linked
  <2>3. lastId' = lastId
    BY <2>1 DEF Linked
  <2>4. IdsInv'
    BY <2>2, <2>3 DEF Inv, IdsInv
  <2>5. GoogleIsOwners'
    BY <2>1, <2>2 DEF Inv, GoogleIsOwners, Live, Linked
  <2>6. OneAccountPerGoogle'
    <3> SUFFICES ASSUME NEW h \in Gids, NEW u \in UserId, NEW v \in UserId, u # v,
                        users'[u] # NoRow, users'[u].gid = h, users'[v] # NoRow, users'[v].gid = h
                 PROVE  FALSE
      BY DEF OneAccountPerGoogle, WithGoogle, Live
    <3>1. users[u] # NoRow /\ users[v] # NoRow
      BY <2>2
    <3>2. CASE u # w /\ v # w
      BY <2>2, <3>1, <3>2 DEF Inv, OneAccountPerGoogle, WithGoogle, Live
    <3>3. CASE u = w
      BY <1>0, <2>1, <2>2, <3>1, <3>3 DEF Linked, GoogleTaken, WithGoogle, Live
    <3>4. CASE v = w
      BY <1>0, <2>1, <2>2, <3>1, <3>4 DEF Linked, GoogleTaken, WithGoogle, Live
    <3> QED
      BY <3>2, <3>3, <3>4
  <2> QED
    BY <1>0, <2>2, <2>3, <2>4, <2>5, <2>6
<1>4. CASE UNCHANGED <<users, lastId>>
  BY <1>0, <1>4 DEF Inv, IdsInv, GoogleIsOwners, OneAccountPerGoogle, WithGoogle, Live
<1> QED
  BY <1>1, <1>2, <1>3, <1>4 DEF UsersStep

\* A callback that the step leaves alone still fits the table.
LEMMA OthersFit ==
  ASSUME Inv, UsersStep, NEW c \in Callbacks
  PROVE  Fits(cb[c])
<1>1. cb[c] \in Callback
  BY DEF Inv, TypeOK
<1>2. cb[c].uid # 0 => cb[c].uid \in UserId
  BY <1>1, GoogleAssumption DEF Callback, UserId
<1>3. /\ lastId' \in 0 .. MaxUsers /\ lastId \in 0 .. MaxUsers /\ lastId <= lastId'
      /\ \A u \in UserId : u <= lastId /\ users'[u] # NoRow =>
              users[u] # NoRow /\ users'[u].email = users[u].email
  BY TableKept DEF Inv, TypeOK
<1>4. cb[c].uid \in 0 .. MaxUsers
  BY <1>1 DEF Callback
<1>5. cb[c].uid <= lastId'
  BY <1>3, <1>4, GoogleAssumption DEF Inv, CallbackInv
<1>6. cb[c].uid # 0 /\ users'[cb[c].uid] # NoRow => OwnerOf[users'[cb[c].uid].email] = OwnerOf[cb[c].gid]
  BY <1>2, <1>3 DEF Inv, CallbackInv, SignsInOwner, Live
<1> QED
  BY <1>1, <1>5, <1>6 DEF Fits, Inv, CallbackInv

\* If every callback fits the next table, the invariant holds again.
LEMMA AllFit ==
  ASSUME Inv, UsersStep, faults' \in 0 .. MaxFaults,
         cb' \in [Callbacks -> Callback], \A c \in Callbacks : Fits(cb'[c])
  PROVE  Inv'
<1>1. TypeOK' /\ IdsInv' /\ GoogleIsOwners' /\ OneAccountPerGoogle'
  BY TableKept DEF TypeOK
<1>2. CallbackInv' /\ SignsInOwner'
  BY DEF CallbackInv, SignsInOwner, Live, Fits
<1> QED
  BY <1>1, <1>2 DEF Inv

\* A step that changes one callback, into a record that fits.
LEMMA OneChanged ==
  ASSUME Inv, UsersStep, faults' \in 0 .. MaxFaults,
         NEW c \in Callbacks, NEW r, Fits(r), cb' = [cb EXCEPT ![c] = r]
  PROVE  Inv'
<1>1. cb \in [Callbacks -> Callback] /\ r \in Callback
  BY DEF Inv, TypeOK, Fits
<1>2. cb' \in [Callbacks -> Callback] /\ \A d \in Callbacks : cb'[d] = IF d = c THEN r ELSE cb[d]
  BY <1>1
<1>3. \A d \in Callbacks : Fits(cb[d])
  BY OthersFit
<1>4. \A d \in Callbacks : Fits(cb'[d])
  BY <1>2, <1>3
<1> QED
  BY <1>2, <1>4, AllFit

\* A step that changes no callback.
LEMMA NoneChanged ==
  ASSUME Inv, UsersStep, faults' \in 0 .. MaxFaults, cb' = cb
  PROVE  Inv'
<1>1. cb' \in [Callbacks -> Callback] /\ \A d \in Callbacks : Fits(cb'[d])
  BY OthersFit DEF Inv, TypeOK
<1> QED
  BY <1>1, AllFit

\* A callback that ends fits.
LEMMA IdleFits == ASSUME Inv, UsersStep PROVE Fits(Idle) /\ Idle \in Callback
<1>1. lastId' \in 0 .. MaxUsers
  BY TableKept
<1> QED
  BY <1>1, GoogleAssumption DEF Fits, Idle, Callback

\* So the invariant survives a callback's end.
LEMMA EndKeeps ==
  ASSUME Inv, UsersStep, faults' \in 0 .. MaxFaults, NEW c \in Callbacks, End(c)
  PROVE  Inv'
BY IdleFits, OneChanged DEF End

\* It survives a callback's move to a statement that needs no user, or for which
\* it has one.
LEMMA GotoKeeps ==
  ASSUME Inv, UsersStep, faults' \in 0 .. MaxFaults, NEW c \in Callbacks, cb[c].pc # "idle",
         NEW pc \in {"link_set", "find_email", "create", "reload", "session"}, Goto(c, pc),
         pc \in {"link_set", "reload", "session"} => cb[c].uid # 0
  PROVE  Inv'
<1> DEFINE r == [cb[c] EXCEPT !.pc = pc]
<1>1. cb[c] \in Callback /\ Fits(cb[c])
  BY OthersFit DEF Inv, TypeOK
<1>2. r \in Callback /\ r.pc = pc /\ r.gid = cb[c].gid /\ r.uid = cb[c].uid
  BY <1>1 DEF Callback
<1>3. cb' = [cb EXCEPT ![c] = r]
  BY DEF Goto
<1> HIDE DEF r
<1>4. Fits(r)
  BY <1>1, <1>2 DEF Fits
<1> QED
  BY <1>3, <1>4, OneChanged

\* It survives a query that finds a user u of the Google account's owner.
LEMMA FoundKeeps ==
  ASSUME Inv, UsersStep, faults' \in 0 .. MaxFaults, NEW c \in Callbacks, cb[c].pc # "idle",
         NEW pc \in {"session", "set", "set_new"}, NEW u \in UserId,
         cb' = [cb EXCEPT ![c].pc = pc, ![c].uid = u],
         u <= lastId', users'[u] # NoRow => OwnerOf[users'[u].email] = OwnerOf[cb[c].gid]
  PROVE  Inv'
<1> DEFINE r == [[cb[c] EXCEPT !.pc = pc] EXCEPT !.uid = u]
<1>1. cb \in [Callbacks -> Callback] /\ cb[c] \in Callback /\ cb[c].gid \in Verified
  BY DEF Inv, TypeOK, CallbackInv
<1>0. u \in 0 .. MaxUsers /\ u # 0
  BY GoogleAssumption DEF UserId
<1>2. r \in Callback /\ r.pc = pc /\ r.gid = cb[c].gid /\ r.uid = u
  BY <1>0, <1>1 DEF Callback
<1>3. cb' = [cb EXCEPT ![c] = r]
  BY <1>1
<1> HIDE DEF r
<1>4. Fits(r)
  BY <1>0, <1>1, <1>2 DEF Fits
<1> QED
  BY <1>3, <1>4, OneChanged

-------------------------------------------------------------------------------
(* The invariant is inductive.                                                 *)

\* Facts the steps share: a row's Google account is its owner's, a verified
\* account is its address's owner's, and a row that is there has an id in use.
LEMMA Owners ==
  ASSUME Inv
  PROVE  /\ \A g \in Verified : g \in Gids /\ g # NoGid /\ AddressOf[g] \in Addresses
         /\ \A g \in Verified : \A u \in WithGoogle(g) :
              u \in UserId /\ u <= lastId /\ OwnerOf[users[u].email] = OwnerOf[g]
         /\ \A g \in Verified : \A u \in WithEmail(AddressOf[g]) :
              u \in UserId /\ u <= lastId /\ OwnerOf[users[u].email] = OwnerOf[g]
         /\ \A u \in UserId : Live(u) => u <= lastId
<1>1. \A g \in Verified : /\ g \in Gids /\ g # NoGid /\ AddressOf[g] \in Addresses
                          /\ OwnerOf[g] = OwnerOf[AddressOf[g]]
  BY GoogleAssumption
<1>2. \A u \in UserId : Live(u) => u <= lastId
  BY GoogleAssumption DEF Inv, TypeOK, IdsInv, Live, UserId
<1> QED
  BY <1>1, <1>2 DEF Inv, GoogleIsOwners, WithGoogle, WithEmail

\* Signing up by magic link.
LEMMA SignUpKeeps ==
  ASSUME Inv, NEW a \in Addresses, SignUp(a)
  PROVE  Inv'
<1>1. faults' \in 0 .. MaxFaults /\ cb' = cb
  BY DEF Inv, TypeOK, SignUp
<1>2. UsersStep
  BY DEF SignUp, Insert, NextId, UsersStep, Added
<1> QED
  BY <1>1, <1>2, NoneChanged

\* Deleting an account and disconnecting Google.
LEMMA AccountPageKeeps ==
  ASSUME Inv, NEW u \in UserId, DeleteAccount(u) \/ Disconnect(u)
  PROVE  Inv'
<1>1. faults' \in 0 .. MaxFaults /\ cb' = cb
  BY DEF Inv, TypeOK, DeleteAccount, Disconnect
<1>2. Gone(u) \/ Linked(u, NoGid)
  BY DEF DeleteAccount, Disconnect, Gone, Linked
<1> QED
  BY <1>1, <1>2, NoneChanged DEF UsersStep

\* A callback begins, in either mode.
LEMMA StartKeeps ==
  ASSUME Inv, NEW c \in Callbacks, NEW g \in Gids,
         StartSignIn(c, g) \/ \E u \in UserId : StartLink(c, g, u)
  PROVE  Inv'
<1>1. UsersStep /\ faults' \in 0 .. MaxFaults /\ users' = users /\ lastId' = lastId /\ g \in Verified
  BY DEF Inv, TypeOK, StartSignIn, StartLink, UsersStep
<1>2. CASE StartSignIn(c, g)
  <2> DEFINE r == [pc |-> "find", gid |-> g, uid |-> 0]
  <2>1. r \in Callback /\ r.pc = "find" /\ r.gid = g /\ r.uid = 0
    BY GoogleAssumption DEF Callback
  <2>2. cb' = [cb EXCEPT ![c] = r]
    BY <1>2 DEF StartSignIn
  <2> HIDE DEF r
  <2>3. Fits(r)
    BY <1>1, <2>1, TableKept DEF Fits
  <2> QED
    BY <1>1, <2>2, <2>3, OneChanged
<1>3. CASE \E u \in UserId : StartLink(c, g, u)
  <2>1. PICK u \in UserId : StartLink(c, g, u)
    BY <1>3
  <2> DEFINE r == [pc |-> "link_find", gid |-> g, uid |-> u]
  <2>2. u \in 0 .. MaxUsers /\ u # 0
    BY GoogleAssumption DEF UserId
  <2>3. r \in Callback /\ r.pc = "link_find" /\ r.gid = g /\ r.uid = u
    BY <2>2 DEF Callback
  <2>4. cb' = [cb EXCEPT ![c] = r]
    BY <2>1 DEF StartLink
  <2>5. u <= lastId /\ OwnerOf[users[u].email] = OwnerOf[g]
    BY <2>1, Owners DEF StartLink
  <2> HIDE DEF r
  <2>6. Fits(r)
    BY <1>1, <2>2, <2>3, <2>5 DEF Fits
  <2> QED
    BY <1>1, <2>4, <2>6, OneChanged
<1> QED
  BY <1>2, <1>3

\* The statements that read: queries, and the insert of a session.
LEMMA QueriesKeep ==
  ASSUME Inv, NEW c \in Callbacks,
         LinkFind(c) \/ FindGoogle(c) \/ FindEmail(c) \/ Reload(c) \/ CreateSession(c)
  PROVE  Inv'
<1>1. UsersStep /\ faults' \in 0 .. MaxFaults /\ users' = users /\ lastId' = lastId
  BY DEF Inv, TypeOK, LinkFind, FindGoogle, FindEmail, Reload, CreateSession, UsersStep
<1>2. cb[c].pc # "idle" /\ cb[c].gid \in Verified
  BY DEF LinkFind, FindGoogle, FindEmail, Reload, CreateSession, Inv, CallbackInv
<1>3. CASE LinkFind(c) \/ Reload(c) \/ CreateSession(c)
  <2>1. cb[c].uid # 0
    BY <1>3 DEF LinkFind, Reload, CreateSession, Inv, CallbackInv
  <2>2. End(c) \/ Goto(c, "link_set") \/ Goto(c, "session")
    BY <1>3 DEF LinkFind, Reload, CreateSession
  <2> QED
    BY <1>1, <1>2, <2>1, <2>2, EndKeeps, GotoKeeps
<1>4. CASE FindGoogle(c)
  <2>1. CASE Goto(c, "find_email")
    BY <1>1, <1>2, <2>1, GotoKeeps
  <2>2. CASE \E u \in WithGoogle(cb[c].gid) : cb' = [cb EXCEPT ![c].pc = "session", ![c].uid = u]
    <3>1. PICK u \in WithGoogle(cb[c].gid) : cb' = [cb EXCEPT ![c].pc = "session", ![c].uid = u]
      BY <2>2
    <3>2. u \in UserId /\ u <= lastId' /\ OwnerOf[users'[u].email] = OwnerOf[cb[c].gid]
      BY <1>1, <1>2, Owners
    <3> QED
      BY <1>1, <1>2, <3>1, <3>2, FoundKeeps
  <2> QED
    BY <1>4, <2>1, <2>2 DEF FindGoogle, Found
<1>5. CASE FindEmail(c)
  <2>1. CASE Goto(c, "create")
    BY <1>1, <1>2, <2>1, GotoKeeps
  <2>2. CASE \E u \in WithEmail(AddressOf[cb[c].gid]) : cb' = [cb EXCEPT ![c].pc = "set", ![c].uid = u]
    <3>1. PICK u \in WithEmail(AddressOf[cb[c].gid]) : cb' = [cb EXCEPT ![c].pc = "set", ![c].uid = u]
      BY <2>2
    <3>2. u \in UserId /\ u <= lastId' /\ OwnerOf[users'[u].email] = OwnerOf[cb[c].gid]
      BY <1>1, <1>2, Owners
    <3> QED
      BY <1>1, <1>2, <3>1, <3>2, FoundKeeps
  <2> QED
    BY <1>5, <2>1, <2>2 DEF FindEmail, Found
<1> QED
  BY <1>3, <1>4, <1>5

\* The statement that makes a user.
LEMMA CreateUserKeeps ==
  ASSUME Inv, NEW c \in Callbacks, CreateUser(c)
  PROVE  Inv'
<1> DEFINE a == AddressOf[cb[c].gid]
<1>1. faults' \in 0 .. MaxFaults /\ cb[c].pc # "idle" /\ cb[c].gid \in Verified
  BY DEF CreateUser, Inv, TypeOK, CallbackInv
<1>2. a \in Addresses /\ OwnerOf[cb[c].gid] = OwnerOf[a]
  BY <1>1, GoogleAssumption
<1>3. CASE End(c) /\ UNCHANGED <<users, lastId>>
  BY <1>1, <1>3, EndKeeps DEF UsersStep
<1>4. CASE Insert(a) /\ cb' = [cb EXCEPT ![c].pc = "set_new", ![c].uid = NextId]
  <2>1. Added(NextId, a) /\ NextId \in UserId /\ NextId <= lastId'
    BY <1>4, GoogleAssumption DEF Insert, Added, NextId, UserId
  <2>2. UsersStep
    BY <1>2, <2>1 DEF UsersStep
  <2>3. users'[NextId] = [email |-> a, gid |-> NoGid]
    BY <2>1 DEF Added, Inv, TypeOK
  <2>4. OwnerOf[users'[NextId].email] = OwnerOf[cb[c].gid]
    BY <1>2, <2>3
  <2> QED
    BY <1>1, <1>4, <2>1, <2>2, <2>4, FoundKeeps
<1> QED
  BY <1>3, <1>4 DEF CreateUser

\* The statements that give a row a Google account.
LEMMA LinksKeep ==
  ASSUME Inv, NEW c \in Callbacks, LinkSet(c) \/ SetGoogle(c)
  PROVE  Inv'
<1> DEFINE u == cb[c].uid
           g == cb[c].gid
<1>1. /\ faults' \in 0 .. MaxFaults /\ cb[c].pc # "idle" /\ g \in Verified /\ u # 0
      /\ lastId' = lastId
  BY DEF LinkSet, SetGoogle, Inv, TypeOK, CallbackInv
<1>2. u \in UserId
  BY <1>1, GoogleAssumption DEF Inv, TypeOK, Callback, UserId
<1>3. CASE users' = users /\ End(c)
  BY <1>1, <1>3, EndKeeps DEF UsersStep
<1>4. CASE ~GoogleTaken(u, g) /\ users' = WithGid(u, g)
  <2>1. Live(u) => OwnerOf[users[u].email] = OwnerOf[g]
    BY <1>1 DEF Inv, SignsInOwner
  <2>2. g \in Gids \cup {NoGid} /\ Linked(u, g)
    BY <1>1, <1>4, <2>1, Owners DEF Linked
  <2>3. UsersStep
    BY <1>2, <2>2 DEF UsersStep
  <2>4. End(c) \/ Goto(c, "reload") \/ Goto(c, "session")
    BY DEF LinkSet, SetGoogle
  <2> QED
    BY <1>1, <2>3, <2>4, EndKeeps, GotoKeeps
<1> QED
  BY <1>3, <1>4 DEF LinkSet, SetGoogle

\* A request is aborted, or the process crashes.
LEMMA FaultsKeep ==
  ASSUME Inv, Crash \/ \E c \in Callbacks : Abort(c)
  PROVE  Inv'
<1>1. UsersStep /\ faults' \in 0 .. MaxFaults
  BY GoogleAssumption DEF Inv, TypeOK, Crash, Abort, FaultLeft, UsersStep
<1>2. CASE Crash
  <2>1. cb' = [c \in Callbacks |-> Idle]
    BY <1>2 DEF Crash
  <2> QED
    BY <1>1, <2>1, IdleFits, AllFit
<1>3. CASE \E c \in Callbacks : Abort(c)
  BY <1>1, <1>3, EndKeeps DEF Abort
<1> QED
  BY <1>2, <1>3

\* Every step preserves the invariant.
LEMMA NextInv == Inv /\ [Next]_vars => Inv'
<1> SUFFICES ASSUME Inv, [Next]_vars PROVE Inv'
  OBVIOUS
<1>1. CASE \E a \in Addresses : SignUp(a)
  BY <1>1, SignUpKeeps
<1>2. CASE \E u \in UserId : DeleteAccount(u) \/ Disconnect(u)
  BY <1>2, AccountPageKeeps
<1>3. CASE \E c \in Callbacks, g \in Gids : StartSignIn(c, g) \/ \E u \in UserId : StartLink(c, g, u)
  BY <1>3, StartKeeps
<1>4. CASE \E c \in Callbacks : CallbackStep(c)
  BY <1>4, QueriesKeep, CreateUserKeeps, LinksKeep DEF CallbackStep
<1>5. CASE Crash \/ \E c \in Callbacks : Abort(c)
  BY <1>5, FaultsKeep
<1>6. CASE UNCHANGED vars
  BY <1>6, NoneChanged DEF vars, UsersStep, Inv, TypeOK
<1> QED
  BY <1>1, <1>2, <1>3, <1>4, <1>5, <1>6 DEF Next

\* So it holds in every reachable state.
LEMMA Invariance == Spec => []Inv
BY InitInv, NextInv, PTL DEF Spec

-------------------------------------------------------------------------------
(* The results.                                                                *)

\* Every variable keeps its type.
THEOREM GoogleTypeCorrect == Spec => []TypeOK
<1>1. Inv => TypeOK
  BY DEF Inv
<1> QED
  BY <1>1, Invariance, PTL

\* Whoever signs up, disconnects, deletes an account or comes back meanwhile, the
\* Google account that googleSignIn or googleLink puts on a row is its owner's.
THEOREM GoogleAlwaysOwners == Spec => []GoogleIsOwners
<1>1. Inv => GoogleIsOwners
  BY DEF Inv
<1> QED
  BY <1>1, Invariance, PTL

\* The user a callback links or opens a session for is the Google account's
\* owner, in any number of callbacks at once.
THEOREM SignsInAlwaysOwner == Spec => []SignsInOwner
<1>1. Inv => SignsInOwner
  BY DEF Inv
<1> QED
  BY <1>1, Invariance, PTL

\* However lookups and updates of different callbacks interleave, a Google account
\* is on one row at most.
THEOREM OneAccountPerGoogleAlways == Spec => []OneAccountPerGoogle
<1>1. Inv => OneAccountPerGoogle
  BY DEF Inv
<1> QED
  BY <1>1, Invariance, PTL

-------------------------------------------------------------------------------
(* The users table is a directory.                                             *)

\* A row that is made is made for an address that has none.
LEMMA InsertAdds ==
  ASSUME Inv, NEW a \in Addresses, WithEmail(a) = {}, Insert(a)
  PROVE  Dir!Next
<1>0. /\ users \in [UserId -> UserRow \cup {NoRow}]
      /\ NoRow \notin UserRow /\ NoRow \notin Addresses
  BY GoogleAssumption DEF Inv, TypeOK
<1>1. /\ NextId = lastId + 1 /\ NextId \in UserId /\ lastId' = NextId
      /\ users' = [users EXCEPT ![NextId] = [email |-> a, gid |-> NoGid]]
  BY DEF Insert, NextId
<1> DEFINE r == [email |-> a, gid |-> NoGid]
<1>2. r \in UserRow /\ r # NoRow /\ r.email = a
  BY <1>0 DEF UserRow
<1>3. \A u \in UserId : users'[u] = IF u = NextId THEN r ELSE users[u]
  BY <1>0, <1>1
<1>4. \A u \in UserId : HoldersNow[u] # a
  BY <1>0 DEF WithEmail, HoldersNow, Live
<1> HIDE DEF r
<1>5. \A u \in UserId : HoldersNow'[u] = IF u = NextId THEN a ELSE HoldersNow[u]
  BY <1>2, <1>3 DEF HoldersNow, Live
<1>6. HoldersNow' = [HoldersNow EXCEPT ![lastId + 1] = a]
  BY <1>1, <1>5 DEF HoldersNow
<1>7. Dir!Add(a)
  BY <1>1, <1>4, <1>6 DEF Dir!Add
<1> QED
  BY <1>7 DEF Dir!Next

\* A google_id that is set or cleared is not seen in the directory.
LEMMA GidInvisible ==
  ASSUME Inv, NEW u \in UserId, NEW g \in Gids \cup {NoGid}, users' = WithGid(u, g), lastId' = lastId
  PROVE  UNCHANGED Dir!table
<1>0. users \in [UserId -> UserRow \cup {NoRow}] /\ NoRow \notin UserRow
  BY GoogleAssumption DEF Inv, TypeOK
<1>1. \A w \in UserId : users'[w] = IF w = u /\ users[w] # NoRow
                                    THEN [users[w] EXCEPT !.gid = g] ELSE users[w]
  BY <1>0 DEF WithGid
<1>2. ASSUME NEW w \in UserId, users[w] # NoRow
      PROVE  users'[w] # NoRow /\ users'[w].email = users[w].email
  <2>1. users[w] \in UserRow
    BY <1>0, <1>2
  <2>2. users'[w] \in UserRow /\ users'[w].email = users[w].email
    BY <1>1, <2>1 DEF UserRow
  <2> QED
    BY <1>0, <2>2
<1>3. \A w \in UserId : users[w] = NoRow => users'[w] = NoRow
  BY <1>1
<1>4. HoldersNow' = HoldersNow
  BY <1>2, <1>3 DEF HoldersNow, Live
<1> QED
  BY <1>4 DEF Dir!table

\* Every step is a step of the directory, or invisible to it.
LEMMA DirectoryStep ==
  ASSUME Inv, [Next]_vars
  PROVE  [Dir!Next]_(Dir!table)
<1>1. CASE \E a \in Addresses : SignUp(a)
  BY <1>1, InsertAdds DEF SignUp
<1>2. ASSUME NEW u \in UserId, DeleteAccount(u) PROVE [Dir!Next]_(Dir!table)
  <2>1. users \in [UserId -> UserRow \cup {NoRow}] /\ lastId' = lastId
        /\ users' = [users EXCEPT ![u] = NoRow]
    BY <1>2 DEF DeleteAccount, Inv, TypeOK
  <2>2. HoldersNow' = [HoldersNow EXCEPT ![u] = NoRow]
    BY <2>1 DEF HoldersNow, Live
  <2> QED
    BY <2>1, <2>2 DEF Dir!Next, Dir!Remove
<1>3. ASSUME NEW u \in UserId, Disconnect(u) PROVE [Dir!Next]_(Dir!table)
  BY <1>3, GidInvisible DEF Disconnect
<1>4. ASSUME NEW c \in Callbacks, CreateUser(c) PROVE [Dir!Next]_(Dir!table)
  <2>1. CASE UNCHANGED <<users, lastId>>
    BY <2>1 DEF Dir!table, HoldersNow, Live
  <2>2. CASE WithEmail(AddressOf[cb[c].gid]) = {} /\ Insert(AddressOf[cb[c].gid])
    <3>1. AddressOf[cb[c].gid] \in Addresses
      BY <1>4, GoogleAssumption DEF CreateUser, Inv, CallbackInv
    <3> QED
      BY <2>2, <3>1, InsertAdds
  <2> QED
    BY <1>4, <2>1, <2>2 DEF CreateUser
<1>5. ASSUME NEW c \in Callbacks, LinkSet(c) \/ SetGoogle(c) PROVE [Dir!Next]_(Dir!table)
  <2>1. /\ cb[c] \in Callback /\ cb[c].uid # 0 /\ cb[c].pc # "idle" /\ lastId' = lastId
        /\ users' \in {users, WithGid(cb[c].uid, cb[c].gid)}
    BY <1>5 DEF LinkSet, SetGoogle, Inv, TypeOK, CallbackInv
  <2>2. cb[c].uid \in UserId /\ cb[c].gid \in Gids \cup {NoGid}
    BY <2>1, GoogleAssumption DEF Callback, UserId
  <2>3. CASE users' = users
    BY <2>1, <2>3 DEF Dir!table, HoldersNow, Live
  <2> QED
    BY <2>1, <2>2, <2>3, GidInvisible
<1>6. CASE UNCHANGED <<users, lastId>>
  BY <1>6 DEF Dir!table, HoldersNow, Live
<1> QED
  BY <1>1, <1>2, <1>3, <1>4, <1>5, <1>6
  DEF Next, vars, StartSignIn, StartLink, CallbackStep, LinkFind, FindGoogle, FindEmail, Reload,
      CreateSession, Abort, Crash

\* The users table is a directory under any number of callbacks at once: one row
\* for an address, no id twice, no row that changes its address.
THEOREM GoogleKeepsDirectory == Spec => ImplementsDirectory
<1>1. Init => Dir!Init
  BY DEF Init, Dir!Init, HoldersNow, Live
<1>2. Inv /\ [Next]_vars => [Dir!Next]_(Dir!table)
  BY DirectoryStep
<1> QED
  BY <1>1, <1>2, Invariance, PTL DEF Spec, ImplementsDirectory, Dir!Spec
===============================================================================
