--------------------------- MODULE AccountsProofs ---------------------------
(***************************************************************************)
(* Proofs about Accounts, for every set of people, addresses and requests  *)
(* and every history of profiles at the identity provider.                 *)
(*                                                                         *)
(* The inductive invariant says of every request what it may rely on where *)
(* it is (Fits): before its insert it has no row; the row it is about to   *)
(* write belongs to the person it signed in, as one version of the         *)
(* profile; and a row it updates is that person's already.  Row locks keep *)
(* two updates of one row apart (OneWriterPerRow), and the unique          *)
(* constraints keep rows apart, the uncommitted ones too (RowsAreApart).   *)
(***************************************************************************)
EXTENDS Accounts, TLAPS

\* A row before create_unique_nebula_id.
DraftRow == [source : {"local_dev", "skybridge"}, person : Persons \cup {None},
             email : Emails \cup {None}, phone : Phones \cup {None},
             nebula : NebulaIds \cup {None}, name : Names \cup {None},
             password : Passwords \cup {"sentinel"}]

Request == [op : {None, "register", "login", "skybridge"},
            at : {"idle", "nebula", "fetch", "generate", "refetch", "find", "insert",
                  "update", "commit", "audit", "token", "done"},
            person : Persons \cup {None}, url : Nat, tries : Nat, version : Nat,
            id : Handlers \cup {None}, row : DraftRow \cup {None},
            proof : Passwords \cup {None, "sentinel"}]

TypeOK ==
    /\ users \in [Handlers -> User \cup {None}]
    /\ profiles \in [Persons -> Seq(Profile)]
    /\ handler \in [Handlers -> Request]
    /\ synced \in [Persons -> Nat]
    /\ overlapped \subseteq Persons

Asking == {"fetch", "refetch", "generate"}
Writing == {"insert", "update", "commit"}

\* User i is the person p, or a local account with the password that was proved.
Proven(i, p, proof) ==
    /\ i \in Rows
    /\ p # None => users[i].person = p
    /\ p = None => users[i].source = "local_dev" /\ users[i].password = proof

\* The profile of request k's person, at the version it fetched.
Fetched(k) ==
    /\ k.person \in Persons
    /\ k.version \in 1..Len(profiles[k.person])

\* The row that request k of handler h is about to write.
Ready(h, k) ==
    /\ k.row \in User
    /\ \/ /\ k.op = "register" /\ k.person = None /\ k.row.person = None
          /\ k.row.source = "local_dev" /\ k.row.password = k.proof
       \/ /\ k.op = "skybridge" /\ Fetched(k) /\ k.row.person = k.person
          /\ k.row.source = "skybridge"
          /\ IsProfile(k.row, profiles[k.person][k.version])
    /\ \/ k.id = h /\ users[h] = None /\ k.at # "update"
       \/ /\ k.id \in Rows /\ k.op = "skybridge" /\ k.at # "insert"
          /\ users[k.id].person = k.person /\ users[k.id].source = "skybridge"
          /\ users[k.id].password = k.row.password

\* What request k of handler h may rely on where it is.
Fits(h, k) ==
    /\ k.at \in {"idle", "nebula", "find"} \cup Asking => users[h] = None
    /\ k.at \in {"idle", "done"} => k.person = None
    /\ k.at = "nebula" => /\ k.op = "register" /\ k.person = None /\ k.row \in DraftRow
                          /\ k.row.person = None /\ k.row.source = "local_dev"
                          /\ k.row.password = k.proof
    /\ k.at \in Asking \cup {"find"} => k.op = "skybridge" /\ k.person \in Persons
    /\ k.at = "find" => Fetched(k) /\ profiles[k.person][k.version].nebula # None
    /\ k.at \in Writing => Ready(h, k)
    /\ k.at \in {"audit", "token"} => Proven(k.id, k.person, k.proof)

RequestsFit == \A h \in Handlers : Fits(h, handler[h])

RowsAreSynced ==
    /\ \A p \in Persons : profiles[p] # <<>> /\ synced[p] <= Len(profiles[p])
    /\ \A i \in Rows :
         /\ users[i].source = "local_dev" <=> users[i].person = None
         /\ users[i].person # None =>
              /\ synced[users[i].person] # 0
              /\ IsProfile(users[i], profiles[users[i].person][synced[users[i].person]])

OneWriterPerRow ==
    \A g, h \in Handlers :
        {handler[g].at, handler[h].at} \subseteq {"update", "commit"} /\ handler[g].id = handler[h].id
          => g = h

\* The unique constraints hold of the committed rows and of those to come.
RowsAreApart ==
    /\ \A i, j \in Rows : Collide(users[i], users[j]) => i = j
    /\ \A h \in Handlers : handler[h].at = "commit" =>
         /\ \A i \in Rows : Collide(handler[h].row, users[i]) => i = handler[h].id
         /\ \A g \in Handlers :
              handler[g].at = "commit" /\ Collide(handler[h].row, handler[g].row) => g = h

\* Without an overlap a person has one request, whose profile is no older than
\* the row.
OneSignIn ==
    \A h \in Handlers : handler[h].person # None /\ handler[h].person \notin overlapped =>
        /\ \A g \in Handlers : handler[g].person = handler[h].person => g = h
        /\ handler[h].at \in {"find"} \cup Writing => synced[handler[h].person] <= handler[h].version

TokensAreProven == \A t \in tokens : Proven(t.sub, t.person, t.proof)

IInv ==
    /\ TypeOK
    /\ RequestsFit
    /\ RowsAreSynced
    /\ OneWriterPerRow
    /\ RowsAreApart
    /\ OneSignIn
    /\ TokensAreProven

\* The identity provider keeps the versions it had.
Grown ==
    /\ profiles' \in [Persons -> Seq(Profile)]
    /\ \A p \in Persons :
         /\ Len(profiles[p]) <= Len(profiles'[p])
         /\ \A n \in 1..Len(profiles[p]) : profiles'[p][n] = profiles[p][n]

-----------------------------------------------------------------------------
\* The initial state: no rows, nothing in flight, one version of each profile.
LEMMA InitHolds == Init => IInv
<1> SUFFICES ASSUME Init PROVE IInv
  OBVIOUS
<1>1. \A p \in Persons : profiles[p] \in Seq(Profile) /\ Len(profiles[p]) = 1
  <2> SUFFICES ASSUME NEW p \in Persons
               PROVE  profiles[p] \in Seq(Profile) /\ Len(profiles[p]) = 1
    OBVIOUS
  <2>1. PICK e \in Editions : profiles[p] = <<e>>
    BY DEF Init
  <2> QED BY <2>1, RowsAssumption
<1>2. IdleHandler \in Request
  BY DEF IdleHandler, Request
<1>3. TypeOK
  BY <1>1, <1>2, RowsAssumption DEF Init, TypeOK
<1>4. Rows = {}
  BY DEF Init, Rows
<1>5. IdleHandler.at = "idle" /\ IdleHandler.person = None
  BY DEF IdleHandler
<1>6. RequestsFit
  BY <1>5 DEF Init, RequestsFit, Fits, Asking, Writing
<1>7. RowsAreSynced
  <2>1. \A p \in Persons : profiles[p] # <<>>
    <3> SUFFICES ASSUME NEW p \in Persons PROVE profiles[p] # <<>>
      OBVIOUS
    <3>1. Len(profiles[p]) > 0 /\ profiles[p] \in Seq(Profile)
      BY <1>1
    <3> QED BY <3>1
  <2>2. \A p \in Persons : 0 <= Len(profiles[p])
    BY <1>1
  <2> QED BY <1>4, <2>1, <2>2 DEF Init, RowsAreSynced
<1> QED
  BY <1>3, <1>4, <1>5, <1>6, <1>7 DEF Init, IInv, OneWriterPerRow, RowsAreApart, OneSignIn,
     TokensAreProven

\* A unique constraint does not care which row came first.
LEMMA CollideSymmetric == ASSUME NEW a, NEW b, Collide(a, b) PROVE Collide(b, a)
BY DEF Collide

\* New versions of profiles change nothing for requests and rows.
LEMMA GrowthIsHarmless ==
    ASSUME IInv, users' = users, synced' = synced, Grown
    PROVE  /\ \A g \in Handlers, k \in Request : Fits(g, k) => Fits(g, k)'
           /\ \A i, p, proof : Proven(i, p, proof)' <=> Proven(i, p, proof)
           /\ RowsAreSynced'
<1>1. Rows' = Rows
  BY DEF Rows
<1>2. \A i, p, proof : Proven(i, p, proof)' <=> Proven(i, p, proof)
  BY <1>1 DEF Proven
<1>3. \A p \in Persons : profiles[p] \in Seq(Profile) /\ profiles'[p] \in Seq(Profile)
                         /\ Len(profiles[p]) \in Nat /\ Len(profiles'[p]) \in Nat
                         /\ Len(profiles[p]) <= Len(profiles'[p])
  BY DEF IInv, TypeOK, Grown
<1>4. \A k \in Request : Fetched(k) =>
          Fetched(k)' /\ profiles'[k.person][k.version] = profiles[k.person][k.version]
  BY <1>3 DEF Fetched, Grown
<1>5. \A g \in Handlers, k \in Request : Ready(g, k) => Ready(g, k)'
  BY <1>1, <1>4 DEF Ready
<1>6. \A g \in Handlers, k \in Request : Fits(g, k) => Fits(g, k)'
  BY <1>2, <1>4, <1>5 DEF Fits
<1>7. RowsAreSynced'
  <2>1. \A p \in Persons : synced[p] \in Nat /\ synced[p] <= Len(profiles[p]) /\ profiles[p] # <<>>
    BY DEF IInv, TypeOK, RowsAreSynced
  <2>2. \A p \in Persons : profiles'[p] # <<>> /\ synced[p] <= Len(profiles'[p])
    <3> SUFFICES ASSUME NEW p \in Persons PROVE profiles'[p] # <<>> /\ synced[p] <= Len(profiles'[p])
      OBVIOUS
    <3>1. Len(profiles[p]) > 0
      BY <1>3, <2>1
    <3>2. Len(profiles'[p]) > 0
      BY <1>3, <3>1
    <3> QED BY <1>3, <2>1, <3>2
  <2>3. \A p \in Persons : synced[p] # 0 => profiles'[p][synced[p]] = profiles[p][synced[p]]
    BY <1>3, <2>1 DEF Grown
  <2>4. \A i \in Rows : users[i].person \in Persons \cup {None}
    BY DEF Rows, IInv, TypeOK, User
  <2> QED BY <1>1, <2>2, <2>3, <2>4 DEF IInv, RowsAreSynced
<1> QED BY <1>2, <1>6, <1>7

\* One request moves and the users table stays: the invariant holds as soon as
\* the request's new place is justified.
LEMMA RequestStep ==
    ASSUME IInv, NEW h \in Handlers, NEW k \in Request,
           handler' = [handler EXCEPT ![h] = k],
           users' = users, synced' = synced, Grown,
           overlapped \subseteq overlapped', overlapped' \subseteq Persons,
           Fits(h, k),
           \A t \in tokens' : Proven(t.sub, t.person, t.proof),
           k.at \in {"update", "commit"} =>
               \A g \in Handlers \ {h} : handler[g].at \in {"update", "commit"} => handler[g].id # k.id,
           k.at = "commit" =>
               /\ \A i \in Rows : Collide(k.row, users[i]) => i = k.id
               /\ \A g \in Handlers \ {h} : handler[g].at = "commit" => ~ Collide(k.row, handler[g].row),
           k.person # None /\ k.person \notin overlapped' =>
               /\ \A g \in Handlers \ {h} : handler[g].person # k.person
               /\ k.at \in {"find"} \cup Writing => synced[k.person] <= k.version
    PROVE  IInv'
<1>1. /\ handler'[h] = k
      /\ \A g \in Handlers : g # h => handler'[g] = handler[g]
      /\ handler' \in [Handlers -> Request]
      /\ Rows' = Rows
  BY DEF IInv, TypeOK, Rows
<1>2. TypeOK'
  BY <1>1 DEF IInv, TypeOK, Grown
<1>3. /\ \A g \in Handlers, j \in Request : Fits(g, j) => Fits(g, j)'
      /\ \A i, p, proof : Proven(i, p, proof)' <=> Proven(i, p, proof)
      /\ RowsAreSynced'
  BY GrowthIsHarmless
<1>4. RequestsFit'
  <2> SUFFICES ASSUME NEW g \in Handlers PROVE Fits(g, handler[g])'
    BY DEF RequestsFit
  <2>1. PICK j \in Request : j = handler'[g]
    BY <1>1
  <2>2. Fits(g, j)
    BY <1>1, <2>1 DEF IInv, RequestsFit
  <2>3. Fits(g, j)'
    BY <1>3, <2>2
  <2> QED BY <2>1, <2>3
<1>5. OneWriterPerRow'
  BY <1>1 DEF IInv, OneWriterPerRow
<1>6. RowsAreApart'
  BY <1>1, CollideSymmetric DEF IInv, RowsAreApart
<1>7. OneSignIn'
  BY <1>1 DEF IInv, OneSignIn
<1>8. TokensAreProven'
  BY <1>3 DEF TokensAreProven
<1> QED BY <1>2, <1>3, <1>4, <1>5, <1>6, <1>7, <1>8 DEF IInv

\* Profiles that stay as they are have grown by nothing.
LEMMA NoGrowth == ASSUME TypeOK, profiles' = profiles PROVE Grown
<1>1. \A p \in Persons : Len(profiles[p]) \in Nat
  BY DEF TypeOK
<1> QED BY <1>1 DEF TypeOK, Grown

\* A request that is answered or dropped leaves nothing behind; the token it
\* answered with may be new.
LEMMA EndKeeps ==
    ASSUME IInv, NEW h \in Handlers, Finish(h),
           UNCHANGED <<users, profiles, synced, overlapped>>,
           \A t \in tokens' : Proven(t.sub, t.person, t.proof)
    PROVE  IInv'
<1>1. Answered \in Request /\ Answered.at = "done" /\ Answered.person = None
  BY DEF Answered, IdleHandler, Request
<1>2. Grown /\ overlapped' \subseteq Persons
  BY NoGrowth DEF IInv, TypeOK
<1>3. handler' = [handler EXCEPT ![h] = Answered]
  BY DEF Finish
<1>4. Fits(h, Answered)
  BY <1>1 DEF Fits, Asking, Writing
<1> HIDE DEF Answered
<1> QED BY <1>1, <1>2, <1>3, <1>4, RequestStep

\* A request only moves on, without a row, a token or a person of its own yet.
LEMMA MoveKeeps ==
    ASSUME IInv, NEW h \in Handlers, NEW k \in Request,
           handler' = [handler EXCEPT ![h] = k],
           UNCHANGED <<users, profiles, tokens, synced, overlapped>>,
           Fits(h, k),
           k.at \notin {"update", "commit"},
           k.person \in {None, handler[h].person},
           k.at \in {"find", "insert"} /\ k.person # None =>
               \/ handler[h].at = "find" /\ k.version = handler[h].version
               \/ k.version = Len(profiles[k.person])
    PROVE  IInv'
<1>1. Grown /\ overlapped' \subseteq Persons
  BY NoGrowth DEF IInv, TypeOK
<1>2. \A t \in tokens' : Proven(t.sub, t.person, t.proof)
  BY DEF IInv, TokensAreProven
<1>3. k.person # None /\ k.person \notin overlapped' =>
          /\ \A g \in Handlers \ {h} : handler[g].person # k.person
          /\ k.at \in {"find"} \cup Writing => synced[k.person] <= k.version
  <2> SUFFICES ASSUME k.person # None, k.person \notin overlapped
               PROVE  /\ \A g \in Handlers \ {h} : handler[g].person # k.person
                      /\ k.at \in {"find"} \cup Writing => synced[k.person] <= k.version
    OBVIOUS
  <2>1. k.person = handler[h].person /\ k.person \in Persons
    BY DEF Request
  <2>2. \A g \in Handlers \ {h} : handler[g].person # k.person
    BY <2>1 DEF IInv, OneSignIn
  <2>3. ASSUME k.at \in {"find"} \cup Writing PROVE synced[k.person] <= k.version
    <3>1. k.at \in {"find", "insert"}
      BY <2>3 DEF Writing
    <3>2. CASE handler[h].at = "find" /\ k.version = handler[h].version
      BY <2>1, <3>2 DEF IInv, OneSignIn
    <3>3. CASE k.version = Len(profiles[k.person])
      BY <2>1, <3>3 DEF IInv, RowsAreSynced
    <3> QED BY <3>1, <3>2, <3>3
  <2> QED BY <2>2, <2>3
<1> QED BY <1>1, <1>2, <1>3, RequestStep

-----------------------------------------------------------------------------
(* The actions.                                                            *)

\* Local accounts: register and login.
LEMMA LocalKeeps ==
    ASSUME IInv, NEW h \in Handlers,
           NEW method \in {"email", "phone", "nebula"}, NEW value \in Identifiers,
           NEW password \in Passwords \cup {"short"}
    PROVE  /\ register(h, method, value, password) => IInv'
           /\ login(h, method, value, password) => IInv'
<1>1. handler[h] \in Request /\ \A t \in tokens : Proven(t.sub, t.person, t.proof)
  BY DEF IInv, TypeOK, TokensAreProven
<1>2. ASSUME register(h, method, value, password) PROVE IInv'
  <2> DEFINE row == [source |-> "local_dev", person |-> None, nebula |-> None, name |-> None,
                     email |-> IF method = "email" THEN value ELSE None,
                     phone |-> IF method = "phone" THEN value ELSE None,
                     password |-> password]
             k == [IdleHandler EXCEPT !.op = "register", !.at = "nebula", !.proof = password,
                                      !.row = row]
             refused == ~ (RegistrationIdentity(method, value) /\ password # "short" /\ AllowLocal)
  <2>1. UNCHANGED <<users, profiles, tokens, synced, overlapped>> /\ handler[h].at = "idle"
    BY <1>2 DEF register
  <2>2. CASE refused
    <3>1. Finish(h)
      BY <1>2, <2>2 DEF register, Finish
    <3> QED BY <1>1, <2>1, <3>1, EndKeeps
  <2>3. CASE ~ refused
    <3>1. handler' = [handler EXCEPT ![h] = k]
      BY <1>2, <2>3 DEF register
    <3>2. row \in DraftRow /\ password \in Passwords
      BY <2>3 DEF DraftRow, RegistrationIdentity
    <3>3. row.person = None /\ row.source = "local_dev" /\ row.password = password
      OBVIOUS
    <3> HIDE DEF row
    <3>4. /\ k \in Request /\ k.at = "nebula" /\ k.person = None /\ k.op = "register"
          /\ k.row = row /\ k.proof = password
      BY <3>2 DEF Request, IdleHandler
    <3> HIDE DEF k
    <3>5. Fits(h, k)
      <4>1. users[h] = None
        BY <2>1 DEF IInv, RequestsFit, Fits
      <4> QED BY <3>2, <3>3, <3>4, <4>1 DEF Fits, Asking, Writing
    <3> QED BY <2>1, <3>1, <3>4, <3>5, MoveKeeps
  <2> QED BY <2>2, <2>3
<1>3. ASSUME login(h, method, value, password) PROVE IInv'
  <2>1. PICK i \in find_user_by_login_identity(method, value) :
          /\ users[i].source = "local_dev" /\ users[i].password = password
          /\ handler' = [handler EXCEPT ![h] = [IdleHandler EXCEPT !.op = "login", !.at = "audit",
                                                  !.id = i, !.proof = password]]
    BY <1>3 DEF login, ensure_local_password_login_allowed, verify_password
  <2> DEFINE k == [IdleHandler EXCEPT !.op = "login", !.at = "audit", !.id = i, !.proof = password]
  <2>2. i \in Rows /\ i \in Handlers
    BY <2>1 DEF find_user_by_login_identity, Rows
  <2>3. password \in Passwords \cup {"sentinel"}
    BY <2>1, <2>2 DEF IInv, TypeOK, User, Rows
  <2>4. /\ k \in Request /\ k.at = "audit" /\ k.id = i /\ k.person = None
        /\ k.proof = password
    BY <2>2, <2>3 DEF Request, IdleHandler
  <2>5. handler' = [handler EXCEPT ![h] = k] /\ UNCHANGED <<users, profiles, tokens, synced, overlapped>>
    BY <1>3, <2>1 DEF login
  <2> HIDE DEF k
  <2>6. Fits(h, k)
    BY <2>1, <2>2, <2>4 DEF Fits, Asking, Writing, Proven
  <2> QED BY <2>4, <2>5, <2>6, MoveKeeps
<1> QED BY <1>2, <1>3

\* create_unique_nebula_id completes the row of a registration.
LEMMA NebulaKeeps ==
    ASSUME IInv, NEW h \in Handlers, create_unique_nebula_id(h)
    PROVE  IInv'
<1>1. /\ handler[h] \in Request /\ handler[h].at = "nebula"
      /\ UNCHANGED <<users, profiles, tokens, synced, overlapped>>
      /\ \A t \in tokens : Proven(t.sub, t.person, t.proof)
  BY DEF create_unique_nebula_id, IInv, TypeOK, TokensAreProven
<1>2. /\ users[h] = None /\ handler[h].op = "register" /\ handler[h].person = None
      /\ handler[h].row \in DraftRow /\ handler[h].row.person = None
      /\ handler[h].row.source = "local_dev" /\ handler[h].row.password = handler[h].proof
  BY <1>1 DEF IInv, RequestsFit, Fits
<1>3. PICK n \in NebulaIds :
        handler' = [handler EXCEPT ![h] =
             IF ~ nebula_id_exists(n)
             THEN [@ EXCEPT !.at = "insert", !.id = h, !.row.nebula = n, !.tries = 0]
             ELSE IF @.tries + 1 < MaxTries THEN [@ EXCEPT !.tries = handler[h].tries + 1]
             ELSE Answered]
  BY DEF create_unique_nebula_id
<1>4. CASE ~ nebula_id_exists(n)
  <2> DEFINE row == [handler[h].row EXCEPT !.nebula = n]
             k == [handler[h] EXCEPT !.at = "insert", !.id = h, !.row = row, !.tries = 0]
  <2>1. handler' = [handler EXCEPT ![h] = k]
    BY <1>3, <1>4
  <2>2. /\ row \in User /\ row \in DraftRow /\ row.person = None /\ row.source = "local_dev"
        /\ row.password = handler[h].proof
    BY <1>2 DEF DraftRow, User
  <2> HIDE DEF row
  <2>3. /\ k \in Request /\ k.at = "insert" /\ k.id = h /\ k.row = row /\ k.person = None
        /\ k.op = "register" /\ k.proof = handler[h].proof
    BY <1>1, <1>2, <2>2 DEF Request
  <2> HIDE DEF k
  <2>4. Ready(h, k)
    BY <1>2, <2>2, <2>3 DEF Ready
  <2>5. Fits(h, k)
    BY <2>3, <2>4 DEF Fits, Asking
  <2> QED BY <1>1, <2>1, <2>3, <2>5, MoveKeeps
<1>5. CASE nebula_id_exists(n) /\ handler[h].tries + 1 < MaxTries
  <2> DEFINE k == [handler[h] EXCEPT !.tries = handler[h].tries + 1]
  <2>1. handler' = [handler EXCEPT ![h] = k]
    BY <1>3, <1>5
  <2>2. /\ k \in Request /\ k.at = "nebula" /\ k.row = handler[h].row /\ k.person = None
        /\ k.op = "register" /\ k.proof = handler[h].proof
    BY <1>1, <1>2 DEF Request
  <2> HIDE DEF k
  <2>3. Fits(h, k)
    BY <1>2, <2>2 DEF Fits, Asking, Writing
  <2> QED BY <1>1, <2>1, <2>2, <2>3, MoveKeeps
<1>6. CASE nebula_id_exists(n) /\ ~ (handler[h].tries + 1 < MaxTries)
  <2>1. Finish(h)
    BY <1>3, <1>6 DEF Finish
  <2> QED BY <1>1, <2>1, EndKeeps
<1> QED BY <1>4, <1>5, <1>6

\* The next provider is asked, or the request ends.
LEMMA NextUrlIs ==
    ASSUME IInv, NEW h \in Handlers, handler[h].at \in Asking, NextUrl(h)
    PROVE  \E k \in Request : /\ handler' = [handler EXCEPT ![h] = k]
                              /\ Fits(h, k)
                              /\ k.at \in {"fetch", "done"}
                              /\ k.person \in {None, handler[h].person}
<1>1. /\ handler[h] \in Request /\ users[h] = None
      /\ handler[h].op = "skybridge" /\ handler[h].person \in Persons
  BY DEF IInv, TypeOK, RequestsFit, Fits, Asking
<1>2. CASE handler[h].url < Urls
  <2> DEFINE k == [handler[h] EXCEPT !.at = "fetch", !.url = handler[h].url + 1]
  <2>1. handler' = [handler EXCEPT ![h] = k]
    BY <1>2 DEF NextUrl
  <2>2. k \in Request /\ k.at = "fetch" /\ k.person = handler[h].person /\ k.op = "skybridge"
    <3>1. handler[h].url + 1 \in Nat
      BY <1>1 DEF Request
    <3> QED BY <1>1, <3>1 DEF Request
  <2> HIDE DEF k
  <2>3. Fits(h, k)
    BY <1>1, <2>2 DEF Fits, Asking, Writing
  <2> QED BY <2>1, <2>2, <2>3
<1>3. CASE ~ (handler[h].url < Urls)
  <2>1. handler' = [handler EXCEPT ![h] = Answered]
    BY <1>3 DEF NextUrl
  <2>2. Answered \in Request /\ Answered.at = "done" /\ Answered.person = None
    BY DEF Answered, IdleHandler, Request
  <2> HIDE DEF Answered
  <2>3. Fits(h, Answered)
    BY <2>2 DEF Fits, Asking, Writing
  <2> QED BY <2>1, <2>2, <2>3
<1> QED BY <1>2, <1>3

\* A request that asks the provider goes to another question.
LEMMA AskNext ==
    ASSUME IInv, NEW h \in Handlers, handler[h].at \in Asking, NEW place \in Asking,
           Goto(h, place)
    PROVE  \E k \in Request : /\ handler' = [handler EXCEPT ![h] = k]
                              /\ Fits(h, k)
                              /\ k.at = place
                              /\ k.person = handler[h].person
<1> DEFINE k == [handler[h] EXCEPT !.at = place]
<1>1. /\ handler[h] \in Request /\ users[h] = None
      /\ handler[h].op = "skybridge" /\ handler[h].person \in Persons
  BY DEF IInv, TypeOK, RequestsFit, Fits, Asking
<1>2. handler' = [handler EXCEPT ![h] = k]
  BY DEF Goto
<1>3. k \in Request /\ k.at = place /\ k.person = handler[h].person /\ k.op = "skybridge"
  BY <1>1 DEF Request, Asking
<1> HIDE DEF k
<1>4. Fits(h, k)
  BY <1>1, <1>3 DEF Fits, Asking, Writing
<1> QED BY <1>2, <1>3, <1>4

\* auth_skybridge begins: from here on the person may overlap with itself.
LEMMA SignInKeeps ==
    ASSUME IInv, NEW h \in Handlers, NEW p \in Persons, auth_skybridge(h, p)
    PROVE  IInv'
<1>1. /\ handler[h] \in Request /\ users[h] = None
      /\ \A t \in tokens' : Proven(t.sub, t.person, t.proof)
      /\ Grown /\ users' = users /\ synced' = synced
      /\ overlapped \subseteq overlapped' /\ overlapped' \subseteq Persons
      /\ p \notin overlapped' => \A g \in Handlers : handler[g].person # p
  BY NoGrowth DEF auth_skybridge, IInv, TypeOK, RequestsFit, Fits, TokensAreProven
<1>2. CASE Urls = 0
  <2>1. handler' = [handler EXCEPT ![h] = Answered]
    BY <1>2 DEF auth_skybridge
  <2>2. Answered \in Request /\ Answered.at = "done" /\ Answered.person = None
    BY DEF Answered, IdleHandler, Request
  <2> HIDE DEF Answered
  <2>3. Fits(h, Answered)
    BY <2>2 DEF Fits, Asking, Writing
  <2> QED BY <1>1, <2>1, <2>2, <2>3, RequestStep
<1>3. CASE Urls # 0
  <2> DEFINE k == [IdleHandler EXCEPT !.op = "skybridge", !.at = "fetch", !.person = p]
  <2>1. handler' = [handler EXCEPT ![h] = k]
    BY <1>3 DEF auth_skybridge
  <2>2. k \in Request /\ k.at = "fetch" /\ k.person = p /\ k.op = "skybridge"
    BY DEF IdleHandler, Request
  <2> HIDE DEF k
  <2>3. Fits(h, k)
    BY <1>1, <2>2 DEF Fits, Asking, Writing
  <2>4. k.at \notin {"find"} \cup Writing
    BY <2>2 DEF Writing
  <2> QED BY <1>1, <2>1, <2>2, <2>3, <2>4, RequestStep
<1> QED BY <1>2, <1>3

\* fetch_skybridge_profile ends with the newest version of the profile.
LEMMA FetchKeeps ==
    ASSUME IInv, NEW h \in Handlers, fetch_skybridge_profile(h)
    PROVE  IInv'
<1>1. handler[h].at \in Asking /\ UNCHANGED <<users, profiles, tokens, synced, overlapped>>
  BY DEF fetch_skybridge_profile, Asking
<1>2. /\ handler[h] \in Request /\ users[h] = None
      /\ handler[h].op = "skybridge" /\ handler[h].person \in Persons
  BY <1>1 DEF IInv, TypeOK, RequestsFit, Fits, Asking
<1>3. CASE NextUrl(h)
  <2>1. PICK k \in Request : /\ handler' = [handler EXCEPT ![h] = k] /\ Fits(h, k)
                             /\ k.at \in {"fetch", "done"}
                             /\ k.person \in {None, handler[h].person}
    BY <1>1, <1>3, NextUrlIs
  <2> QED BY <1>1, <2>1, MoveKeeps
<1>4. CASE Goto(h, "generate")
  <2>1. PICK k \in Request : /\ handler' = [handler EXCEPT ![h] = k] /\ Fits(h, k)
                             /\ k.at = "generate" /\ k.person = handler[h].person
    BY <1>1, <1>4, AskNext DEF Asking
  <2> QED BY <1>1, <2>1, MoveKeeps
<1>5. CASE /\ Current(handler[h].person).nebula # None
           /\ handler' = [handler EXCEPT ![h].at = "find", ![h].url = 1,
                                         ![h].version = Len(profiles[handler[h].person])]
  <2> DEFINE p == handler[h].person
             k == [handler[h] EXCEPT !.at = "find", !.url = 1, !.version = Len(profiles[p])]
  <2>1. handler' = [handler EXCEPT ![h] = k]
    BY <1>5 DEF IInv, TypeOK
  <2>2. profiles[p] \in Seq(Profile) /\ profiles[p] # <<>>
    BY <1>2 DEF IInv, TypeOK, RowsAreSynced
  <2>3. Len(profiles[p]) \in 1..Len(profiles[p]) /\ Len(profiles[p]) \in Nat
    BY <2>2
  <2>4. /\ k \in Request /\ k.at = "find" /\ k.person = p /\ k.version = Len(profiles[p])
        /\ k.op = "skybridge"
    BY <1>2, <2>3 DEF Request
  <2> HIDE DEF k
  <2>5. Fits(h, k)
    BY <1>2, <1>5, <2>3, <2>4 DEF Fits, Fetched, Current, Asking, Writing
  <2> QED BY <1>1, <2>1, <2>4, <2>5, MoveKeeps
<1> QED BY <1>3, <1>4, <1>5 DEF fetch_skybridge_profile, try_from_response

\* A profile gets one more version.
LEMMA AppendGrows ==
    ASSUME TypeOK, NEW p \in Persons, NEW v \in Profile,
           profiles' = [profiles EXCEPT ![p] = Append(@, v)]
    PROVE  Grown
<1>1. \A q \in Persons : profiles[q] \in Seq(Profile) /\ Len(profiles[q]) \in Nat
  BY DEF TypeOK
<1>2. /\ profiles'[p] = Append(profiles[p], v)
      /\ \A q \in Persons : q # p => profiles'[q] = profiles[q]
  BY DEF TypeOK
<1>3. /\ Append(profiles[p], v) \in Seq(Profile)
      /\ Len(Append(profiles[p], v)) = Len(profiles[p]) + 1
      /\ \A n \in 1..Len(profiles[p]) : Append(profiles[p], v)[n] = profiles[p][n]
  BY <1>1
<1>4. profiles' \in [Persons -> Seq(Profile)]
  BY <1>1, <1>2, <1>3 DEF TypeOK
<1>5. ASSUME NEW q \in Persons
      PROVE  /\ Len(profiles[q]) <= Len(profiles'[q])
             /\ \A n \in 1..Len(profiles[q]) : profiles'[q][n] = profiles[q][n]
  <2>1. CASE q = p
    BY <1>1, <1>2, <1>3, <2>1
  <2>2. CASE q # p
    BY <1>1, <1>2, <2>2
  <2> QED BY <2>1, <2>2
<1> QED BY <1>4, <1>5 DEF Grown

\* The newest version of a profile is a profile.
LEMMA CurrentIsProfile ==
    ASSUME IInv, NEW p \in Persons PROVE Current(p) \in Profile
<1>1. profiles[p] \in Seq(Profile) /\ profiles[p] # <<>>
  BY DEF IInv, TypeOK, RowsAreSynced
<1>2. Len(profiles[p]) \in 1..Len(profiles[p])
  BY <1>1
<1> QED BY <1>1, <1>2 DEF Current

\* generate_skybridge_nebula_id may add a version of the profile.
LEMMA GenerateKeeps ==
    ASSUME IInv, NEW h \in Handlers, generate_skybridge_nebula_id(h)
    PROVE  IInv'
<1>1. /\ handler[h].at \in Asking
      /\ users' = users /\ tokens' = tokens /\ synced' = synced /\ overlapped' = overlapped
  BY DEF generate_skybridge_nebula_id, Asking
<1>2. handler[h].person \in Persons
  BY <1>1 DEF IInv, RequestsFit, Fits, Asking
<1>3. Grown
  <2>1. CASE profiles' = profiles
    BY <2>1, NoGrowth DEF IInv
  <2>2. CASE profiles' # profiles
    <3>1. PICK n \in NebulaIds :
            profiles' = [profiles EXCEPT ![handler[h].person] =
                           Append(@, [Current(handler[h].person) EXCEPT !.nebula = n])]
      BY <2>2 DEF generate_skybridge_nebula_id
    <3>2. [Current(handler[h].person) EXCEPT !.nebula = n] \in Profile
      BY <1>2, CurrentIsProfile DEF Profile
    <3> QED BY <1>2, <3>1, <3>2, AppendGrows DEF IInv
  <2> QED BY <2>1, <2>2
<1>4. NextUrl(h) \/ Goto(h, "refetch")
  BY DEF generate_skybridge_nebula_id
<1>5. PICK k \in Request : /\ handler' = [handler EXCEPT ![h] = k] /\ Fits(h, k)
                           /\ k.at \in {"fetch", "refetch", "done"}
                           /\ k.person \in {None, handler[h].person}
  BY <1>1, <1>4, NextUrlIs, AskNext DEF Asking
<1>6. \A t \in tokens' : Proven(t.sub, t.person, t.proof)
  BY <1>1 DEF IInv, TokensAreProven
<1>7. /\ k.at \notin {"find"} \cup Writing
      /\ k.person # None /\ k.person \notin overlapped =>
            \A g \in Handlers \ {h} : handler[g].person # k.person
  BY <1>5 DEF IInv, OneSignIn, Writing
<1>8. overlapped' \subseteq Persons
  BY <1>1 DEF IInv, TypeOK
<1> QED BY <1>1, <1>3, <1>5, <1>6, <1>7, <1>8, RequestStep

\* A person edits the profile: no request notices.
LEMMA EditionKeeps ==
    ASSUME IInv, NEW p \in Persons, NEW edition \in Editions, change_profile(p, edition)
    PROVE  IInv'
<1>1. /\ UNCHANGED <<users, handler, tokens, synced, overlapped>>
      /\ profiles' = [profiles EXCEPT ![p] = Append(@, [edition EXCEPT !.nebula = Current(p).nebula])]
  BY DEF change_profile
<1>2. Grown
  <2>1. [edition EXCEPT !.nebula = Current(p).nebula] \in Profile
    BY CurrentIsProfile, RowsAssumption DEF Profile
  <2> QED BY <1>1, <2>1, AppendGrows DEF IInv
<1>3. /\ \A g \in Handlers, j \in Request : Fits(g, j) => Fits(g, j)'
      /\ \A i, q, proof : Proven(i, q, proof)' <=> Proven(i, q, proof)
      /\ RowsAreSynced'
  BY <1>1, <1>2, GrowthIsHarmless
<1>4. RequestsFit'
  <2> SUFFICES ASSUME NEW g \in Handlers PROVE Fits(g, handler[g])'
    BY DEF RequestsFit
  <2>1. PICK j \in Request : j = handler[g] /\ j = handler'[g]
    BY <1>1 DEF IInv, TypeOK
  <2>2. Fits(g, j)'
    BY <1>3, <2>1 DEF IInv, RequestsFit
  <2> QED BY <2>1, <2>2
<1> QED
  BY <1>1, <1>2, <1>3, <1>4 DEF IInv, TypeOK, OneWriterPerRow, RowsAreApart, OneSignIn,
     TokensAreProven, Rows, Grown

\* update_skybridge_user writes one version of the profile, and keeps whose row
\* it is.
LEMMA SyncedRowIs ==
    ASSUME NEW row \in User, NEW profile \in Profile, profile.nebula # None
    PROVE  LET new == SyncedRow(row, profile)
           IN  /\ new \in User
               /\ new.person = row.person /\ new.source = row.source /\ new.password = row.password
               /\ IsProfile(new, profile)
<1> DEFINE new == [row EXCEPT !.nebula = profile.nebula, !.email = profile.email,
                              !.phone = profile.phone,
                              !.name = IF profile.name # None THEN profile.name ELSE row.name]
<1>1. SyncedRow(row, profile) = new
  BY DEF SyncedRow, User
<1>2. /\ new \in User
      /\ new.person = row.person /\ new.source = row.source /\ new.password = row.password
      /\ new.email = profile.email /\ new.phone = profile.phone /\ new.nebula = profile.nebula
      /\ profile.name # None => new.name = profile.name
  <2>1. /\ new.person = row.person /\ new.source = row.source /\ new.password = row.password
        /\ new.email = profile.email /\ new.phone = profile.phone /\ new.nebula = profile.nebula
        /\ new.name = IF profile.name # None THEN profile.name ELSE row.name
    BY DEF User
  <2>2. new \in User
    <3>1. PICK name \in Names \cup {None} :
            name = IF profile.name # None THEN profile.name ELSE row.name
      BY DEF User, Profile
    <3>2. new = [row EXCEPT !.nebula = profile.nebula, !.email = profile.email,
                            !.phone = profile.phone, !.name = name]
      BY <3>1, Zenon
    <3>3. /\ profile.nebula \in NebulaIds /\ profile.email \in Emails \cup {None}
          /\ profile.phone \in Phones \cup {None}
      BY DEF Profile
    <3> HIDE DEF new
    <3> QED BY <3>2, <3>3 DEF User
  <2> QED BY <2>1, <2>2, Zenon
<1> HIDE DEF new
<1> QED BY <1>1, <1>2 DEF IsProfile

\* The lookup: the person's row, which it locks, or none.
LEMMA FindKeeps ==
    ASSUME IInv, NEW h \in Handlers, find_user_by_skybridge_user_id_for_update(h)
    PROVE  IInv'
<1>1. /\ handler[h] \in Request /\ handler[h].at = "find"
      /\ UNCHANGED <<users, profiles, tokens, synced, overlapped>>
  BY DEF find_user_by_skybridge_user_id_for_update, IInv, TypeOK
<1>2. /\ users[h] = None /\ handler[h].op = "skybridge" /\ Fetched(handler[h])
      /\ profiles[handler[h].person][handler[h].version].nebula # None
  BY <1>1 DEF IInv, RequestsFit, Fits
<1>3. PICK p \in Persons : p = handler[h].person
  BY <1>2 DEF Fetched
<1>4. PICK profile \in Profile : /\ profile = profiles[p][handler[h].version]
                                 /\ profile.nebula # None
  BY <1>2, <1>3 DEF Fetched, IInv, TypeOK
<1> DEFINE first == [source |-> "skybridge", person |-> p, email |-> profile.email,
                     phone |-> profile.phone, nebula |-> profile.nebula, name |-> profile.name,
                     password |-> "sentinel"]
           old(i) == [users[i] EXCEPT !.source = "skybridge", !.person = p]
           k(place, i, row) == [handler[h] EXCEPT !.at = place, !.id = i, !.row = row]
<1>5. ASSUME NEW place \in {"insert", "update"}, NEW i \in Handlers, NEW row \in User
      PROVE  /\ k(place, i, row) \in Request /\ k(place, i, row).at = place
             /\ k(place, i, row).id = i /\ k(place, i, row).row = row
             /\ k(place, i, row).person = p /\ k(place, i, row).op = "skybridge"
             /\ k(place, i, row).version = handler[h].version
  <2>1. row \in DraftRow
    BY DEF User, DraftRow
  <2>2. /\ k(place, i, row).at = place /\ k(place, i, row).id = i
        /\ k(place, i, row).row = row /\ k(place, i, row).person = handler[h].person
        /\ k(place, i, row).op = handler[h].op
        /\ k(place, i, row).version = handler[h].version
    BY <1>1 DEF Request
  <2>3. k(place, i, row) \in Request
    BY <1>1, <2>1 DEF Request
  <2> QED BY <1>2, <1>3, <2>2, <2>3, Zenon
<1>6. CASE /\ Found(h) = {}
           /\ handler' = [handler EXCEPT ![h].at = "insert", ![h].id = h, ![h].row = first]
  <2>1. first \in User /\ IsProfile(first, profile) /\ first.person = p /\ first.source = "skybridge"
    BY <1>4 DEF User, Profile, IsProfile
  <2>2. handler' = [handler EXCEPT ![h] = k("insert", h, first)]
    BY <1>6 DEF IInv, TypeOK
  <2> HIDE DEF first
  <2>3. PICK j \in Request :
           /\ j = k("insert", h, first) /\ j.at = "insert" /\ j.id = h /\ j.row = first
           /\ j.person = p /\ j.op = "skybridge" /\ j.version = handler[h].version
    <3> HIDE DEF k
    <3> QED BY <1>5, <2>1
  <2>4. Ready(h, j)
    BY <1>2, <1>3, <1>4, <2>1, <2>3 DEF Ready, Fetched
  <2>5. Fits(h, j)
    BY <2>3, <2>4 DEF Fits, Asking
  <2>6. handler' = [handler EXCEPT ![h] = j]
    BY <2>2, <2>3
  <2> QED BY <1>1, <1>3, <2>3, <2>5, <2>6, MoveKeeps
<1>7. ASSUME NEW i \in Found(h), ~ Locked(h, i),
             handler' = [handler EXCEPT ![h].at = "update", ![h].id = i,
                                        ![h].row = SyncedRow(old(i), profile)]
      PROVE  IInv'
  <2>1. i \in Rows /\ i \in Handlers /\ users[i] \in User /\ users[i].person = p
    BY <1>3, <1>7 DEF Found, Rows, IInv, TypeOK
  <2>2. users[i].source = "skybridge"
    BY <2>1, AccountsAssumption DEF IInv, RowsAreSynced, User
  <2>3. old(i) \in User /\ old(i).person = p /\ old(i).source = "skybridge"
        /\ old(i).password = users[i].password
    BY <2>1 DEF User
  <2> HIDE DEF old
  <2>4. PICK row \in User : /\ row = SyncedRow(old(i), profile)
                            /\ row.person = p /\ row.source = "skybridge"
                            /\ row.password = users[i].password
                            /\ IsProfile(row, profile)
    BY <1>4, <2>3, SyncedRowIs
  <2>5. handler' = [handler EXCEPT ![h] = k("update", i, row)]
    BY <1>7, <2>4 DEF IInv, TypeOK
  <2>6. PICK j \in Request :
           /\ j = k("update", i, row) /\ j.at = "update" /\ j.id = i /\ j.row = row
           /\ j.person = p /\ j.op = "skybridge" /\ j.version = handler[h].version
    <3> HIDE DEF k
    <3> QED BY <1>5, <2>1
  <2>7. Ready(h, j)
    BY <1>2, <1>3, <1>4, <2>1, <2>2, <2>4, <2>6 DEF Ready, Fetched
  <2>8. Fits(h, j)
    BY <2>6, <2>7 DEF Fits, Asking
  <2>9. handler' = [handler EXCEPT ![h] = j]
    BY <2>5, <2>6
  <2>10. \A g \in Handlers \ {h} : handler[g].at \in {"update", "commit"} => handler[g].id # j.id
    BY <1>7, <2>6 DEF Locked
  <2>11. j.person \notin overlapped =>
            /\ \A g \in Handlers \ {h} : handler[g].person # j.person
            /\ synced[j.person] <= j.version
    BY <1>1, <1>3, <2>6, AccountsAssumption DEF IInv, OneSignIn
  <2>12. Grown /\ overlapped' \subseteq Persons /\ \A t \in tokens' : Proven(t.sub, t.person, t.proof)
    BY <1>1, NoGrowth DEF IInv, TypeOK, TokensAreProven
  <2> QED BY <1>1, <2>6, <2>8, <2>9, <2>10, <2>11, <2>12, RequestStep
<1> QED BY <1>3, <1>4, <1>6, <1>7 DEF find_user_by_skybridge_user_id_for_update

\* insert_user and update_skybridge_user: the unique constraints hold of the row
\* as soon as the statement is done.
LEMMA StatementKeeps ==
    ASSUME IInv, NEW h \in Handlers, insert_user(h) \/ update_skybridge_user(h)
    PROVE  IInv'
<1>1. /\ handler[h] \in Request /\ handler[h].at \in {"insert", "update"} /\ ~ Waits(h)
      /\ UNCHANGED <<users, profiles, tokens, synced, overlapped>>
      /\ Grown /\ overlapped' \subseteq Persons
      /\ \A t \in tokens' : Proven(t.sub, t.person, t.proof)
  BY NoGrowth DEF insert_user, update_skybridge_user, IInv, TypeOK, TokensAreProven
<1>2. CASE Finish(h)
  BY <1>1, <1>2, EndKeeps
<1>3. CASE ~ map_identity_unique_conflict(h) /\ Goto(h, "commit")
  <2> DEFINE k == [handler[h] EXCEPT !.at = "commit"]
  <2>1. handler' = [handler EXCEPT ![h] = k]
    BY <1>3 DEF Goto
  <2>2. /\ k \in Request /\ k.at = "commit" /\ k.op = handler[h].op /\ k.person = handler[h].person
        /\ k.version = handler[h].version /\ k.id = handler[h].id /\ k.row = handler[h].row
        /\ k.proof = handler[h].proof
    BY <1>1 DEF Request
  <2> HIDE DEF k
  <2>3. Ready(h, handler[h])
    BY <1>1 DEF IInv, RequestsFit, Fits, Writing
  <2>4. Ready(h, k)
    BY <2>2, <2>3 DEF Ready, Fetched
  <2>5. Fits(h, k)
    BY <2>2, <2>4 DEF Fits, Asking
  <2>6. /\ \A i \in Rows : Collide(k.row, users[i]) => i = k.id
        /\ \A g \in Handlers \ {h} : handler[g].at = "commit" => ~ Collide(k.row, handler[g].row)
    BY <1>1, <1>3, <2>2 DEF Waits, Uncommitted, map_identity_unique_conflict
  <2>7. \A g \in Handlers \ {h} : handler[g].at \in {"update", "commit"} => handler[g].id # k.id
    <3> SUFFICES ASSUME NEW g \in Handlers \ {h}, handler[g].at \in {"update", "commit"},
                        handler[g].id = handler[h].id
                 PROVE  FALSE
      BY <2>2
    <3>1. CASE handler[h].at = "update"
      BY <1>1, <3>1 DEF IInv, OneWriterPerRow
    <3>2. CASE handler[h].at = "insert"
      <4>1. handler[h].id = h /\ users[h] = None
        BY <2>3, <3>2 DEF Ready
      <4>2. Ready(g, handler[g])
        BY DEF IInv, RequestsFit, Fits, Writing
      <4> QED BY <4>1, <4>2 DEF Ready, Rows
    <3> QED BY <1>1, <3>1, <3>2
  <2>8. k.person # None /\ k.person \notin overlapped =>
            /\ \A g \in Handlers \ {h} : handler[g].person # k.person
            /\ synced[k.person] <= k.version
    BY <1>1, <2>2 DEF IInv, OneSignIn, Writing
  <2> QED BY <1>1, <2>1, <2>2, <2>5, <2>6, <2>7, <2>8, RequestStep
<1> QED BY <1>2, <1>3 DEF insert_user, update_skybridge_user

\* A commit writes one row: a new one, or the row of the same person again.
LEMMA CommitWrites ==
    ASSUME IInv, NEW h \in Handlers, commit(h)
    PROVE  LET i == handler[h].id
           IN  /\ i \in Handlers /\ handler[h].row \in User
               /\ users' = [users EXCEPT ![i] = handler[h].row]
               /\ users'[i] = handler[h].row
               /\ \A j \in Handlers : j # i => users'[j] = users[j]
               /\ Rows' = Rows \cup {i}
               /\ i \in Rows \/ (i = h /\ users[h] = None)
               /\ \A j \in Rows : /\ users'[j].person = users[j].person
                                  /\ users'[j].source = users[j].source
                                  /\ users'[j].password = users[j].password
<1> DEFINE i == handler[h].id
<1>1. Ready(h, handler[h])
  BY DEF commit, IInv, RequestsFit, Fits, Writing
<1>2. i \in Rows \/ (i = h /\ users[h] = None)
  BY <1>1 DEF Ready
<1>3. i \in Handlers /\ handler[h].row \in User
  BY <1>1, <1>2 DEF Ready, Rows
<1>4. /\ users' = [users EXCEPT ![i] = handler[h].row]
      /\ users'[i] = handler[h].row
      /\ \A j \in Handlers : j # i => users'[j] = users[j]
  BY <1>3 DEF commit, IInv, TypeOK
<1>5. Rows' = Rows \cup {i}
  BY <1>3, <1>4, RowsAssumption DEF Rows
<1>6. ASSUME NEW j \in Rows
      PROVE  /\ users'[j].person = users[j].person
             /\ users'[j].source = users[j].source
             /\ users'[j].password = users[j].password
  <2>1. CASE j # i
    BY <1>4, <2>1 DEF Rows
  <2>2. CASE j = i
    <3>1. /\ users[i].person = handler[h].person /\ users[i].source = "skybridge"
          /\ users[i].password = handler[h].row.password /\ handler[h].op = "skybridge"
      BY <1>1, <2>2 DEF Ready, Rows
    <3>2. handler[h].row.person = handler[h].person /\ handler[h].row.source = "skybridge"
      BY <1>1, <3>1 DEF Ready
    <3> QED BY <1>4, <2>2, <3>1, <3>2
  <2> QED BY <2>1, <2>2
<1> QED BY <1>2, <1>3, <1>4, <1>5, <1>6

\* commit keeps the invariant.
LEMMA CommitKeeps ==
    ASSUME IInv, NEW h \in Handlers, commit(h)
    PROVE  IInv'
<1>0. PICK i \in Handlers, row \in User : i = handler[h].id /\ row = handler[h].row
  BY CommitWrites
<1>1. /\ i \in Handlers /\ row \in User
      /\ users' = [users EXCEPT ![i] = row]
      /\ users'[i] = row
      /\ \A j \in Handlers : j # i => users'[j] = users[j]
      /\ Rows' = Rows \cup {i}
      /\ i \in Rows \/ (i = h /\ users[h] = None)
      /\ \A j \in Rows : /\ users'[j].person = users[j].person
                         /\ users'[j].source = users[j].source
                         /\ users'[j].password = users[j].password
  BY <1>0, CommitWrites
<1>2. /\ handler[h] \in Request /\ handler[h].at = "commit"
      /\ UNCHANGED <<profiles, tokens, overlapped>>
      /\ synced' = IF handler[h].op = "skybridge"
                   THEN [synced EXCEPT ![handler[h].person] = handler[h].version] ELSE synced
  BY DEF commit, Goto, IInv, TypeOK
<1>3. Ready(h, handler[h])
  BY <1>2 DEF IInv, RequestsFit, Fits, Writing
<1>4. PICK k \in Request :
         /\ handler' = [handler EXCEPT ![h] = k]
         /\ k.at \in {"audit", "token"} /\ k.person = handler[h].person
         /\ k.id = i /\ k.proof = handler[h].proof
  <2> DEFINE place == IF handler[h].op = "skybridge" THEN "audit" ELSE "token"
             new == [handler[h] EXCEPT !.at = place]
  <2>1. handler' = [handler EXCEPT ![h] = new]
    BY DEF commit, Goto
  <2>2. /\ new \in Request /\ new.at \in {"audit", "token"} /\ new.person = handler[h].person
        /\ new.id = i /\ new.proof = handler[h].proof
    BY <1>0, <1>2 DEF Request
  <2> HIDE DEF new
  <2> QED BY <2>1, <2>2
<1>5. /\ handler'[h] = k /\ handler' \in [Handlers -> Request]
      /\ \A g \in Handlers : g # h => handler'[g] = handler[g]
  BY <1>2, <1>4 DEF IInv, TypeOK
<1>6. TypeOK'
  <2>1. synced' \in [Persons -> Nat]
    BY <1>2, <1>3 DEF IInv, TypeOK, Request
  <2> QED BY <1>1, <1>2, <1>5, <2>1 DEF IInv, TypeOK
<1>7. \A j, q, proof : Proven(j, q, proof) => Proven(j, q, proof)'
  BY <1>1 DEF Proven
<1>8. RequestsFit'
  <2>1. ASSUME NEW g \in Handlers, g # h, NEW j \in Request, Fits(g, j)
        PROVE  Fits(g, j)'
    <3>1. users[g] = None => users'[g] = None
      BY <1>1, <2>1 DEF Rows
    <3>2. \A q, n : profiles'[q] = profiles[q] /\ profiles'[q][n] = profiles[q][n]
      BY <1>2
    <3>3. Fetched(j)' <=> Fetched(j)
      BY <1>2 DEF Fetched
    <3>4. Ready(g, j) => Ready(g, j)'
      BY <1>1, <3>1, <3>2, <3>3 DEF Ready
    <3> QED BY <1>7, <2>1, <3>1, <3>2, <3>3, <3>4 DEF Fits
  <2>2. Fits(h, k)'
    <3>1. Proven(i, k.person, k.proof)'
      BY <1>0, <1>1, <1>3, <1>4, AccountsAssumption DEF Proven, Ready, Fetched
    <3> QED BY <1>4, <3>1 DEF Fits, Asking, Writing
  <2>3. ASSUME NEW g \in Handlers PROVE Fits(g, handler[g])'
    <3>1. CASE g = h
      BY <1>5, <2>2, <3>1
    <3>2. CASE g # h
      <4>1. PICK j \in Request : j = handler[g] /\ j = handler'[g]
        BY <1>5, <3>2 DEF IInv, TypeOK
      <4>2. Fits(g, j)'
        BY <2>1, <3>2, <4>1 DEF IInv, RequestsFit
      <4> QED BY <4>1, <4>2
    <3> QED BY <3>1, <3>2
  <2> QED BY <2>3 DEF RequestsFit
<1>9. \A j \in Rows : Collide(row, users[j]) => j = i
  BY <1>0, <1>2 DEF IInv, RowsAreApart
<1>10. RowsAreSynced'
  <2>1. CASE handler[h].op = "skybridge"
    <3>1. /\ Fetched(handler[h]) /\ row.person = handler[h].person /\ row.source = "skybridge"
          /\ IsProfile(row, profiles[handler[h].person][handler[h].version])
      BY <1>0, <1>3, <2>1 DEF Ready
    <3>2. PICK p \in Persons : p = handler[h].person
      BY <3>1 DEF Fetched
    <3>3. handler[h].version \in 1..Len(profiles[p]) /\ Len(profiles[p]) \in Nat
      BY <3>1, <3>2 DEF Fetched, IInv, TypeOK
    <3>4. /\ synced'[p] = handler[h].version
          /\ \A q \in Persons : q # p => synced'[q] = synced[q]
      BY <1>2, <2>1, <3>2 DEF IInv, TypeOK
    <3>5. \A q \in Persons : profiles'[q] # <<>> /\ synced'[q] <= Len(profiles'[q])
      BY <1>2, <3>3, <3>4 DEF IInv, RowsAreSynced
    <3>6. \A j \in Rows : j # i => users'[j] = users[j] /\ users[j].person # p
                                   /\ users[j].person \in Persons \cup {None}
      BY <1>1, <1>9, <3>1, <3>2, AccountsAssumption DEF Collide, Rows, IInv, TypeOK, User
    <3>7. ASSUME NEW j \in Rows'
          PROVE  /\ users'[j].source = "local_dev" <=> users'[j].person = None
                 /\ users'[j].person # None =>
                      /\ synced'[users'[j].person] # 0
                      /\ IsProfile(users'[j], profiles'[users'[j].person][synced'[users'[j].person]])
      <4>1. CASE j = i
        <5>1. users'[j].source = "skybridge" /\ users'[j].person = p /\ p # None
          BY <1>1, <3>1, <3>2, <4>1, AccountsAssumption
        <5>2. synced'[p] # 0
          BY <3>3, <3>4
        <5>3. IsProfile(users'[j], profiles'[p][synced'[p]])
          BY <1>1, <1>2, <3>1, <3>2, <3>4, <4>1
        <5> QED BY <5>1, <5>2, <5>3
      <4>2. CASE j # i
        BY <1>1, <1>2, <3>4, <3>6, <4>2 DEF IInv, RowsAreSynced
      <4> QED BY <4>1, <4>2
    <3> QED BY <3>5, <3>7 DEF RowsAreSynced
  <2>2. CASE handler[h].op # "skybridge"
    <3>1. row.person = None /\ row.source = "local_dev" /\ synced' = synced
      BY <1>0, <1>2, <1>3, <2>2 DEF Ready
    <3>2. \A j \in Rows : j # i => users'[j] = users[j]
      BY <1>1 DEF Rows
    <3>3. ASSUME NEW j \in Rows'
          PROVE  /\ users'[j].source = "local_dev" <=> users'[j].person = None
                 /\ users'[j].person # None =>
                      /\ synced'[users'[j].person] # 0
                      /\ IsProfile(users'[j], profiles'[users'[j].person][synced'[users'[j].person]])
      <4>1. CASE j = i
        BY <1>1, <3>1, <4>1
      <4>2. CASE j # i
        BY <1>1, <1>2, <3>1, <3>2, <4>2 DEF IInv, RowsAreSynced
      <4> QED BY <4>1, <4>2
    <3> QED BY <1>2, <3>1, <3>3 DEF IInv, RowsAreSynced
  <2> QED BY <2>1, <2>2
<1>11. OneWriterPerRow'
  BY <1>4, <1>5 DEF IInv, OneWriterPerRow
<1>12. RowsAreApart'
  <2>1. \A j \in Rows : j # i => users'[j] = users[j]
    BY <1>1 DEF Rows
  <2>2. \A j, l \in Rows' : Collide(users'[j], users'[l]) => j = l
    BY <1>1, <1>9, <2>1, CollideSymmetric DEF IInv, RowsAreApart
  <2>3. ASSUME NEW g \in Handlers, handler'[g].at = "commit"
        PROVE  /\ \A j \in Rows' : Collide(handler'[g].row, users'[j]) => j = handler'[g].id
               /\ \A f \in Handlers :
                    handler'[f].at = "commit" /\ Collide(handler'[g].row, handler'[f].row) => f = g
    <3>1. g # h /\ handler'[g] = handler[g] /\ handler[g].at = "commit"
      BY <1>4, <1>5, <2>3
    <3>2. ~ Collide(handler[g].row, row)
      BY <1>0, <1>2, <3>1 DEF IInv, RowsAreApart
    <3>3. \A j \in Rows' : Collide(handler[g].row, users'[j]) => j = handler[g].id
      BY <1>1, <2>1, <3>1, <3>2 DEF IInv, RowsAreApart
    <3>4. ASSUME NEW f \in Handlers, handler'[f].at = "commit",
                 Collide(handler'[g].row, handler'[f].row)
          PROVE  f = g
      <4>1. handler'[f] = handler[f] /\ handler[f].at = "commit"
        BY <1>4, <1>5, <3>4
      <4> QED BY <3>1, <3>4, <4>1 DEF IInv, RowsAreApart
    <3> QED BY <3>1, <3>3, <3>4
  <2> QED BY <2>2, <2>3 DEF RowsAreApart
<1>13. OneSignIn'
  <2> SUFFICES ASSUME NEW g \in Handlers, handler'[g].person # None,
                      handler'[g].person \notin overlapped
               PROVE  /\ \A f \in Handlers : handler'[f].person = handler'[g].person => f = g
                      /\ handler'[g].at \in {"find"} \cup Writing =>
                           synced'[handler'[g].person] <= handler'[g].version
    BY <1>2 DEF OneSignIn
  <2>1. \A f \in Handlers : handler'[f].person = handler[f].person
    BY <1>4, <1>5
  <2>2. \A f \in Handlers : handler[f].person = handler[g].person => f = g
    BY <2>1 DEF IInv, OneSignIn
  <2>3. ASSUME handler'[g].at \in {"find"} \cup Writing
        PROVE  synced'[handler'[g].person] <= handler'[g].version
    <3>1. g # h /\ handler'[g] = handler[g]
      BY <1>4, <1>5, <2>3 DEF Writing
    <3>2. handler[g].person \in Persons /\ handler[g].person # handler[h].person
      BY <2>2, <3>1 DEF IInv, TypeOK, Request
    <3>3. synced'[handler[g].person] = synced[handler[g].person]
      BY <1>2, <3>2 DEF IInv, TypeOK
    <3> QED BY <2>3, <3>1, <3>3 DEF IInv, OneSignIn
  <2> QED BY <2>1, <2>2, <2>3
<1>14. TokensAreProven'
  BY <1>2, <1>7 DEF IInv, TokensAreProven
<1> QED BY <1>6, <1>8, <1>10, <1>11, <1>12, <1>13, <1>14 DEF IInv

\* The answer: the audit record, the token, or nothing.
LEMMA AnswerKeeps ==
    ASSUME IInv, NEW h \in Handlers
    PROVE  /\ insert_audit_pool(h) => IInv'
           /\ issue_jwt(h) => IInv'
           /\ drop_request(h) => IInv'
<1>1. handler[h] \in Request /\ \A t \in tokens : Proven(t.sub, t.person, t.proof)
  BY DEF IInv, TypeOK, TokensAreProven
<1>2. handler[h].at \in {"audit", "token"} =>
          Proven(handler[h].id, handler[h].person, handler[h].proof)
  BY DEF IInv, RequestsFit, Fits
<1>3. ASSUME insert_audit_pool(h) PROVE IInv'
  <2> DEFINE k == [handler[h] EXCEPT !.at = "token"]
  <2>1. /\ handler' = [handler EXCEPT ![h] = k]
        /\ handler[h].at = "audit" /\ UNCHANGED <<users, profiles, tokens, synced, overlapped>>
    BY <1>3 DEF insert_audit_pool, Goto
  <2>2. /\ k \in Request /\ k.at = "token" /\ k.person = handler[h].person
        /\ k.id = handler[h].id /\ k.proof = handler[h].proof
    BY <1>1 DEF Request
  <2> HIDE DEF k
  <2>3. Fits(h, k)
    BY <1>2, <2>1, <2>2 DEF Fits, Asking, Writing
  <2> QED BY <2>1, <2>2, <2>3, MoveKeeps
<1>4. ASSUME issue_jwt(h) PROVE IInv'
  <2> DEFINE t == [sub |-> handler[h].id, person |-> handler[h].person, proof |-> handler[h].proof]
  <2>1. /\ tokens' = tokens \cup {t} /\ Finish(h) /\ handler[h].at = "token"
        /\ UNCHANGED <<users, profiles, synced, overlapped>>
    BY <1>4 DEF issue_jwt
  <2>2. Proven(t.sub, t.person, t.proof)
    BY <1>2, <2>1
  <2> HIDE DEF t
  <2> QED BY <1>1, <2>1, <2>2, EndKeeps
<1>5. ASSUME drop_request(h) PROVE IInv'
  BY <1>1, <1>5, EndKeeps DEF drop_request
<1> QED BY <1>3, <1>4, <1>5

\* A step that changes nothing.
LEMMA StutterKeeps == ASSUME IInv, UNCHANGED vars PROVE IInv'
<1> USE DEF vars, IInv
<1>1. TypeOK'
  BY DEF TypeOK
<1>2. RequestsFit'
  <2> SUFFICES ASSUME NEW h \in Handlers PROVE Fits(h, handler[h])'
    BY DEF RequestsFit
  <2> DEFINE k == handler[h]
  <2>1. Proven(k.id, k.person, k.proof) => Proven(k.id, k.person, k.proof)'
    BY DEF Proven, Rows
  <2>2. Fetched(k) => Fetched(k)'
    BY DEF Fetched
  <2>3. Ready(h, k) => Ready(h, k)'
    BY <2>2 DEF Ready, IsProfile, Rows
  <2>4. Fits(h, k)
    BY DEF RequestsFit
  <2> QED BY <2>1, <2>2, <2>3, <2>4 DEF Fits
<1>3. RowsAreSynced'
  BY DEF RowsAreSynced, IsProfile, Rows
<1>4. OneWriterPerRow' /\ RowsAreApart' /\ OneSignIn'
  BY DEF OneWriterPerRow, RowsAreApart, Collide, OneSignIn, Rows
<1>5. TokensAreProven'
  BY DEF TokensAreProven, Proven, Rows
<1> QED BY <1>1, <1>2, <1>3, <1>4, <1>5

LEMMA StepKeeps == IInv /\ [Next]_vars => IInv'
<1> SUFFICES ASSUME IInv, [Next]_vars PROVE IInv'
  OBVIOUS
<1>1. CASE UNCHANGED vars
  BY <1>1, StutterKeeps
<1>2. ASSUME NEW h \in Handlers,
             NEW method \in {"email", "phone", "nebula"}, NEW value \in Identifiers,
             NEW password \in Passwords \cup {"short"},
             register(h, method, value, password) \/ login(h, method, value, password)
      PROVE  IInv'
  BY <1>2, LocalKeeps
<1>3. ASSUME NEW h \in Handlers, NEW p \in Persons, auth_skybridge(h, p) PROVE IInv'
  BY <1>3, SignInKeeps
<1>4. ASSUME NEW h \in Handlers, create_unique_nebula_id(h) PROVE IInv'
  BY <1>4, NebulaKeeps
<1>5. ASSUME NEW h \in Handlers, fetch_skybridge_profile(h) PROVE IInv'
  BY <1>5, FetchKeeps
<1>6. ASSUME NEW h \in Handlers, generate_skybridge_nebula_id(h) PROVE IInv'
  BY <1>6, GenerateKeeps
<1>7. ASSUME NEW h \in Handlers, find_user_by_skybridge_user_id_for_update(h) PROVE IInv'
  BY <1>7, FindKeeps
<1>8. ASSUME NEW h \in Handlers, insert_user(h) \/ update_skybridge_user(h) PROVE IInv'
  BY <1>8, StatementKeeps
<1>9. ASSUME NEW h \in Handlers, commit(h) PROVE IInv'
  BY <1>9, CommitKeeps
<1>10. ASSUME NEW h \in Handlers, insert_audit_pool(h) \/ issue_jwt(h) \/ drop_request(h)
       PROVE  IInv'
  BY <1>10, AnswerKeeps
<1>11. ASSUME NEW p \in Persons, NEW edition \in Editions, change_profile(p, edition) PROVE IInv'
  BY <1>11, EditionKeeps
<1> QED
  BY <1>1, <1>2, <1>3, <1>4, <1>5, <1>6, <1>7, <1>8, <1>9, <1>10, <1>11 DEF Next

LEMMA Invariant == Spec => []IInv
BY InitHolds, StepKeeps, PTL DEF Spec

\* The users table changes in a commit and nowhere else.
LEMMA OnlyCommitWrites ==
    ASSUME [Next]_vars
    PROVE  \/ users' = users /\ synced' = synced
           \/ \E h \in Handlers : commit(h)
<1> DEFINE Same == users' = users /\ synced' = synced
<1>1. CASE UNCHANGED vars
  BY <1>1 DEF vars
<1>2. ASSUME NEW h \in Handlers, NEW method \in {"email", "phone", "nebula"}, NEW value \in Identifiers,
             NEW password \in Passwords \cup {"short"},
             register(h, method, value, password) \/ login(h, method, value, password)
      PROVE  Same
  BY <1>2 DEF register, login
<1>3. ASSUME NEW h \in Handlers, NEW p \in Persons, auth_skybridge(h, p)
      PROVE  Same
  BY <1>3 DEF auth_skybridge
<1>4. ASSUME NEW h \in Handlers,
             \/ create_unique_nebula_id(h)
             \/ fetch_skybridge_profile(h)
             \/ generate_skybridge_nebula_id(h)
             \/ find_user_by_skybridge_user_id_for_update(h)
      PROVE  Same
  BY <1>4 DEF create_unique_nebula_id, fetch_skybridge_profile, generate_skybridge_nebula_id,
     find_user_by_skybridge_user_id_for_update
<1>5. ASSUME NEW h \in Handlers,
             \/ insert_user(h) \/ update_skybridge_user(h)
             \/ insert_audit_pool(h) \/ issue_jwt(h) \/ drop_request(h)
      PROVE  Same
  BY <1>5 DEF insert_user, update_skybridge_user, insert_audit_pool, issue_jwt, drop_request
<1>6. ASSUME NEW p \in Persons, NEW edition \in Editions, change_profile(p, edition) PROVE Same
  BY <1>6 DEF change_profile
<1>7. ASSUME NEW h \in Handlers, commit(h)
      PROVE  \E g \in Handlers : commit(g)
  BY <1>7
<1> QED BY <1>1, <1>2, <1>3, <1>4, <1>5, <1>6, <1>7 DEF Next

-----------------------------------------------------------------------------
(* The theorems.                                                           *)

\* Every row, request and profile has its type, whatever is in flight.
THEOREM TypeCorrect == Spec => []TypeOK
<1>1. IInv => TypeOK
  BY DEF IInv
<1> QED BY <1>1, Invariant, PTL

\* issue_jwt: however first sign-ins, registrations and changed addresses overlap,
\* a SkyBridge token names the one row of its person, and a token for a password
\* names a local account that has it.
THEOREM TokensNameTheirOwners == Spec => []TokenNamesItsOwner
<1>1. IInv => TokenNamesItsOwner
  <2> SUFFICES ASSUME IInv, NEW t \in tokens
               PROVE  /\ users[t.sub] # None
                      /\ t.person # None => {i \in Rows : users[i].person = t.person} = {t.sub}
                      /\ t.person = None => /\ users[t.sub].source = "local_dev"
                                            /\ users[t.sub].password = t.proof
    BY DEF TokenNamesItsOwner
  <2>1. Proven(t.sub, t.person, t.proof)
    BY DEF IInv, TokensAreProven
  <2>2. t.sub \in Rows /\ users[t.sub] # None
    BY <2>1 DEF Proven, Rows
  <2>3. ASSUME t.person # None, NEW i \in Rows, users[i].person = t.person PROVE i = t.sub
    <3>1. users[t.sub].person = t.person
      BY <2>1, <2>3 DEF Proven
    <3>2. Collide(users[i], users[t.sub])
      BY <2>3, <3>1 DEF Collide
    <3> QED BY <2>2, <3>2 DEF IInv, RowsAreApart
  <2> QED BY <2>1, <2>2, <2>3 DEF Proven
<1> QED BY <1>1, Invariant, PTL

\* upsert_skybridge_user, insert_user: no write passes a row from one person to
\* another, from a local account to SkyBridge or back, or changes its password.
THEOREM AccountsAreApart == Spec => AccountsStayApart
<1> DEFINE Same(i) == /\ users'[i] # None
                      /\ users'[i].person = users[i].person
                      /\ users'[i].source = users[i].source
                      /\ users'[i].password = users[i].password
<1>1. IInv /\ [Next]_vars => [\A i \in Rows : Same(i)]_vars
  <2> SUFFICES ASSUME IInv, [Next]_vars, NEW i \in Rows PROVE Same(i)
    OBVIOUS
  <2>1. CASE users' = users
    BY <2>1 DEF Rows
  <2>2. ASSUME NEW h \in Handlers, commit(h) PROVE Same(i)
    <3>1. i \in Rows'
      BY <2>2, CommitWrites
    <3>2. users'[i] # None
      BY <3>1 DEF Rows
    <3> QED BY <2>2, <3>2, CommitWrites
  <2> QED BY <2>1, <2>2, OnlyCommitWrites
<1> QED BY <1>1, Invariant, PTL DEF Spec, AccountsStayApart

\* update_skybridge_user, insert_user: a write leaves a person's row as one version
\* of the profile as a whole, and takes it back to an older version only when two
\* sign-ins of that person overlapped.
THEOREM RowsAreOneProfile == Spec => RowIsOneProfile
<1> DEFINE Whole(i) == LET p == users'[i].person
                       IN  /\ IsProfile(users'[i], profiles'[p][synced'[p]])
                           /\ p \notin overlapped' => synced'[p] >= synced[p]
<1>1. IInv /\ IInv' /\ [Next]_vars => [\A i \in Rows' : users'[i].person # None => Whole(i)]_vars
  <2> SUFFICES ASSUME IInv, IInv', [Next]_vars, NEW i \in Rows', users'[i].person # None
               PROVE  Whole(i)
    OBVIOUS
  <2>1. PICK p \in Persons : p = users'[i].person
    BY DEF IInv, TypeOK, Rows, User
  <2>2. IsProfile(users'[i], profiles'[p][synced'[p]])
    BY <2>1 DEF IInv, RowsAreSynced
  <2>3. synced[p] \in Nat
    BY DEF IInv, TypeOK
  <2>4. ASSUME p \notin overlapped' PROVE synced'[p] >= synced[p]
    <3>1. CASE synced' = synced
      BY <2>3, <3>1
    <3>2. ASSUME NEW h \in Handlers, commit(h) PROVE synced'[p] >= synced[p]
      <4>1. CASE handler[h].op = "skybridge" /\ handler[h].person = p
        <5>1. synced'[p] = handler[h].version /\ handler[h].version \in Nat
          BY <3>2, <4>1 DEF commit, IInv, TypeOK, Request
        <5>2. synced[p] <= handler[h].version
          BY <2>4, <3>2, <4>1, AccountsAssumption DEF commit, IInv, OneSignIn, Writing
        <5> QED BY <2>3, <5>1, <5>2
      <4>2. CASE ~ (handler[h].op = "skybridge" /\ handler[h].person = p)
        <5>1. synced'[p] = synced[p]
          BY <3>2, <4>2 DEF commit, IInv, TypeOK
        <5> QED BY <2>3, <5>1
      <4> QED BY <4>1, <4>2
    <3> QED BY <3>1, <3>2, OnlyCommitWrites
  <2> QED BY <2>1, <2>2, <2>4
<1> QED BY <1>1, Invariant, PTL DEF Spec, RowIsOneProfile
=============================================================================
