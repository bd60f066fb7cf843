------------------------------ MODULE Accounts ------------------------------
(***************************************************************************)
(* Accounts and sign-in of the cloud API (apps/cloud-api/src/main.rs):     *)
(* register and login for local accounts, auth_skybridge for people known  *)
(* to the SkyBridge identity provider, and the users table with its unique *)
(* constraints (migrations 0001 to 0004).                                  *)
(*                                                                         *)
(* auth_skybridge fetches the profile over HTTP and then, in one           *)
(* transaction, looks for the user, inserts or updates the row and         *)
(* commits.  The lookup locks the row only when it exists, so two first    *)
(* sign-ins of one person both go on to insert: the unique constraints     *)
(* decide.  A statement that meets an uncommitted row of another           *)
(* transaction with the same key waits for it.  Statements are atomic; a   *)
(* deadlock inside Postgres aborts one of the two, as drop_request does.   *)
(***************************************************************************)
EXTENDS Naturals, Sequences

CONSTANTS
    None,
    Persons,        \* SkyBridge user ids
    Emails, Phones, NebulaIds, Names,
    Passwords,
    Handlers,       \* the requests of a behaviour
    Urls,           \* number of skybridge_api_base_urls
    AllowLocal,     \* allow_local_nebula_registration
    MaxTries,       \* attempts of create_unique_nebula_id
    Editions,       \* profiles, without their Nebula ids, that people may have
    MaxVersions     \* bound: versions of a person's profile

ASSUME AccountsAssumption ==
    /\ None \notin Handlers \cup Persons \cup Emails \cup Phones \cup NebulaIds \cup Names \cup Passwords
    /\ {Urls, MaxTries, MaxVersions} \subseteq Nat /\ AllowLocal \in BOOLEAN
    /\ "sentinel" \notin Passwords

VARIABLES
    users,      \* the committed users table: a user, who has a tenant of its own,
                \* is identified with the request that inserts it
    profiles,   \* the identity provider: the versions of every person's profile
    handler,    \* the requests in flight
    tokens,     \* history: the tokens issued, with what was proved for them
    synced,     \* history: the version of the profile each person's row holds
    overlapped  \* history: persons with two sign-ins in flight at once

vars == <<users, profiles, handler, tokens, synced, overlapped>>

User == [source : {"local_dev", "skybridge"}, person : Persons \cup {None},
         email : Emails \cup {None}, phone : Phones \cup {None}, nebula : NebulaIds,
         name : Names \cup {None}, password : Passwords \cup {"sentinel"}]

Profile == [email : Emails \cup {None}, phone : Phones \cup {None},
            nebula : NebulaIds \cup {None}, name : Names \cup {None}]

ASSUME RowsAssumption == Editions \subseteq Profile /\ None \notin User

\* op: the endpoint; url and tries count attempts; row is the row to be written
\* under id, or the one found by login; version is the profile that was fetched.
IdleHandler == [op |-> None, at |-> "idle", person |-> None, url |-> 1, tries |-> 0,
                version |-> 0, id |-> None, row |-> None, proof |-> None]

Answered == [IdleHandler EXCEPT !.at = "done"]
Finish(h) == handler' = [handler EXCEPT ![h] = Answered]
Goto(h, place) == handler' = [handler EXCEPT ![h].at = place]

Current(p) == profiles[p][Len(profiles[p])]
Rows == {i \in Handlers : users[i] # None}

-----------------------------------------------------------------------------
(* The users table.                                                         *)

\* Two rows share a value under a unique constraint.
Collide(a, b) ==
    \/ a.email # None /\ a.email = b.email
    \/ a.phone # None /\ a.phone = b.phone
    \/ a.nebula = b.nebula
    \/ a.person # None /\ a.person = b.person

\* Rows another transaction has written and not committed.
Uncommitted(h) == {g \in Handlers \ {h} : handler[g].at = "commit"}

\* The statement of h has to wait: its row collides with an uncommitted one, or
\* with a committed one that another transaction is replacing.
Waits(h) == \E g \in Uncommitted(h) :
    \/ Collide(handler[h].row, handler[g].row)
    \/ handler[g].id \in Rows /\ Collide(handler[h].row, users[handler[g].id])

map_identity_unique_conflict(h) ==
    \E i \in Rows \ {handler[h].id} : Collide(handler[h].row, users[i])

\* Row locks: FOR UPDATE is held to the end of the transaction.
Locked(h, i) == \E g \in Handlers \ {h} : handler[g].id = i /\ handler[g].at \in {"update", "commit"}

\* Mutant: an existing address is taken over.
insert_user_Upsert(h) ==
    /\ handler[h].at = "insert"
    /\ ~ Waits(h)
    /\ LET same == {i \in Rows : users[i].email # None /\ users[i].email = handler[h].row.email}
       IN  handler' = [handler EXCEPT ![h].at = "commit",
                          ![h].id = IF same = {} THEN @ ELSE CHOOSE i \in same : TRUE]
    /\ UNCHANGED <<users, profiles, tokens, synced, overlapped>>

\* insert_tenant and insert_user: a conflict is answered with 409.
insert_user(h) ==
    /\ handler[h].at = "insert"
    /\ ~ Waits(h)
    /\ IF map_identity_unique_conflict(h) THEN Finish(h) ELSE Goto(h, "commit")
    /\ UNCHANGED <<users, profiles, tokens, synced, overlapped>>

\* Mutant: the phone number is not among the columns.
SyncedRow_NoPhone(row, profile) ==
    [row EXCEPT !.nebula = profile.nebula, !.email = profile.email,
                !.name = IF profile.name # None THEN profile.name ELSE @]

\* The columns update_skybridge_user sets; a missing name keeps the old one.
SyncedRow(row, profile) ==
    [row EXCEPT !.nebula = profile.nebula, !.email = profile.email, !.phone = profile.phone,
                !.name = IF profile.name # None THEN profile.name ELSE @]

\* update_skybridge_user: a conflict is an internal error.
update_skybridge_user(h) ==
    /\ handler[h].at = "update"
    /\ ~ Waits(h)
    /\ IF map_identity_unique_conflict(h) THEN Finish(h) ELSE Goto(h, "commit")
    /\ UNCHANGED <<users, profiles, tokens, synced, overlapped>>

\* Mutant: a commit that fails is not noticed.
commit_Unchecked(h) ==
    /\ handler[h].at = "commit"
    /\ Goto(h, IF handler[h].op = "skybridge" THEN "audit" ELSE "token")
    /\ UNCHANGED <<users, profiles, tokens, synced, overlapped>>

commit(h) ==
    /\ handler[h].at = "commit"
    /\ users' = [users EXCEPT ![handler[h].id] = handler[h].row]
    /\ synced' = IF handler[h].op = "skybridge"
                 THEN [synced EXCEPT ![handler[h].person] = handler[h].version] ELSE synced
    /\ Goto(h, IF handler[h].op = "skybridge" THEN "audit" ELSE "token")
    /\ UNCHANGED <<profiles, tokens, overlapped>>

-----------------------------------------------------------------------------
(* Local accounts.                                                          *)

\* RegistrationIdentity::from_request: an email or a phone, by the method asked
\* for; a Nebula id is not accepted.
RegistrationIdentity(method, value) ==
    \/ method = "email" /\ value \in Emails
    \/ method = "phone" /\ value \in Phones

register(h, method, value, password) ==
    /\ handler[h].at = "idle"
    /\ handler' = [handler EXCEPT ![h] =
         IF RegistrationIdentity(method, value) /\ password # "short" /\ AllowLocal
         THEN [IdleHandler EXCEPT !.op = "register", !.at = "nebula", !.proof = password,
                 !.row = [source |-> "local_dev", person |-> None, nebula |-> None, name |-> None,
                          email |-> IF method = "email" THEN value ELSE None,
                          phone |-> IF method = "phone" THEN value ELSE None,
                          password |-> password]]
         ELSE Answered]
    /\ UNCHANGED <<users, profiles, tokens, synced, overlapped>>

nebula_id_exists(n) == \E i \in Rows : users[i].nebula = n

\* create_unique_nebula_id: a random id, looked up outside of the transaction.
create_unique_nebula_id(h) ==
    /\ handler[h].at = "nebula"
    /\ \E n \in NebulaIds :
         handler' = [handler EXCEPT ![h] =
             IF ~ nebula_id_exists(n)
             THEN [@ EXCEPT !.at = "insert", !.id = h, !.row.nebula = n, !.tries = 0]
             ELSE IF @.tries + 1 < MaxTries THEN [@ EXCEPT !.tries = handler[h].tries + 1]
             ELSE Answered]
    /\ UNCHANGED <<users, profiles, tokens, synced, overlapped>>

\* find_user_by_login_identity: one column, by the method asked for.
find_user_by_login_identity(method, value) ==
    {i \in Rows : \/ method = "email" /\ users[i].email = value
                  \/ method = "phone" /\ users[i].phone = value
                  \/ method = "nebula" /\ users[i].nebula = value}

ensure_local_password_login_allowed(user) == user.source = "local_dev"
verify_password(user, password) == user.password = password

login(h, method, value, password) ==
    /\ handler[h].at = "idle"
    /\ \E i \in find_user_by_login_identity(method, value) :
         /\ ensure_local_password_login_allowed(users[i])
         /\ verify_password(users[i], password)
         /\ handler' = [handler EXCEPT ![h] = [IdleHandler EXCEPT !.op = "login", !.at = "audit",
                                                  !.id = i, !.proof = password]]
    /\ UNCHANGED <<users, profiles, tokens, synced, overlapped>>

-----------------------------------------------------------------------------
(* SkyBridge.                                                               *)

auth_skybridge(h, p) ==
    /\ handler[h].at = "idle"
    /\ handler' = [handler EXCEPT ![h] = IF Urls = 0 THEN Answered
                      ELSE [IdleHandler EXCEPT !.op = "skybridge", !.at = "fetch", !.person = p]]
    /\ overlapped' = IF \E g \in Handlers : handler[g].person = p THEN overlapped \cup {p}
                     ELSE overlapped
    /\ UNCHANGED <<users, profiles, tokens, synced>>

\* An error of a provider, of whatever kind: the next one is asked.
NextUrl(h) ==
    handler' = [handler EXCEPT ![h] = IF @.url < Urls
                                      THEN [@ EXCEPT !.at = "fetch", !.url = handler[h].url + 1]
                                      ELSE Answered]

\* SkybridgeProfile::try_from_response; an address that does not parse is one
\* more error of the provider.
try_from_response(profile) == profile.nebula # None

\* fetch_skybridge_profile: without a Nebula id one is asked for, once.
fetch_skybridge_profile(h) ==
    /\ handler[h].at \in {"fetch", "refetch"}
    /\ LET profile == Current(handler[h].person)
       IN  \/ NextUrl(h)
           \/ /\ profile.nebula = None /\ handler[h].at = "fetch"
              /\ Goto(h, "generate")
           \/ /\ profile.nebula # None \/ handler[h].at = "refetch"
              /\ IF try_from_response(profile)
                 THEN handler' = [handler EXCEPT ![h].at = "find", ![h].url = 1,
                                     ![h].version = Len(profiles[handler[h].person])]
                 ELSE NextUrl(h)
    /\ UNCHANGED <<users, profiles, tokens, synced, overlapped>>

\* generate_skybridge_nebula_id: the provider makes one, or answers 400, which is
\* taken to mean that there is one.
generate_skybridge_nebula_id(h) ==
    /\ handler[h].at = "generate"
    /\ \/ /\ NextUrl(h)
          /\ UNCHANGED profiles
       \/ /\ Goto(h, "refetch")
          /\ LET p == handler[h].person
             IN  \/ UNCHANGED profiles
                 \/ \E n \in NebulaIds :
                      /\ Current(p).nebula = None
                      /\ \A q \in Persons : Current(q).nebula # n
                      /\ profiles' = [profiles EXCEPT ![p] =
                                         Append(@, [Current(p) EXCEPT !.nebula = n])]
    /\ UNCHANGED <<users, tokens, synced, overlapped>>

Found(h) == {i \in Rows : users[i].person = handler[h].person}

\* find_user_by_skybridge_user_id_for_update, and the row upsert_skybridge_user
\* is going to write.
find_user_by_skybridge_user_id_for_update(h) ==
    /\ handler[h].at = "find"
    /\ LET profile == profiles[handler[h].person][handler[h].version]
           first == [source |-> "skybridge", person |-> handler[h].person, email |-> profile.email,
                     phone |-> profile.phone, nebula |-> profile.nebula, name |-> profile.name,
                     password |-> "sentinel"]
       IN  \/ \E i \in Found(h) :
                /\ ~ Locked(h, i)
                /\ handler' = [handler EXCEPT ![h].at = "update", ![h].id = i,
                      ![h].row = SyncedRow([users[i] EXCEPT !.source = "skybridge",
                                                            !.person = handler[h].person], profile)]
           \/ /\ Found(h) = {}
              /\ handler' = [handler EXCEPT ![h].at = "insert", ![h].id = h, ![h].row = first]
    /\ UNCHANGED <<users, profiles, tokens, synced, overlapped>>

-----------------------------------------------------------------------------
(* The answer, and the world around.                                        *)

\* insert_audit_pool, outside of the transaction: it may fail.
insert_audit_pool(h) ==
    /\ handler[h].at = "audit"
    /\ Goto(h, "token")
    /\ UNCHANGED <<users, profiles, tokens, synced, overlapped>>

issue_jwt(h) ==
    /\ handler[h].at = "token"
    /\ tokens' = tokens \cup {[sub |-> handler[h].id, person |-> handler[h].person,
                               proof |-> handler[h].proof]}
    /\ Finish(h)
    /\ UNCHANGED <<users, profiles, synced, overlapped>>

\* The client goes away, or a statement fails: an open transaction rolls back.
drop_request(h) ==
    /\ handler[h].at \notin {"idle", "done"}
    /\ Finish(h)
    /\ UNCHANGED <<users, profiles, tokens, synced, overlapped>>

\* A person changes the profile at SkyBridge.
change_profile(p, edition) ==
    /\ Len(profiles[p]) < MaxVersions
    /\ LET profile == [edition EXCEPT !.nebula = Current(p).nebula]
       IN  profile # Current(p) /\ profiles' = [profiles EXCEPT ![p] = Append(@, profile)]
    /\ UNCHANGED <<users, handler, tokens, synced, overlapped>>

Init ==
    /\ users = [h \in Handlers |-> None]
    /\ profiles \in [Persons -> {<<edition>> : edition \in Editions}]
    /\ handler = [h \in Handlers |-> IdleHandler]
    /\ tokens = {}
    /\ synced = [p \in Persons |-> 0]
    /\ overlapped = {}

Identifiers == {"malformed"} \cup Emails \cup Phones \cup NebulaIds

Next ==
    \/ \E h \in Handlers :
        \/ \E method \in {"email", "phone", "nebula"}, value \in Identifiers,
              password \in Passwords \cup {"short"} :
             register(h, method, value, password) \/ login(h, method, value, password)
        \/ \E p \in Persons : auth_skybridge(h, p)
        \/ create_unique_nebula_id(h)
        \/ fetch_skybridge_profile(h)
        \/ generate_skybridge_nebula_id(h)
        \/ find_user_by_skybridge_user_id_for_update(h)
        \/ insert_user(h)
        \/ update_skybridge_user(h)
        \/ commit(h)
        \/ insert_audit_pool(h)
        \/ issue_jwt(h)
        \/ drop_request(h)
    \/ \E p \in Persons, edition \in Editions : change_profile(p, edition)

Spec == Init /\ [][Next]_vars

-----------------------------------------------------------------------------
(* Properties.                                                              *)

\* A token names its owner: whoever signs in through SkyBridge, in whatever
\* overlap of first sign-ins, registrations and changed addresses, is given a
\* token of the one user row that is theirs; a token for a password names a local
\* account with that password.
TokenNamesItsOwner ==
    \A t \in tokens :
        /\ users[t.sub] # None
        /\ t.person # None => {i \in Rows : users[i].person = t.person} = {t.sub}
        /\ t.person = None => users[t.sub].source = "local_dev" /\ users[t.sub].password = t.proof

\* An account stays what it is: a row never passes from one person to another,
\* from a local account to SkyBridge or back, and keeps its password (migration
\* 0004, chk_users_identity_anchor).
AccountsStayApart ==
    [][\A i \in Rows :
          /\ users'[i] # None
          /\ users'[i].person = users[i].person
          /\ users'[i].source = users[i].source
          /\ users'[i].password = users[i].password]_vars

IsProfile(user, profile) ==
    /\ user.email = profile.email /\ user.phone = profile.phone /\ user.nebula = profile.nebula
    /\ profile.name # None => user.name = profile.name

\* "skybridge identity synced": every write leaves the row of a person as one
\* version of the profile as a whole, except a name that was left empty, and never
\* takes it back to an older version unless two sign-ins of that person overlapped.
RowIsOneProfile ==
    [][\A i \in Rows' : users'[i].person # None =>
          LET p == users'[i].person
          IN  /\ IsProfile(users'[i], profiles'[p][synced'[p]])
              /\ p \notin overlapped' => synced'[p] >= synced[p]]_vars
=============================================================================
