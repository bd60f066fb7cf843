---------------------------- MODULE Entitlements ----------------------------
(***************************************************************************)
(* Card keys, entitlements, devices and leases in cloud-api                *)
(* (apps/cloud-api/src/main.rs): create_card_keys, redeem_card_key, the    *)
(* test full-access grant, activate_device, issue_lease and                *)
(* revoke_entitlement, as transactions of concurrent request handlers at   *)
(* READ COMMITTED.                                                         *)
(*                                                                         *)
(* activate_device and the test grant hold the user's row FOR UPDATE.      *)
(* Inserting an entitlement, or marking a card redeemed, takes a KEY SHARE *)
(* lock on that row through its foreign key, so it waits for them.         *)
(* issue_lease and revoke_entitlement take no lock on the user.            *)
(*                                                                         *)
(* An entitlement is identified with the card key it came from:            *)
(* uq_entitlements_source_card_key makes that unique.  All entitlements    *)
(* carry default_features(), so features do not rank them.  Time is a      *)
(* discrete clock; every handler reads it with Utc::now().                 *)
(***************************************************************************)
EXTENDS Naturals, FiniteSets, FiniteSetsExt

CONSTANTS
    Users,
    TestUsers,       \* users on the test full-access allow list
    Cards,           \* ids for card keys, and so for entitlements
    Fingerprints,    \* device fingerprints
    Handlers,        \* requests in flight at once
    NoUser, NoCard, NoFingerprint,
    Limits,          \* the values of max_devices in use
    TestLimit,       \* test_full_access_max_devices
    Duration,        \* validity of an entitlement, in ticks
    TestDuration,    \* test_full_access_duration_days, in ticks
    LeaseTerm,       \* 24 hours, in ticks
    MaxTime,         \* bound: the clock stops here
    MaxLeases        \* bound: leases signed in a behaviour

ASSUME TestUsersAssumption == TestUsers \subseteq Users
ASSUME NoUserAssumption == NoUser \notin Users

\* max_devices is a u8 that validate_card_key_limits keeps from 0; a paid order
\* brings 1.
ASSUME LimitsAssumption == Limits \subseteq 1..255 /\ {1, TestLimit} \subseteq Limits
ASSUME TimesAssumption ==
    {Duration, TestDuration, LeaseTerm, MaxTime} \subseteq Nat \ {0}

VARIABLES
    now,
    card,      \* the card_keys table
    ent,       \* the entitlements table, by source_card_key_id
    devices,   \* the active devices: pairs <<user, fingerprint>>
    leases,    \* the leases that were signed
    handler    \* the requests in flight

vars == <<now, card, ent, devices, leases, handler>>

-----------------------------------------------------------------------------
(* Data.                                                                   *)

Card == [status : {"absent", "available", "redeemed"},
         max_devices : Limits, redeemed_by : Users \cup {NoUser}]

\* revoked_at is 0 for NULL: the clock starts at 1.  test marks a row that
\* ensure_test_full_access_entitlement inserted.
Entitlement == [user : Users \cup {NoUser}, expires_at : 0..MaxTime + Max({Duration, TestDuration}),
                revoked_at : 0..MaxTime, test : BOOLEAN]

NoEntitlement == [user |-> NoUser, expires_at |-> 0, revoked_at |-> 0, test |-> FALSE]

\* asked_at is when the handler read the entitlement; the signed lease does not
\* carry it.
Lease == [user : Users, fingerprint : Fingerprints, entitlement : Cards,
          issued_at : 1..MaxTime, expires_at : 0..MaxTime + LeaseTerm,
          asked_at : 1..MaxTime]

\* op: the endpoint.  at: where it is.  ensure: before the test grant.
\* granting: holds the user lock, will insert a grant.  body: before the
\* endpoint's own transaction.  admitted: activate_device holds the user lock
\* and found room for the device.  checked, signing: issue_lease has read the
\* entitlement, has passed the limit check.
Handler == [op : {"none", "me", "activate", "lease"},
            at : {"idle", "ensure", "granting", "body", "admitted",
                  "checked", "signing"},
            user : Users \cup {NoUser},
            fingerprint : Fingerprints \cup {NoFingerprint},
            entitlement : Cards \cup {NoCard},
            asked_at : 0..MaxTime]

IdleHandler == [op |-> "none", at |-> "idle", user |-> NoUser,
                fingerprint |-> NoFingerprint, entitlement |-> NoCard,
                asked_at |-> 0]

-----------------------------------------------------------------------------
(* Queries.                                                                *)

\* Mutant: the query forgets revoked_at IS NULL.
Active_Revoked(u) == {c \in Cards : ent[c].user = u /\ ent[c].expires_at > now}

\* WHERE user_id = $1 AND revoked_at IS NULL AND expires_at > now.
Active(u) == {c \in Cards : /\ ent[c].user = u
                            /\ ent[c].revoked_at = 0
                            /\ ent[c].expires_at > now}

\* ORDER BY max_devices DESC, expires_at DESC LIMIT 1 (any of the equals).
Best(u) == {c \in Active(u) : \A d \in Active(u) :
               \/ card[c].max_devices > card[d].max_devices
               \/ /\ card[c].max_devices = card[d].max_devices
                  /\ ent[c].expires_at >= ent[d].expires_at}

\* find_active_entitlement_with_card_limit_for_user.
LimitOf(u) == Max({card[c].max_devices : c \in Active(u)})

\* has_active_full_access_entitlement.  Every card here is of the plan standard_30d with the
\* default features; others, which an administrator may mint, do not count in the code.
HasFullAccess(u) == \E c \in Active(u) : card[c].max_devices >= TestLimit

ActiveDevices(u) == {f \in Fingerprints : <<u, f>> \in devices}

\* Mutant: off by one.
AllowsNewActivation_OneMore(count, limit) == count <= limit

\* device_limit_allows_new_activation, device_limit_allows_active_fleet.
AllowsNewActivation(count, limit) == count < limit
AllowsActiveFleet(count, limit) == count <= limit

\* lock_user_for_update holds until the end of the transaction.
UserLocked(u) == \E i \in Handlers : /\ handler[i].user = u
                                     /\ handler[i].at \in {"granting", "admitted"}

-----------------------------------------------------------------------------
(* Card keys and entitlements.                                             *)

\* The rows that redeem_card_key, provision_paid_order_entitlement and the test
\* grant write: a redeemed card key and its entitlement.
InsertEntitlement(c, u, limit, test) ==
    /\ card' = [card EXCEPT ![c] = [status |-> "redeemed", max_devices |-> limit,
                                    redeemed_by |-> u]]
    /\ ent' = [ent EXCEPT ![c] = [user |-> u, expires_at |-> now + (IF test THEN TestDuration ELSE Duration),
                                  revoked_at |-> 0, test |-> test]]

\* create_card_keys, and the card key of confirm_order: no user is involved yet.
create_card_key(c, limit) ==
    /\ card[c].status = "absent"
    /\ card' = [card EXCEPT ![c] = [status |-> "available", max_devices |-> limit,
                                    redeemed_by |-> NoUser]]
    /\ UNCHANGED <<now, ent, devices, leases, handler>>

\* Mutant: the status of the card key is not looked at.
redeem_card_key_Again(c, u) ==
    /\ card[c].status # "absent"
    /\ ~ UserLocked(u)
    /\ InsertEntitlement(c, u, card[c].max_devices, FALSE)
    /\ UNCHANGED <<now, devices, leases, handler>>

\* The row of the card key is held FOR UPDATE from the lookup to the commit.
redeem_card_key(c, u) ==
    /\ card[c].status = "available"
    /\ ~ UserLocked(u)
    /\ InsertEntitlement(c, u, card[c].max_devices, FALSE)
    /\ UNCHANGED <<now, devices, leases, handler>>

\* provision_paid_order_entitlement: a paid order brings one device for 30 days.
provision_paid_order(c, u) ==
    /\ card[c].status = "absent"
    /\ ~ UserLocked(u)
    /\ InsertEntitlement(c, u, 1, FALSE)
    /\ UNCHANGED <<now, devices, leases, handler>>

\* revoke_entitlement_by_id has no condition on revoked_at: a second call moves it.
revoke_entitlement(c) ==
    /\ ent[c].user # NoUser
    /\ ent' = [ent EXCEPT ![c].revoked_at = now]
    /\ UNCHANGED <<now, card, devices, leases, handler>>

-----------------------------------------------------------------------------
(* Requests of a user.                                                     *)

\* GET /me, POST /devices/activate, POST /leases.  For a user on the allow list
\* each starts with ensure_test_full_access_entitlement.
request(i, op, u, f) ==
    /\ handler[i].at = "idle"
    /\ op = "me" => u \in TestUsers
    /\ handler' = [handler EXCEPT ![i] =
                      [IdleHandler EXCEPT !.op = op, !.user = u, !.fingerprint = f,
                          !.at = IF u \in TestUsers THEN "ensure" ELSE "body"]]
    /\ UNCHANGED <<now, card, ent, devices, leases>>

\* After the grant a handler goes on; GET /me has nothing more to change.
GoOn(i) == handler' = [handler EXCEPT ![i] =
                          IF handler[i].op = "me" THEN IdleHandler
                          ELSE [handler[i] EXCEPT !.at = "body"]]

\* Mutant: the user is not locked.
ensure_test_full_access_Unlocked(i) ==
    /\ handler[i].at = "ensure"
    /\ IF HasFullAccess(handler[i].user)
       THEN GoOn(i)
       ELSE handler' = [handler EXCEPT ![i].at = "granting"]
    /\ UNCHANGED <<now, card, ent, devices, leases>>

\* ensure_test_full_access_entitlement: lock the user, look for full access ...
ensure_test_full_access(i) ==
    /\ handler[i].at = "ensure"
    /\ ~ UserLocked(handler[i].user)
    /\ IF HasFullAccess(handler[i].user)
       THEN GoOn(i)
       ELSE handler' = [handler EXCEPT ![i].at = "granting"]
    /\ UNCHANGED <<now, card, ent, devices, leases>>

\* ... and insert a card key that is already redeemed, with its entitlement.
grant_test_full_access(i, c) ==
    /\ handler[i].at = "granting"
    /\ card[c].status = "absent"
    /\ InsertEntitlement(c, handler[i].user, TestLimit, TRUE)
    /\ GoOn(i)
    /\ UNCHANGED <<now, devices, leases>>

\* activate_device: lock the user, read the limit, count the devices.  A device
\* that is already active is not counted against the limit.
activate_device(i) ==
    LET u == handler[i].user
        f == handler[i].fingerprint
    IN  /\ handler[i].at = "body" /\ handler[i].op = "activate"
        /\ ~ UserLocked(u)
        /\ IF /\ Active(u) # {}
              /\ \/ <<u, f>> \in devices
                 \/ AllowsNewActivation(Cardinality(ActiveDevices(u)), LimitOf(u))
           THEN handler' = [handler EXCEPT ![i].at = "admitted"]
           ELSE handler' = [handler EXCEPT ![i] = IdleHandler]
        /\ UNCHANGED <<now, card, ent, devices, leases>>

\* ... upsert_device and commit.
upsert_device(i) ==
    /\ handler[i].at = "admitted"
    /\ devices' = devices \cup {<<handler[i].user, handler[i].fingerprint>>}
    /\ handler' = [handler EXCEPT ![i] = IdleHandler]
    /\ UNCHANGED <<now, card, ent, leases>>

\* issue_lease, first statements: the device is active, and the best active
\* entitlement is read.  Nothing is locked.
issue_lease(i) ==
    LET u == handler[i].user
    IN  /\ handler[i].at = "body" /\ handler[i].op = "lease"
        /\ IF <<u, handler[i].fingerprint>> \in devices /\ Active(u) # {}
           THEN \E c \in Best(u) :
                   handler' = [handler EXCEPT ![i].at = "checked",
                                              ![i].entitlement = c,
                                              ![i].asked_at = now]
           ELSE handler' = [handler EXCEPT ![i] = IdleHandler]
        /\ UNCHANGED <<now, card, ent, devices, leases>>

\* enforce_device_limit_for_lease reads the entitlement anew, and the fleet.
enforce_device_limit_for_lease(i) ==
    LET u == handler[i].user
    IN  /\ handler[i].at = "checked"
        /\ IF /\ Active(u) # {}
              /\ AllowsActiveFleet(Cardinality(ActiveDevices(u)), LimitOf(u))
           THEN handler' = [handler EXCEPT ![i].at = "signing"]
           ELSE handler' = [handler EXCEPT ![i] = IdleHandler]
        /\ UNCHANGED <<now, card, ent, devices, leases>>

\* EntitlementLease::new and sign_entitlement_lease, after the commit, from the
\* entitlement that was read first.
sign_entitlement_lease(i) ==
    LET e == handler[i].entitlement
    IN  /\ handler[i].at = "signing"
        /\ Cardinality(leases) < MaxLeases
        /\ leases' = leases \cup
              {[user |-> handler[i].user, fingerprint |-> handler[i].fingerprint,
                entitlement |-> e, issued_at |-> now,
                expires_at |-> Min({now + LeaseTerm, ent[e].expires_at}),
                asked_at |-> handler[i].asked_at]}
        /\ handler' = [handler EXCEPT ![i] = IdleHandler]
        /\ UNCHANGED <<now, card, ent, devices>>

\* The client goes away or the process dies: an open transaction rolls back.
drop_request(i) ==
    /\ handler[i].at # "idle"
    /\ handler' = [handler EXCEPT ![i] = IdleHandler]
    /\ UNCHANGED <<now, card, ent, devices, leases>>

tick ==
    /\ now < MaxTime
    /\ now' = now + 1
    /\ UNCHANGED <<card, ent, devices, leases, handler>>

-----------------------------------------------------------------------------

Init ==
    /\ now = 1
    /\ card = [c \in Cards |-> [status |-> "absent", max_devices |-> TestLimit,
                                redeemed_by |-> NoUser]]
    /\ ent = [c \in Cards |-> NoEntitlement]
    /\ devices = {}
    /\ leases = {}
    /\ handler = [i \in Handlers |-> IdleHandler]

Next ==
    \/ \E c \in Cards, limit \in Limits : create_card_key(c, limit)
    \/ \E c \in Cards, u \in Users : redeem_card_key(c, u)
    \/ \E c \in Cards, u \in Users : provision_paid_order(c, u)
    \/ \E c \in Cards : revoke_entitlement(c)
    \/ \E i \in Handlers, op \in {"me", "activate", "lease"}, u \in Users,
          f \in Fingerprints : request(i, op, u, f)
    \/ \E i \in Handlers : ensure_test_full_access(i)
    \/ \E i \in Handlers, c \in Cards : grant_test_full_access(i, c)
    \/ \E i \in Handlers : activate_device(i)
    \/ \E i \in Handlers : upsert_device(i)
    \/ \E i \in Handlers : issue_lease(i)
    \/ \E i \in Handlers : enforce_device_limit_for_lease(i)
    \/ \E i \in Handlers : sign_entitlement_lease(i)
    \/ \E i \in Handlers : drop_request(i)
    \/ tick

Spec == Init /\ [][Next]_vars

-----------------------------------------------------------------------------
(* Properties.                                                             *)

\* README: "Card-key max_devices is enforced during device activation".  However
\* activations, grants, redemptions, revocations and expiry interleave, a user
\* never has more active devices than the largest limit they ever held.
FleetWithinEarnedLimit ==
    \A u \in Users :
        LET earned == {card[c].max_devices : c \in {d \in Cards : ent[d].user = u}}
        IN  Cardinality(ActiveDevices(u)) <= IF earned = {} THEN 0 ELSE Max(earned)

\* A card key is spent by one user, once: its entitlement belongs to the user
\* that the card names, and neither ever changes hands.
SpentOnce ==
    [][\A c \in Cards :
          card[c].status = "redeemed" =>
              /\ card'[c] = card[c]
              /\ ent'[c].user = card[c].redeemed_by
              /\ ent'[c].expires_at = ent[c].expires_at]_vars

\* The allow list grants a user one entitlement at a time: concurrent requests
\* of one user never leave two test grants active.
OneActiveTestGrant ==
    \A u \in Users : Cardinality({c \in Active(u) : ent[c].test}) <= 1

\* A lease is signed for its own user's device and entitlement, never outlives
\* that entitlement or the lease term, and comes from a request that read the
\* entitlement before it was revoked or expired: revoking stops every later
\* request, though not one that is already past its read.
LeaseFollowsEntitlement ==
    \A l \in leases :
        LET e == ent[l.entitlement]
        IN  /\ <<l.user, l.fingerprint>> \in devices
            /\ e.user = l.user
            /\ l.expires_at <= e.expires_at
            /\ l.expires_at <= l.issued_at + LeaseTerm
            /\ l.asked_at < e.expires_at
            /\ e.revoked_at # 0 => l.asked_at <= e.revoked_at
=============================================================================
