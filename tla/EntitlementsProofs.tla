------------------------- MODULE EntitlementsProofs -------------------------
(***************************************************************************)
(* Proofs about Entitlements, for every set of users, card keys, devices   *)
(* and requests in flight, and every limit and term.                       *)
(*                                                                         *)
(* The inductive invariant says what the user lock protects: at most one   *)
(* request holds the lock of a user (OneLockPerUser), so what its holder   *)
(* read still stands when it writes: there is room for the device          *)
(* (AdmittedHasRoom), and no full access yet (GrantIsFirst).  issue_lease  *)
(* holds no lock, so what it has read is only as fresh as its asked_at     *)
(* says (ReadsArePast).                                                    *)
(***************************************************************************)
EXTENDS Entitlements, FiniteSetTheorems, TLAPS

TypeOK ==
    /\ now \in 1..MaxTime
    /\ card \in [Cards -> Card]
    /\ ent \in [Cards -> Entitlement]
    /\ devices \subseteq Users \X Fingerprints
    /\ leases \subseteq Lease
    /\ handler \in [Handlers -> Handler]

\* A card key and its entitlement name the same user, or neither has one yet.
CardsMatch ==
    \A c \in Cards :
        /\ ent[c].user = card[c].redeemed_by
        /\ card[c].status = "redeemed" <=> card[c].redeemed_by # NoUser
        /\ ent[c].test => card[c].status = "redeemed" /\ card[c].max_devices = TestLimit

Locking(i) == handler[i].at \in {"granting", "admitted"}

RequestsNameUsers ==
    \A i \in Handlers : handler[i].at # "idle" =>
        handler[i].user \in Users /\ handler[i].fingerprint \in Fingerprints

OneLockPerUser ==
    \A i, j \in Handlers :
        Locking(i) /\ Locking(j) /\ handler[i].user = handler[j].user => i = j

\* Some entitlement of the user, whatever became of it, covers a fleet of n.
Covered(u, n) == \E c \in Cards : ent[c].user = u /\ n <= card[c].max_devices

FleetIsCovered ==
    \A u \in Users :
        /\ IsFiniteSet(ActiveDevices(u))
        /\ ActiveDevices(u) # {} => Covered(u, Cardinality(ActiveDevices(u)))

AdmittedHasRoom ==
    \A i \in Handlers : handler[i].at = "admitted" =>
        LET u == handler[i].user
        IN  \/ <<u, handler[i].fingerprint>> \in devices
            \/ Covered(u, Cardinality(ActiveDevices(u)) + 1)

GrantIsFirst ==
    \A i \in Handlers : handler[i].at = "granting" => ~ HasFullAccess(handler[i].user)

OneTestEach ==
    \A u \in Users : \A c, d \in Active(u) : ent[c].test /\ ent[d].test => c = d

\* What issue_lease read at asked_at.
ReadAt(t, u, f, e) ==
    /\ <<u, f>> \in devices
    /\ ent[e].user = u
    /\ t \in 1..now
    /\ t < ent[e].expires_at
    /\ ent[e].revoked_at # 0 => t <= ent[e].revoked_at

ReadsArePast ==
    \A i \in Handlers : handler[i].at \in {"checked", "signing"} =>
        /\ handler[i].entitlement \in Cards
        /\ ReadAt(handler[i].asked_at, handler[i].user, handler[i].fingerprint,
                  handler[i].entitlement)

LeasesArePast ==
    \A l \in leases :
        /\ ReadAt(l.asked_at, l.user, l.fingerprint, l.entitlement)
        /\ l.expires_at <= ent[l.entitlement].expires_at
        /\ l.expires_at <= l.issued_at + LeaseTerm

IInv ==
    /\ TypeOK
    /\ CardsMatch
    /\ RequestsNameUsers
    /\ OneLockPerUser
    /\ FleetIsCovered
    /\ AdmittedHasRoom
    /\ GrantIsFirst
    /\ OneTestEach
    /\ ReadsArePast
    /\ LeasesArePast

-----------------------------------------------------------------------------
(* The operators of the queries.                                           *)

\* The limit that activate_device reads: a bounded, non-empty set of numbers
\* has a largest member, and Max is it.
LEMMA MaxIsLargest ==
    ASSUME NEW S, S \subseteq Nat, S # {}, NEW b \in Nat, \A x \in S : x <= b
    PROVE  /\ Max(S) \in S
           /\ \A x \in S : x <= Max(S)
<1> DEFINE Lt == {ss \in Nat \X Nat : ss[1] < ss[2]}
           T == {b - x : x \in S}
<1>1. IsWellFoundedOn(Lt, Nat)
  BY NatLessThanWellFounded DEF OpToRel
<1>2. T \subseteq Nat /\ T # {}
  <2>1. \A x \in S : b - x \in Nat
    OBVIOUS
  <2>2. PICK x \in S : TRUE
    OBVIOUS
  <2>3. b - x \in T
    BY <2>2, Zenon
  <2>4. T \subseteq Nat
    BY <2>1, Zenon
  <2> QED BY <2>3, <2>4
<1>3. \E x \in T : \A y \in T : ~ (<<y, x>> \in Lt)
  <2> HIDE DEF Lt, T
  <2> QED BY <1>1, <1>2, WFMin, Zenon
<1>4. PICK m \in S : \A y \in T : ~ (<<y, b - m>> \in Lt)
  BY <1>3
<1>5. \A y \in S : y <= m
  <2> SUFFICES ASSUME NEW y \in S PROVE y <= m
    OBVIOUS
  <2>1. ~ (<<b - y, b - m>> \in Lt)
    BY <1>4
  <2>2. b - y \in Nat /\ b - m \in Nat
    OBVIOUS
  <2>3. ~ (b - y < b - m)
    BY <2>1, <2>2
  <2> QED BY <2>3
<1>6. \E x \in S : \A y \in S : x >= y
  BY <1>5
<1> QED BY <1>6 DEF Max

\* Limits are a u8 each.
LEMMA LimitsAreNumbers == TestLimit \in Limits /\ 1 \in Limits /\ Limits \subseteq Nat
BY LimitsAssumption

\* The end of a lease: the smaller of its term and the entitlement's end.
LEMMA MinOfTwo ==
    ASSUME NEW a \in Nat, NEW b \in Nat
    PROVE  Min({a, b}) \in {a, b} /\ Min({a, b}) <= a /\ Min({a, b}) <= b
<1>1. \E x \in {a, b} : \A y \in {a, b} : x =< y
  <2>1. CASE a <= b BY <2>1
  <2>2. CASE b <= a BY <2>2
  <2> QED BY <2>1, <2>2
<1> QED BY <1>1 DEF Min

\* The end of an entitlement that is inserted now is well typed.
LEMMA TermsFit ==
    ASSUME now \in 1..MaxTime
    PROVE  \A d \in {Duration, TestDuration} :
               now + d \in 0..MaxTime + Max({Duration, TestDuration})
<1> DEFINE D == {Duration, TestDuration}
<1>1. D \subseteq Nat /\ D # {} /\ Duration + TestDuration \in Nat
      /\ \A x \in D : x <= Duration + TestDuration
  BY TimesAssumption
<1>2. Max(D) \in D /\ \A x \in D : x <= Max(D)
  <2> HIDE DEF D
  <2> QED BY <1>1, MaxIsLargest
<1> QED BY <1>1, <1>2, TimesAssumption

\* find_active_entitlement_with_card_limit_for_user: the limit is that of an
\* active entitlement.
LEMMA LimitIsHeld ==
    ASSUME TypeOK, NEW u \in Users, Active(u) # {}
    PROVE  \E c \in Active(u) : LimitOf(u) = card[c].max_devices
<1> DEFINE S == {card[c].max_devices : c \in Active(u)}
<1>1. Active(u) \subseteq Cards
  BY DEF Active
<1>2. \A c \in Active(u) : card[c].max_devices \in 1..255
  BY <1>1, LimitsAssumption DEF TypeOK, Card
<1>3. S \subseteq Nat /\ S # {} /\ 255 \in Nat /\ \A x \in S : x <= 255
  BY SMTT(30), <1>2
<1>4. Max(S) \in S
  <2> HIDE DEF S
  <2> QED BY <1>3, MaxIsLargest
<1> QED BY <1>4 DEF LimitOf

-----------------------------------------------------------------------------
\* The initial state: no card key is spent, nothing is in flight.
LEMMA InitHolds == Init => IInv
<1> SUFFICES ASSUME Init PROVE IInv
  OBVIOUS
<1> USE DEF Init
<1>1. TypeOK
  <2>1. Max({Duration, TestDuration}) \in Nat
    <3> DEFINE D == {Duration, TestDuration}
    <3>1. D \subseteq Nat /\ D # {} /\ Duration + TestDuration \in Nat
          /\ \A x \in D : x <= Duration + TestDuration
      BY TimesAssumption
    <3>2. Max(D) \in D
      <4> HIDE DEF D
      <4> QED BY <3>1, MaxIsLargest
    <3> QED BY <3>1, <3>2
  <2>2. NoEntitlement \in Entitlement
    BY <2>1, TimesAssumption DEF NoEntitlement, Entitlement
  <2>3. IdleHandler \in Handler
    BY TimesAssumption DEF IdleHandler, Handler
  <2> QED BY <2>2, <2>3, TimesAssumption, LimitsAssumption DEF TypeOK, Card
<1>2. CardsMatch
  BY DEF CardsMatch, NoEntitlement
<1>3. FleetIsCovered
  <2>1. \A u : ActiveDevices(u) = {}
    BY DEF ActiveDevices
  <2> QED BY <2>1, FS_EmptySet DEF FleetIsCovered
<1>4. \A u \in Users : Active(u) = {}
  BY NoUserAssumption DEF Active, NoEntitlement
<1> QED
  BY <1>1, <1>2, <1>3, <1>4 DEF IInv, RequestsNameUsers, OneLockPerUser, Locking,
     AdmittedHasRoom, GrantIsFirst, OneTestEach, ReadsArePast, LeasesArePast,
     IdleHandler

-----------------------------------------------------------------------------
(* Kinds of step.                                                          *)

\* One request moves and no table changes: the invariant holds as soon as the
\* request's new place is justified by what it just read.
LEMMA RequestStep ==
    ASSUME IInv, NEW i \in Handlers, NEW h \in Handler,
           handler' = [handler EXCEPT ![i] = h],
           UNCHANGED <<now, card, ent, devices, leases>>,
           h.at # "idle" => h.user \in Users /\ h.fingerprint \in Fingerprints,
           h.at \in {"granting", "admitted"} => ~ UserLocked(h.user),
           h.at = "admitted" =>
               \/ <<h.user, h.fingerprint>> \in devices
               \/ Covered(h.user, Cardinality(ActiveDevices(h.user)) + 1),
           h.at = "granting" => ~ HasFullAccess(h.user),
           h.at \in {"checked", "signing"} =>
               /\ h.entitlement \in Cards
               /\ ReadAt(h.asked_at, h.user, h.fingerprint, h.entitlement)
    PROVE  IInv'
<1>1. /\ handler'[i] = h
      /\ \A j \in Handlers : j # i => handler'[j] = handler[j]
      /\ handler' \in [Handlers -> Handler]
  BY DEF IInv, TypeOK
<1>2. TypeOK'
  BY <1>1 DEF IInv, TypeOK
<1>3. CardsMatch' /\ OneTestEach'
  BY DEF IInv, CardsMatch, OneTestEach, Active
<1>4. \A u : /\ ActiveDevices(u)' = ActiveDevices(u)
             /\ HasFullAccess(u)' = HasFullAccess(u)
             /\ \A n : Covered(u, n)' = Covered(u, n)
  BY DEF ActiveDevices, HasFullAccess, Active, Covered
<1>5. FleetIsCovered'
  BY <1>4 DEF IInv, FleetIsCovered
<1>6. \A t, u, f, e : ReadAt(t, u, f, e)' = ReadAt(t, u, f, e)
  BY DEF ReadAt
<1>7. LeasesArePast'
  BY <1>6 DEF IInv, LeasesArePast
<1>8. RequestsNameUsers'
  BY <1>1 DEF IInv, RequestsNameUsers
<1>9. OneLockPerUser'
  BY <1>1 DEF IInv, OneLockPerUser, Locking, UserLocked
<1>10. AdmittedHasRoom'
  BY <1>1, <1>4 DEF IInv, AdmittedHasRoom
<1>11. GrantIsFirst'
  BY <1>1, <1>4 DEF IInv, GrantIsFirst
<1>12. ReadsArePast'
  BY <1>1, <1>6 DEF IInv, ReadsArePast
<1> QED
  BY <1>2, <1>3, <1>5, <1>7, <1>8, <1>9, <1>10, <1>11, <1>12 DEF IInv

\* A card key is spent: it was nobody's before, so no fleet, request or lease
\* depends on what its entitlement was.  Requests stay where they are, or go on
\* from a grant, and none is left that holds the lock of the user.
LEMMA InsertStep ==
    ASSUME IInv, NEW c \in Cards, NEW u \in Users, NEW limit \in Limits,
           NEW test \in BOOLEAN,
           card[c].status # "redeemed",
           InsertEntitlement(c, u, limit, test),
           test => limit = TestLimit /\ ~ HasFullAccess(u),
           UNCHANGED <<now, devices, leases>>,
           handler' \in [Handlers -> Handler],
           \A j \in Handlers : \/ handler'[j] = handler[j]
                               \/ handler'[j].at = "idle"
                               \/ /\ handler'[j].at = "body"
                                  /\ handler'[j].user \in Users
                                  /\ handler'[j].fingerprint \in Fingerprints,
           \A j \in Handlers : handler'[j].at = "granting" => handler[j].user # u
    PROVE  IInv'
<1> DEFINE row == [user |-> u, expires_at |-> now + (IF test THEN TestDuration ELSE Duration),
                   revoked_at |-> 0, test |-> test]
           key == [status |-> "redeemed", max_devices |-> limit, redeemed_by |-> u]
<1>1. row \in Entitlement /\ key \in Card
  <2>1. row.expires_at \in 0..MaxTime + Max({Duration, TestDuration})
    BY TermsFit DEF IInv, TypeOK
  <2> QED BY <2>1, TimesAssumption DEF Entitlement, Card
<1>2. /\ card'[c] = key /\ ent'[c] = row
      /\ \A d \in Cards : d # c => card'[d] = card[d] /\ ent'[d] = ent[d]
      /\ card' \in [Cards -> Card] /\ ent' \in [Cards -> Entitlement]
  BY <1>1 DEF InsertEntitlement, IInv, TypeOK
<1>3. ent[c].user = NoUser
  BY DEF IInv, CardsMatch
<1>4. TypeOK'
  BY <1>2 DEF IInv, TypeOK
<1>5. CardsMatch'
  BY <1>2, NoUserAssumption DEF IInv, CardsMatch
<1>6. RequestsNameUsers'
  BY DEF IInv, RequestsNameUsers
<1>7. OneLockPerUser'
  BY DEF IInv, OneLockPerUser, Locking
<1>8. \A v \in Users : /\ ActiveDevices(v)' = ActiveDevices(v)
                       /\ \A n : Covered(v, n) => Covered(v, n)'
  <2>1. \A v : ActiveDevices(v)' = ActiveDevices(v)
    BY DEF ActiveDevices
  <2>2. ASSUME NEW v \in Users, NEW n, Covered(v, n) PROVE Covered(v, n)'
    <3>1. PICK d \in Cards : ent[d].user = v /\ n <= card[d].max_devices
      BY <2>2 DEF Covered
    <3>2. d # c
      BY <3>1, <1>3, NoUserAssumption
    <3> QED BY <3>1, <3>2, <1>2 DEF Covered
  <2> QED BY <2>1, <2>2
<1>9. FleetIsCovered'
  BY <1>8 DEF IInv, FleetIsCovered
<1>10. AdmittedHasRoom'
  BY <1>8 DEF IInv, AdmittedHasRoom, RequestsNameUsers
<1>11. \A v \in Users : /\ Active(v)' \subseteq Active(v) \cup {c}
                        /\ v # u => Active(v)' \subseteq Active(v)
  BY <1>2 DEF Active
<1>12. GrantIsFirst'
  <2>1. ASSUME NEW v \in Users, v # u, ~ HasFullAccess(v) PROVE ~ HasFullAccess(v)'
    BY <2>1, <1>2 DEF HasFullAccess, Active
  <2>2. ASSUME NEW j \in Handlers, handler'[j].at = "granting"
        PROVE  /\ handler'[j].user \in Users
               /\ ~ HasFullAccess(handler[j].user)'
    <3>1. PICK v \in Users : v = handler[j].user /\ v # u /\ handler'[j] = handler[j]
      BY <2>2 DEF IInv, RequestsNameUsers
    <3>2. ~ HasFullAccess(v)'
      BY <2>1, <2>2, <3>1 DEF IInv, GrantIsFirst
    <3> QED BY <3>1, <3>2 DEF HasFullAccess, Active
  <2> QED BY <2>2 DEF GrantIsFirst
<1>13. OneTestEach'
  <2> SUFFICES ASSUME NEW v \in Users, NEW d \in Active(v)', NEW e \in Active(v)',
                      ent'[d].test, ent'[e].test, d # e
               PROVE  FALSE
    BY DEF OneTestEach
  <2>1. d \in Cards /\ e \in Cards
    BY DEF Active
  <2>2. CASE d # c /\ e # c
    BY <1>2, <1>11, <2>1, <2>2 DEF IInv, OneTestEach
  <2>3. ASSUME NEW x \in Cards, x # c, x \in Active(v)', c \in Active(v)',
               ent'[x].test, ent'[c].test
        PROVE  FALSE
    <3>1. v = u /\ test
      BY <2>3, <1>2 DEF Active
    <3>2. x \in Active(u) /\ ent[x].test
      BY <2>3, <3>1, <1>2, <1>11
    <3>3. card[x].max_devices = TestLimit
      BY <3>2, <2>3 DEF IInv, CardsMatch
    <3>4. TestLimit >= TestLimit
      BY LimitsAreNumbers
    <3> QED BY <3>1, <3>2, <3>3, <3>4 DEF HasFullAccess
  <2>4. CASE d = c
    BY <2>1, <2>3, <2>4
  <2>5. CASE e = c
    BY <2>1, <2>3, <2>5
  <2> QED BY <2>2, <2>4, <2>5
<1>14. \A t, v, f : \A e \in Cards : v # NoUser /\ ReadAt(t, v, f, e) =>
           ReadAt(t, v, f, e)' /\ ent'[e] = ent[e]
  BY <1>2, <1>3 DEF ReadAt
<1>15. ReadsArePast'
  BY <1>14, NoUserAssumption DEF IInv, ReadsArePast, RequestsNameUsers
<1>16. LeasesArePast'
  BY <1>14, NoUserAssumption DEF IInv, LeasesArePast, TypeOK, Lease
<1> QED
  BY <1>4, <1>5, <1>6, <1>7, <1>9, <1>10, <1>12, <1>13, <1>15, <1>16 DEF IInv

\* A handler that goes on from the test grant serves its endpoint, or is done.
LEMMA GoOnIsHarmless ==
    ASSUME IInv, NEW i \in Handlers, handler[i].at # "idle", GoOn(i)
    PROVE  /\ handler' \in [Handlers -> Handler]
           /\ \A j \in Handlers : j # i => handler'[j] = handler[j]
           /\ \/ handler'[i] = IdleHandler
              \/ handler'[i] = [handler[i] EXCEPT !.at = "body"]
           /\ handler' = [handler EXCEPT ![i] = handler'[i]]
           /\ handler'[i].at \in {"idle", "body"}
           /\ handler'[i].at = "body" => /\ handler'[i].user \in Users
                                         /\ handler'[i].fingerprint \in Fingerprints
<1>1. IdleHandler \in Handler /\ [handler[i] EXCEPT !.at = "body"] \in Handler
  BY TimesAssumption DEF IdleHandler, Handler, IInv, TypeOK
<1>2. /\ handler' \in [Handlers -> Handler]
      /\ \A j \in Handlers : j # i => handler'[j] = handler[j]
      /\ \/ handler'[i] = IdleHandler
         \/ handler'[i] = [handler[i] EXCEPT !.at = "body"]
      /\ handler' = [handler EXCEPT ![i] = handler'[i]]
  BY <1>1 DEF GoOn, IInv, TypeOK
<1>3. handler[i] \in Handler /\ handler[i].user \in Users /\ handler[i].fingerprint \in Fingerprints
  BY DEF IInv, TypeOK, RequestsNameUsers
<1>4. CASE handler'[i] = IdleHandler
  BY <1>2, <1>4 DEF IdleHandler
<1>5. CASE handler'[i] = [handler[i] EXCEPT !.at = "body"]
  BY <1>2, <1>3, <1>5 DEF Handler
<1> QED BY <1>2, <1>4, <1>5

-----------------------------------------------------------------------------
(* One lemma per group of actions.                                         *)

\* Card keys: created, redeemed, sold with an order.
LEMMA CardStepKeeps ==
    ASSUME IInv, NEW c \in Cards
    PROVE  /\ \A limit \in Limits : create_card_key(c, limit) => IInv'
           /\ \A u \in Users : redeem_card_key(c, u) => IInv'
           /\ \A u \in Users : provision_paid_order(c, u) => IInv'
<1>1. ASSUME NEW limit \in Limits, create_card_key(c, limit) PROVE IInv'
  <2> DEFINE key == [status |-> "available", max_devices |-> limit, redeemed_by |-> NoUser]
  <2>1. /\ card'[c] = key
        /\ \A d \in Cards : d # c => card'[d] = card[d]
        /\ card' \in [Cards -> Card]
    BY <1>1 DEF create_card_key, IInv, TypeOK, Card
  <2>2. ent[c].user = NoUser /\ card[c].redeemed_by = NoUser
    BY <1>1 DEF create_card_key, IInv, CardsMatch
  <2>3. TypeOK' /\ RequestsNameUsers' /\ OneLockPerUser'
    BY <1>1, <2>1 DEF create_card_key, IInv, TypeOK, RequestsNameUsers, OneLockPerUser, Locking
  <2>4. \A u \in Users : /\ Active(u)' = Active(u)
                         /\ c \notin Active(u)
                         /\ ActiveDevices(u)' = ActiveDevices(u)
    BY <1>1, <2>2, NoUserAssumption DEF create_card_key, Active, ActiveDevices
  <2>5. \A u \in Users : HasFullAccess(u)' <=> HasFullAccess(u)
    BY <1>1, <2>1, <2>2, NoUserAssumption DEF create_card_key, HasFullAccess, Active
  <2>6. \A u \in Users : \A n : Covered(u, n) => Covered(u, n)'
    BY <1>1, <2>1, <2>2, NoUserAssumption DEF create_card_key, Covered
  <2>7. CardsMatch'
    BY <1>1, <2>1, <2>2 DEF create_card_key, IInv, CardsMatch
  <2>8. FleetIsCovered' /\ AdmittedHasRoom'
    BY <1>1, <2>4, <2>6 DEF create_card_key, IInv, FleetIsCovered, AdmittedHasRoom,
       RequestsNameUsers
  <2>9. GrantIsFirst'
    BY <1>1, <2>5 DEF create_card_key, IInv, GrantIsFirst, RequestsNameUsers
  <2>10. OneTestEach'
    BY <1>1, <2>4 DEF create_card_key, IInv, OneTestEach
  <2>11. ReadsArePast' /\ LeasesArePast'
    BY <1>1 DEF create_card_key, IInv, ReadsArePast, LeasesArePast, ReadAt
  <2> QED BY <2>3, <2>7, <2>8, <2>9, <2>10, <2>11 DEF IInv
<1>2. \A u \in Users : ~ UserLocked(u) =>
          \A j \in Handlers : handler[j].at = "granting" => handler[j].user # u
  BY DEF UserLocked
<1>3. handler \in [Handlers -> Handler] /\ card[c].max_devices \in Limits
  BY DEF IInv, TypeOK, Card
<1>4. ASSUME NEW u \in Users, redeem_card_key(c, u) PROVE IInv'
  <2>1. card[c].status # "redeemed" /\ InsertEntitlement(c, u, card[c].max_devices, FALSE)
        /\ UNCHANGED <<now, devices, leases>> /\ handler' = handler /\ ~ UserLocked(u)
    BY <1>4 DEF redeem_card_key
  <2> QED BY <1>2, <1>3, <2>1, InsertStep
<1>5. ASSUME NEW u \in Users, provision_paid_order(c, u) PROVE IInv'
  <2>1. card[c].status # "redeemed" /\ InsertEntitlement(c, u, 1, FALSE)
        /\ UNCHANGED <<now, devices, leases>> /\ handler' = handler /\ ~ UserLocked(u)
    BY <1>5 DEF provision_paid_order
  <2> QED BY <1>2, <1>3, <2>1, InsertStep, LimitsAreNumbers
<1> QED BY <1>1, <1>4, <1>5

\* Revoking and the clock only take active entitlements away, and neither
\* touches what was read before.
LEMMA DecayStepKeeps ==
    ASSUME IInv, tick \/ \E c \in Cards : revoke_entitlement(c)
    PROVE  IInv'
<1>1. /\ now' \in 1..MaxTime /\ now <= now'
      /\ card' = card /\ devices' = devices /\ leases' = leases /\ handler' = handler
      /\ ent' \in [Cards -> Entitlement]
      /\ \A d \in Cards : /\ ent'[d].user = ent[d].user
                          /\ ent'[d].expires_at = ent[d].expires_at
                          /\ ent'[d].test = ent[d].test
                          /\ \/ ent'[d].revoked_at = ent[d].revoked_at
                             \/ ent'[d].revoked_at = now
  <2>1. CASE tick
    BY <2>1, TimesAssumption DEF tick, IInv, TypeOK
  <2>2. ASSUME NEW c \in Cards, revoke_entitlement(c)
        PROVE  /\ UNCHANGED <<now, card, devices, leases, handler>>
               /\ ent' = [ent EXCEPT ![c] = [ent[c] EXCEPT !.revoked_at = now]]
    BY <2>2 DEF revoke_entitlement
  <2>3. ASSUME NEW c \in Cards, revoke_entitlement(c)
        PROVE  /\ ent' \in [Cards -> Entitlement]
               /\ \A d \in Cards : /\ ent'[d].user = ent[d].user
                                   /\ ent'[d].expires_at = ent[d].expires_at
                                   /\ ent'[d].test = ent[d].test
                                   /\ \/ ent'[d].revoked_at = ent[d].revoked_at
                                      \/ ent'[d].revoked_at = now
    <3>1. ent[c] \in Entitlement /\ now \in 0..MaxTime
      BY TimesAssumption DEF IInv, TypeOK
    <3>2. [ent[c] EXCEPT !.revoked_at = now] \in Entitlement
      BY <3>1 DEF Entitlement
    <3>3. /\ ent'[c] = [ent[c] EXCEPT !.revoked_at = now]
          /\ \A d \in Cards : d # c => ent'[d] = ent[d]
          /\ ent' \in [Cards -> Entitlement]
      BY <2>2, <2>3, <3>2 DEF IInv, TypeOK
    <3> QED BY <3>1, <3>3 DEF Entitlement
  <2>4. now \in 1..MaxTime /\ now <= now
    BY TimesAssumption DEF IInv, TypeOK
  <2> QED BY <2>1, <2>2, <2>3, <2>4
<1>2. TypeOK' /\ CardsMatch' /\ RequestsNameUsers' /\ OneLockPerUser'
  BY <1>1 DEF IInv, TypeOK, CardsMatch, RequestsNameUsers, OneLockPerUser, Locking
<1>3. /\ now \in Nat /\ now' \in Nat /\ now > 0
      /\ \A d \in Cards : ent[d].expires_at \in Int
  BY <1>1, TimesAssumption DEF IInv, TypeOK, Entitlement
<1>4. \A u : Active(u)' \subseteq Active(u)
  BY <1>1, <1>3 DEF Active
<1>5. /\ \A u : ActiveDevices(u)' = ActiveDevices(u)
      /\ \A u, n : Covered(u, n) => Covered(u, n)'
  BY <1>1 DEF ActiveDevices, Covered
<1>6. FleetIsCovered' /\ AdmittedHasRoom'
  BY <1>1, <1>5 DEF IInv, FleetIsCovered, AdmittedHasRoom
<1>7. GrantIsFirst'
  BY <1>1, <1>3 DEF IInv, GrantIsFirst, HasFullAccess, Active
<1>8. OneTestEach'
  <2>1. \A c \in Cards : ent'[c].test = ent[c].test
    BY <1>1
  <2>2. \A u : Active(u) \subseteq Cards
    BY DEF Active
  <2> QED BY <1>4, <2>1, <2>2 DEF IInv, OneTestEach
<1>9. \A t, u, f : \A e \in Cards : ReadAt(t, u, f, e) => ReadAt(t, u, f, e)'
  BY <1>1, <1>3 DEF ReadAt
<1>10. ReadsArePast'
  BY <1>1, <1>9 DEF IInv, ReadsArePast
<1>11. LeasesArePast'
  BY <1>1, <1>9 DEF IInv, LeasesArePast, TypeOK, Lease
<1> QED BY <1>2, <1>6, <1>7, <1>8, <1>10, <1>11 DEF IInv

\* A request that ends, or is dropped, leaves nothing behind.
LEMMA EndKeeps ==
    ASSUME IInv, NEW i \in Handlers, handler' = [handler EXCEPT ![i] = IdleHandler],
           UNCHANGED <<now, card, ent, devices, leases>>
    PROVE  IInv'
<1>1. IdleHandler \in Handler /\ IdleHandler.at = "idle"
  BY TimesAssumption DEF IdleHandler, Handler
<1> HIDE DEF IdleHandler
<1> QED BY <1>1, RequestStep

\* The steps before the endpoint's own work: the request arrives, locks the
\* user and looks for full access.
LEMMA ArrivalKeeps ==
    ASSUME IInv, NEW i \in Handlers
    PROVE  /\ \A op \in {"me", "activate", "lease"}, u \in Users, f \in Fingerprints :
                  request(i, op, u, f) => IInv'
           /\ ensure_test_full_access(i) => IInv'
<1>1. ASSUME NEW op \in {"me", "activate", "lease"}, NEW u \in Users, NEW f \in Fingerprints,
             request(i, op, u, f)
      PROVE  IInv'
  <2> DEFINE h == [IdleHandler EXCEPT !.op = op, !.user = u, !.fingerprint = f,
                       !.at = IF u \in TestUsers THEN "ensure" ELSE "body"]
  <2>1. h \in Handler /\ h.at \in {"ensure", "body"} /\ h.user = u /\ h.fingerprint = f
    <3>1. PICK p \in {"ensure", "body"} : p = IF u \in TestUsers THEN "ensure" ELSE "body"
      OBVIOUS
    <3>2. IdleHandler \in Handler
      BY TimesAssumption DEF IdleHandler, Handler
    <3>3. h = [IdleHandler EXCEPT !.op = op, !.user = u, !.fingerprint = f, !.at = p]
      BY <3>1, Zenon
    <3> QED BY <3>2, <3>3 DEF Handler
  <2>2. handler' = [handler EXCEPT ![i] = h] /\ UNCHANGED <<now, card, ent, devices, leases>>
    BY <1>1 DEF request
  <2> HIDE DEF h
  <2> QED BY <2>1, <2>2, RequestStep
<1>2. ASSUME ensure_test_full_access(i) PROVE IInv'
  <2>1. /\ handler[i] \in Handler /\ handler[i].at = "ensure"
        /\ handler[i].user \in Users /\ handler[i].fingerprint \in Fingerprints
        /\ UNCHANGED <<now, card, ent, devices, leases>>
    BY <1>2 DEF ensure_test_full_access, IInv, TypeOK, RequestsNameUsers
  <2>2. CASE HasFullAccess(handler[i].user)
    <3>1. GoOn(i)
      BY <1>2, <2>2 DEF ensure_test_full_access
    <3>2. PICK h : h = handler'[i]
      OBVIOUS
    <3>3. /\ h \in Handler /\ h.at \in {"idle", "body"}
          /\ h.at = "body" => h.user \in Users /\ h.fingerprint \in Fingerprints
          /\ handler' = [handler EXCEPT ![i] = h]
      BY <2>1, <3>1, <3>2, GoOnIsHarmless
    <3> QED BY <2>1, <3>3, RequestStep
  <2>3. CASE ~ HasFullAccess(handler[i].user)
    <3> DEFINE h == [handler[i] EXCEPT !.at = "granting"]
    <3>1. handler' = [handler EXCEPT ![i] = h] /\ ~ UserLocked(handler[i].user)
      BY <1>2, <2>3 DEF ensure_test_full_access
    <3>2. /\ h \in Handler /\ h.at = "granting" /\ h.user = handler[i].user
          /\ h.fingerprint = handler[i].fingerprint
      BY <2>1 DEF Handler
    <3> HIDE DEF h
    <3> QED BY <2>1, <2>3, <3>1, <3>2, RequestStep
  <2> QED BY <2>2, <2>3
<1> QED BY <1>1, <1>2

\* The test grant: its request still holds the lock under which it found no
\* full access.
LEMMA GrantKeeps ==
    ASSUME IInv, NEW i \in Handlers, NEW c \in Cards, grant_test_full_access(i, c)
    PROVE  IInv'
<1>1. PICK u \in Users : u = handler[i].user
  BY DEF grant_test_full_access, IInv, RequestsNameUsers
<1>2. /\ handler[i].at = "granting" /\ card[c].status # "redeemed"
      /\ InsertEntitlement(c, u, TestLimit, TRUE) /\ GoOn(i)
      /\ UNCHANGED <<now, devices, leases>>
  BY <1>1 DEF grant_test_full_access
<1>3. ~ HasFullAccess(u)
  BY <1>1, <1>2 DEF IInv, GrantIsFirst
<1>4. /\ handler' \in [Handlers -> Handler]
      /\ \A j \in Handlers : j # i => handler'[j] = handler[j]
      /\ handler'[i].at \in {"idle", "body"}
      /\ handler'[i].at = "body" => /\ handler'[i].user \in Users
                                    /\ handler'[i].fingerprint \in Fingerprints
  BY <1>2, GoOnIsHarmless
<1>5. \A j \in Handlers : handler'[j].at = "granting" => handler[j].user # u
  BY <1>1, <1>2, <1>4 DEF IInv, OneLockPerUser, Locking
<1>6. TestLimit \in Limits /\ TRUE \in BOOLEAN
  BY LimitsAreNumbers
<1>7. \A j \in Handlers : \/ handler'[j] = handler[j]
                          \/ handler'[j].at = "idle"
                          \/ /\ handler'[j].at = "body"
                             /\ handler'[j].user \in Users
                             /\ handler'[j].fingerprint \in Fingerprints
  BY <1>4
<1> QED BY <1>2, <1>3, <1>4, <1>5, <1>6, <1>7, InsertStep

\* activate_device: the limit it reads is that of an entitlement the user holds,
\* so a fleet below the limit has room for one device more.
LEMMA AdmissionKeeps ==
    ASSUME IInv, NEW i \in Handlers, activate_device(i)
    PROVE  IInv'
<1>1. PICK u \in Users, f \in Fingerprints : u = handler[i].user /\ f = handler[i].fingerprint
  BY DEF activate_device, IInv, RequestsNameUsers
<1>2. handler[i] \in Handler /\ UNCHANGED <<now, card, ent, devices, leases>>
  BY DEF activate_device, IInv, TypeOK
<1> DEFINE admits == /\ Active(u) # {}
                     /\ \/ <<u, f>> \in devices
                        \/ AllowsNewActivation(Cardinality(ActiveDevices(u)), LimitOf(u))
<1>3. CASE ~ admits
  <2>1. handler' = [handler EXCEPT ![i] = IdleHandler]
    BY <1>1, <1>3 DEF activate_device
  <2> QED BY <1>2, <2>1, EndKeeps
<1>4. CASE admits
  <2> DEFINE h == [handler[i] EXCEPT !.at = "admitted"]
  <2>1. handler' = [handler EXCEPT ![i] = h] /\ ~ UserLocked(u)
    BY <1>1, <1>4 DEF activate_device
  <2>2. h \in Handler /\ h.at = "admitted" /\ h.user = u /\ h.fingerprint = f
    BY <1>1, <1>2 DEF Handler
  <2>3. <<u, f>> \in devices \/ Covered(u, Cardinality(ActiveDevices(u)) + 1)
    <3>1. PICK c \in Active(u) : LimitOf(u) = card[c].max_devices
      BY <1>4, LimitIsHeld DEF IInv
    <3>2. c \in Cards /\ ent[c].user = u /\ card[c].max_devices \in Nat
      BY <3>1, LimitsAreNumbers DEF Active, IInv, TypeOK, Card
    <3>3. Cardinality(ActiveDevices(u)) \in Nat
      BY FS_CardinalityType DEF IInv, FleetIsCovered
    <3> QED BY <1>4, <3>1, <3>2, <3>3 DEF AllowsNewActivation, Covered
  <2> HIDE DEF h
  <2> QED BY <1>2, <2>1, <2>2, <2>3, RequestStep
<1> QED BY <1>3, <1>4

\* upsert_device: the fleet grows by at most one, under the lock.
LEMMA UpsertKeeps ==
    ASSUME IInv, NEW i \in Handlers, upsert_device(i)
    PROVE  IInv'
<1>1. PICK u \in Users, f \in Fingerprints : u = handler[i].user /\ f = handler[i].fingerprint
  BY DEF upsert_device, IInv, RequestsNameUsers
<1>2. /\ devices' = devices \cup {<<u, f>>}
      /\ UNCHANGED <<now, card, ent, leases>>
      /\ IdleHandler \in Handler
      /\ handler'[i] = IdleHandler
      /\ \A j \in Handlers : j # i => handler'[j] = handler[j]
      /\ handler' \in [Handlers -> Handler]
  BY <1>1, TimesAssumption DEF upsert_device, IInv, TypeOK, IdleHandler, Handler
<1>3. IdleHandler.at = "idle"
  BY DEF IdleHandler
<1>4. TypeOK' /\ CardsMatch' /\ RequestsNameUsers' /\ OneLockPerUser' /\ OneTestEach'
  BY <1>2, <1>3 DEF IInv, TypeOK, CardsMatch, RequestsNameUsers, OneLockPerUser, Locking,
     OneTestEach, Active
<1>5. /\ ActiveDevices(u)' = ActiveDevices(u) \cup {f}
      /\ \A v \in Users : v # u => ActiveDevices(v)' = ActiveDevices(v)
      /\ \A v, n : Covered(v, n)' = Covered(v, n)
  BY <1>2 DEF ActiveDevices, Covered
<1>6. FleetIsCovered'
  <2>1. /\ IsFiniteSet(ActiveDevices(u))
        /\ f \in ActiveDevices(u) \/ Covered(u, Cardinality(ActiveDevices(u)) + 1)
    BY <1>1 DEF upsert_device, IInv, FleetIsCovered, AdmittedHasRoom, ActiveDevices
  <2>2. /\ IsFiniteSet(ActiveDevices(u)')
        /\ f \in ActiveDevices(u) => ActiveDevices(u)' = ActiveDevices(u)
        /\ f \notin ActiveDevices(u) =>
              Cardinality(ActiveDevices(u)') = Cardinality(ActiveDevices(u)) + 1
    BY <1>5, <2>1, FS_AddElement
  <2>3. Covered(u, Cardinality(ActiveDevices(u)))'
    BY <1>5, <2>1, <2>2 DEF IInv, FleetIsCovered
  <2>4. ASSUME NEW v \in Users
        PROVE  /\ IsFiniteSet(ActiveDevices(v)')
               /\ ActiveDevices(v)' # {} => Covered(v, Cardinality(ActiveDevices(v)))'
    <3>1. CASE v = u
      BY <2>2, <2>3, <3>1
    <3>2. CASE v # u
      BY <1>5, <3>2 DEF IInv, FleetIsCovered
    <3> QED BY <3>1, <3>2
  <2> QED BY <2>4 DEF FleetIsCovered
<1>7. AdmittedHasRoom'
  <2> SUFFICES ASSUME NEW j \in Handlers, handler'[j].at = "admitted"
               PROVE  \/ <<handler'[j].user, handler'[j].fingerprint>> \in devices'
                      \/ Covered(handler[j].user, Cardinality(ActiveDevices(handler[j].user)) + 1)'
    BY DEF AdmittedHasRoom
  <2>1. j # i /\ handler'[j] = handler[j]
    BY <1>2, <1>3
  <2>2. PICK v \in Users : v = handler[j].user
    BY <2>1 DEF IInv, RequestsNameUsers
  <2>3. v # u
    BY <1>1, <2>1, <2>2 DEF upsert_device, IInv, OneLockPerUser, Locking
  <2>4. \/ <<v, handler[j].fingerprint>> \in devices
        \/ Covered(v, Cardinality(ActiveDevices(v)) + 1)
    BY <2>1, <2>2 DEF IInv, AdmittedHasRoom
  <2>5. \/ <<v, handler[j].fingerprint>> \in devices'
        \/ Covered(v, Cardinality(ActiveDevices(v)) + 1)'
    BY <1>2, <1>5, <2>3, <2>4
  <2> QED BY <2>1, <2>2, <2>5
<1>8. GrantIsFirst'
  BY <1>2, <1>3 DEF IInv, GrantIsFirst, HasFullAccess, Active
<1>9. \A t, v, g, e : ReadAt(t, v, g, e) => ReadAt(t, v, g, e)'
  BY <1>2 DEF ReadAt
<1>10. ReadsArePast' /\ LeasesArePast'
  BY <1>2, <1>3, <1>9 DEF IInv, ReadsArePast, LeasesArePast
<1> QED BY <1>4, <1>6, <1>7, <1>8, <1>10 DEF IInv

\* issue_lease reads an active entitlement of its user, now.
LEMMA IssueKeeps ==
    ASSUME IInv, NEW i \in Handlers, issue_lease(i)
    PROVE  IInv'
<1>1. PICK u \in Users, f \in Fingerprints : u = handler[i].user /\ f = handler[i].fingerprint
  BY DEF issue_lease, IInv, RequestsNameUsers
<1>2. handler[i] \in Handler /\ UNCHANGED <<now, card, ent, devices, leases>>
  BY DEF issue_lease, IInv, TypeOK
<1>3. CASE ~ (<<u, f>> \in devices /\ Active(u) # {})
  <2>1. handler' = [handler EXCEPT ![i] = IdleHandler]
    BY <1>1, <1>3 DEF issue_lease
  <2> QED BY <1>2, <2>1, EndKeeps
<1>4. CASE <<u, f>> \in devices /\ Active(u) # {}
  <2>1. PICK c \in Best(u) : handler' = [handler EXCEPT ![i].at = "checked",
                                            ![i].entitlement = c, ![i].asked_at = now]
    BY <1>1, <1>4 DEF issue_lease
  <2> DEFINE h == [handler[i] EXCEPT !.at = "checked", !.entitlement = c, !.asked_at = now]
  <2>2. c \in Cards /\ ent[c].user = u /\ ent[c].revoked_at = 0 /\ ent[c].expires_at > now
    BY <2>1 DEF Best, Active
  <2>3. /\ now \in 1..MaxTime /\ now \in Nat /\ now \in 0..MaxTime
        /\ ent[c].expires_at \in Nat
    BY <2>2, TimesAssumption DEF IInv, TypeOK, Entitlement
  <2>4. handler' = [handler EXCEPT ![i] = h]
    BY <2>1 DEF IInv, TypeOK
  <2>5. /\ h \in Handler /\ h.at = "checked" /\ h.user = u /\ h.fingerprint = f
        /\ h.entitlement = c /\ h.asked_at = now
    BY <1>1, <1>2, <2>2, <2>3 DEF Handler
  <2>6. ReadAt(now, u, f, c)
    BY <1>4, <2>2, <2>3 DEF ReadAt
  <2> HIDE DEF h
  <2> QED BY <1>2, <2>2, <2>4, <2>5, <2>6, RequestStep
<1> QED BY <1>3, <1>4

\* enforce_device_limit_for_lease keeps what was read first, or ends.
LEMMA EnforceKeeps ==
    ASSUME IInv, NEW i \in Handlers, enforce_device_limit_for_lease(i)
    PROVE  IInv'
<1> DEFINE h == [handler[i] EXCEPT !.at = "signing"]
<1>1. /\ handler[i] \in Handler /\ handler[i].at = "checked"
      /\ UNCHANGED <<now, card, ent, devices, leases>>
      /\ \/ handler' = [handler EXCEPT ![i] = IdleHandler]
         \/ handler' = [handler EXCEPT ![i] = h]
  BY DEF enforce_device_limit_for_lease, IInv, TypeOK
<1>2. CASE handler' = [handler EXCEPT ![i] = IdleHandler]
  BY <1>1, <1>2, EndKeeps
<1>3. CASE handler' = [handler EXCEPT ![i] = h]
  <2>1. /\ h \in Handler /\ h.at = "signing" /\ h.user = handler[i].user
        /\ h.fingerprint = handler[i].fingerprint
        /\ h.entitlement = handler[i].entitlement /\ h.asked_at = handler[i].asked_at
    BY <1>1 DEF Handler
  <2>2. /\ h.user \in Users /\ h.fingerprint \in Fingerprints
        /\ h.entitlement \in Cards
        /\ ReadAt(h.asked_at, h.user, h.fingerprint, h.entitlement)
    <3> HIDE DEF h
    <3> QED BY <1>1, <2>1 DEF IInv, RequestsNameUsers, ReadsArePast
  <2> HIDE DEF h
  <2> QED BY <1>1, <1>3, <2>1, <2>2, RequestStep
<1> QED BY <1>1, <1>2, <1>3

\* sign_entitlement_lease: the lease ends with its entitlement at the latest.
LEMMA SignKeeps ==
    ASSUME IInv, NEW i \in Handlers, sign_entitlement_lease(i)
    PROVE  IInv'
<1> DEFINE e == handler[i].entitlement
           end == Min({now + LeaseTerm, ent[e].expires_at})
           l == [user |-> handler[i].user, fingerprint |-> handler[i].fingerprint,
                 entitlement |-> e, issued_at |-> now, expires_at |-> end,
                 asked_at |-> handler[i].asked_at]
<1>1. /\ leases' = leases \cup {l}
      /\ UNCHANGED <<now, card, ent, devices>>
      /\ IdleHandler \in Handler
      /\ handler'[i] = IdleHandler
      /\ \A j \in Handlers : j # i => handler'[j] = handler[j]
      /\ handler' \in [Handlers -> Handler]
  BY TimesAssumption DEF sign_entitlement_lease, IInv, TypeOK, IdleHandler, Handler
<1>2. IdleHandler.at = "idle"
  BY DEF IdleHandler
<1>3. /\ handler[i].user \in Users /\ handler[i].fingerprint \in Fingerprints
      /\ e \in Cards
      /\ ReadAt(handler[i].asked_at, handler[i].user, handler[i].fingerprint, e)
  BY DEF sign_entitlement_lease, IInv, RequestsNameUsers, ReadsArePast
<1>4. now \in 1..MaxTime /\ ent[e].expires_at \in Nat
  BY <1>3, TimesAssumption DEF IInv, TypeOK, Entitlement
<1>5. end \in Nat /\ end <= now + LeaseTerm /\ end <= ent[e].expires_at
  <2>1. now + LeaseTerm \in Nat
    BY <1>4, TimesAssumption
  <2> QED BY <1>4, <2>1, MinOfTwo
<1>6. l \in Lease
  <2> HIDE DEF end, e
  <2>1. end \in 0..MaxTime + LeaseTerm
    BY <1>4, <1>5, TimesAssumption
  <2>2. handler[i].asked_at \in 1..MaxTime
    BY <1>3, <1>4, TimesAssumption DEF ReadAt
  <2> QED BY <1>3, <1>4, <2>1, <2>2 DEF Lease
<1>7. /\ ReadAt(l.asked_at, l.user, l.fingerprint, l.entitlement)
      /\ l.expires_at <= ent[l.entitlement].expires_at
      /\ l.expires_at <= l.issued_at + LeaseTerm
  <2> HIDE DEF end, e
  <2> QED BY <1>3, <1>5
<1> HIDE DEF l
<1>8. TypeOK' /\ CardsMatch' /\ RequestsNameUsers' /\ OneLockPerUser' /\ OneTestEach'
  BY <1>1, <1>2, <1>6 DEF IInv, TypeOK, CardsMatch, RequestsNameUsers, OneLockPerUser,
     Locking, OneTestEach, Active
<1>9. FleetIsCovered' /\ AdmittedHasRoom'
  BY <1>1, <1>2 DEF IInv, FleetIsCovered, AdmittedHasRoom, ActiveDevices, Covered
<1>10. GrantIsFirst'
  BY <1>1, <1>2 DEF IInv, GrantIsFirst, HasFullAccess, Active
<1>11. \A t, v, g, d : ReadAt(t, v, g, d)' = ReadAt(t, v, g, d)
  BY <1>1 DEF ReadAt
<1>12. ReadsArePast'
  BY <1>1, <1>2, <1>11 DEF IInv, ReadsArePast
<1>13. LeasesArePast'
  BY <1>1, <1>7, <1>11 DEF IInv, LeasesArePast
<1> QED BY <1>8, <1>9, <1>10, <1>12, <1>13 DEF IInv

\* Every step keeps the invariant.
LEMMA StepKeeps == IInv /\ [Next]_vars => IInv'
<1> SUFFICES ASSUME IInv, [Next]_vars PROVE IInv'
  OBVIOUS
<1>1. ASSUME NEW c \in Cards, NEW limit \in Limits, create_card_key(c, limit) PROVE IInv'
  BY <1>1, CardStepKeeps
<1>2. ASSUME NEW c \in Cards, NEW u \in Users, redeem_card_key(c, u) PROVE IInv'
  BY <1>2, CardStepKeeps
<1>3. ASSUME NEW c \in Cards, NEW u \in Users, provision_paid_order(c, u) PROVE IInv'
  BY <1>3, CardStepKeeps
<1>4. CASE tick \/ \E c \in Cards : revoke_entitlement(c)
  BY <1>4, DecayStepKeeps
<1>5. ASSUME NEW i \in Handlers, NEW op \in {"me", "activate", "lease"}, NEW u \in Users,
             NEW f \in Fingerprints, request(i, op, u, f)
      PROVE  IInv'
  BY <1>5, ArrivalKeeps
<1>6. ASSUME NEW i \in Handlers, ensure_test_full_access(i) PROVE IInv'
  BY <1>6, ArrivalKeeps
<1>7. ASSUME NEW i \in Handlers, NEW c \in Cards, grant_test_full_access(i, c) PROVE IInv'
  BY <1>7, GrantKeeps
<1>8. ASSUME NEW i \in Handlers, activate_device(i) PROVE IInv'
  BY <1>8, AdmissionKeeps
<1>9. ASSUME NEW i \in Handlers, upsert_device(i) PROVE IInv'
  BY <1>9, UpsertKeeps
<1>10. ASSUME NEW i \in Handlers, issue_lease(i) PROVE IInv'
  BY <1>10, IssueKeeps
<1>11. ASSUME NEW i \in Handlers, enforce_device_limit_for_lease(i) PROVE IInv'
  BY <1>11, EnforceKeeps
<1>12. ASSUME NEW i \in Handlers, sign_entitlement_lease(i) PROVE IInv'
  BY <1>12, SignKeeps
<1>13. ASSUME NEW i \in Handlers, drop_request(i) PROVE IInv'
  BY <1>13, EndKeeps DEF drop_request
<1>14. CASE UNCHANGED vars
  <2> USE <1>14 DEF vars
  <2>1. TypeOK' /\ CardsMatch' /\ RequestsNameUsers' /\ OneLockPerUser' /\ OneTestEach'
    BY DEF IInv, TypeOK, CardsMatch, RequestsNameUsers, OneLockPerUser, Locking,
       OneTestEach, Active
  <2>2. FleetIsCovered' /\ AdmittedHasRoom' /\ GrantIsFirst'
    BY DEF IInv, FleetIsCovered, AdmittedHasRoom, GrantIsFirst, ActiveDevices, Covered,
       HasFullAccess, Active
  <2>3. ReadsArePast' /\ LeasesArePast'
    BY DEF IInv, ReadsArePast, LeasesArePast, ReadAt
  <2> QED BY <2>1, <2>2, <2>3 DEF IInv
<1> QED
  BY <1>1, <1>2, <1>3, <1>4, <1>5, <1>6, <1>7, <1>8, <1>9, <1>10, <1>11, <1>12, <1>13,
     <1>14 DEF Next

\* The inductive invariant holds in every reachable state.
LEMMA Invariant == Spec => []IInv
BY InitHolds, StepKeeps, PTL DEF Spec

-----------------------------------------------------------------------------
(* What the invariant gives.                                               *)

\* Every table row and every request in flight is well typed.
THEOREM TypeCorrect == Spec => []TypeOK
<1>1. IInv => TypeOK
  BY DEF IInv
<1> QED BY <1>1, Invariant, PTL

\* README: "Card-key max_devices is enforced during device activation": however
\* activations, grants, redemptions, revocations and expiry interleave, a user
\* never has more active devices than the largest limit they ever held.
THEOREM FleetStaysWithinLimit == Spec => []FleetWithinEarnedLimit
<1>1. IInv => FleetWithinEarnedLimit
  <2> SUFFICES ASSUME IInv, NEW u \in Users
               PROVE  LET earned == {card[c].max_devices : c \in {d \in Cards : ent[d].user = u}}
                      IN  Cardinality(ActiveDevices(u)) <= IF earned = {} THEN 0 ELSE Max(earned)
    BY DEF FleetWithinEarnedLimit
  <2> DEFINE earned == {card[c].max_devices : c \in {d \in Cards : ent[d].user = u}}
             n == Cardinality(ActiveDevices(u))
  <2>1. \A c \in Cards : card[c].max_devices \in 1..255
    BY LimitsAssumption DEF IInv, TypeOK, Card
  <2>2. earned \subseteq Nat /\ 255 \in Nat /\ \A x \in earned : x <= 255
    BY SMTT(30), <2>1
  <2>3. earned # {} => Max(earned) \in Nat /\ \A x \in earned : x <= Max(earned)
    <3> HIDE DEF earned
    <3> QED BY <2>2, MaxIsLargest
  <2>4. n \in Nat /\ (ActiveDevices(u) = {} => n = 0)
    BY FS_CardinalityType, FS_EmptySet DEF IInv, FleetIsCovered
  <2>5. ActiveDevices(u) # {} => \E x \in earned : n <= x
    <3> SUFFICES ASSUME ActiveDevices(u) # {} PROVE \E x \in earned : n <= x
      OBVIOUS
    <3>1. PICK c \in Cards : ent[c].user = u /\ n <= card[c].max_devices
      BY DEF IInv, FleetIsCovered, Covered
    <3> QED BY <3>1
  <2>6. n <= IF earned = {} THEN 0 ELSE Max(earned)
    <3> HIDE DEF earned, n
    <3> QED BY <2>2, <2>3, <2>4, <2>5
  <2> QED BY <2>6
<1> QED BY <1>1, Invariant, PTL

\* The allow list grants a user one entitlement at a time: concurrent requests
\* of one user never leave two test grants active.
THEOREM TestGrantIsSingle == Spec => []OneActiveTestGrant
<1>1. IInv => OneActiveTestGrant
  <2> SUFFICES ASSUME IInv, NEW u \in Users
               PROVE  Cardinality({c \in Active(u) : ent[c].test}) <= 1
    BY DEF OneActiveTestGrant
  <2> DEFINE T == {c \in Active(u) : ent[c].test}
  <2>1. CASE T = {}
    BY <2>1, FS_EmptySet
  <2>2. ASSUME NEW c \in T PROVE Cardinality(T) <= 1
    <3>1. T = {c}
      BY <2>2 DEF IInv, OneTestEach
    <3>2. Cardinality({c}) = 1
      BY FS_Singleton
    <3> HIDE DEF T
    <3> QED BY <3>1, <3>2
  <2> QED BY <2>1, <2>2
<1> QED BY <1>1, Invariant, PTL

\* A lease is signed for its own user's device and entitlement, never outlives
\* that entitlement or the lease term, and comes from a request that read the
\* entitlement before it was revoked or expired.
THEOREM LeasesFollowEntitlements == Spec => []LeaseFollowsEntitlement
<1>1. IInv => LeaseFollowsEntitlement
  BY DEF IInv, LeasesArePast, ReadAt, LeaseFollowsEntitlement
<1> QED BY <1>1, Invariant, PTL

\* A card key is spent by one user, once, and its entitlement never changes
\* hands or term.
THEOREM CardsAreSpentOnce == Spec => SpentOnce
<1> DEFINE Kept(c) == card[c].status = "redeemed" =>
                          /\ card'[c] = card[c]
                          /\ ent'[c].user = card[c].redeemed_by
                          /\ ent'[c].expires_at = ent[c].expires_at
<1>1. IInv /\ [Next]_vars => [\A c \in Cards : Kept(c)]_vars
  <2> SUFFICES ASSUME IInv, Next, NEW c \in Cards, card[c].status = "redeemed"
               PROVE  /\ card'[c] = card[c]
                      /\ ent'[c].user = ent[c].user
                      /\ ent'[c].expires_at = ent[c].expires_at
    BY DEF IInv, CardsMatch
  <2>1. card \in [Cards -> Card] /\ ent \in [Cards -> Entitlement]
    BY DEF IInv, TypeOK
  <2>2. CASE card' = card /\ ent' = ent
    BY <2>2
  <2>3. ASSUME NEW d \in Cards, NEW limit \in Limits, create_card_key(d, limit)
        PROVE  card'[c] = card[c] /\ ent' = ent
    BY <2>1, <2>3 DEF create_card_key
  <2>4. ASSUME NEW d \in Cards, NEW u, NEW limit, NEW test, card[d].status # "redeemed",
               InsertEntitlement(d, u, limit, test)
        PROVE  card'[c] = card[c] /\ ent'[c] = ent[c]
    BY <2>1, <2>4 DEF InsertEntitlement
  <2>5. ASSUME NEW d \in Cards, revoke_entitlement(d)
        PROVE  /\ card' = card
               /\ ent'[c].user = ent[c].user /\ ent'[c].expires_at = ent[c].expires_at
    BY <2>1, <2>5 DEF revoke_entitlement, Entitlement
  <2>6. ASSUME NEW d \in Cards, NEW u \in Users,
               redeem_card_key(d, u) \/ provision_paid_order(d, u)
        PROVE  card'[c] = card[c] /\ ent'[c] = ent[c]
    BY <2>4, <2>6 DEF redeem_card_key, provision_paid_order
  <2>7. ASSUME NEW d \in Cards, NEW i \in Handlers, grant_test_full_access(i, d)
        PROVE  card'[c] = card[c] /\ ent'[c] = ent[c]
    BY <2>4, <2>7 DEF grant_test_full_access
  <2> QED
    BY <2>2, <2>3, <2>5, <2>6, <2>7 DEF Next, request, ensure_test_full_access,
       activate_device, upsert_device, issue_lease, enforce_device_limit_for_lease,
       sign_entitlement_lease, drop_request, tick
<1> QED BY <1>1, Invariant, PTL DEF Spec, SpentOnce
=============================================================================
