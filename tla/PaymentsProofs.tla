--------------------------- MODULE PaymentsProofs ---------------------------
(***************************************************************************)
(* Proofs about Payments, for every set of orders, events and workers, any *)
(* providers, any accepted currencies and any number of crashes.           *)
(*                                                                         *)
(* None of the safety properties is inductive alone.  That an acknowledged *)
(* payment is fulfilled rests on what a committed handler and a recorded   *)
(* event say of the order; these rest on the fact that a handler past its  *)
(* first statement holds a paid event, whose order is payable; and that    *)
(* rests on which rows a customer's URL can belong to.                     *)
(***************************************************************************)
EXTENDS Payments, TLAPS

Provided == {"stripe", "wechat_pay"}

\* insert_order writes status and provider together.
StatusFitsProvider ==
    \A o \in Orders :
        /\ orders[o].status = "absent" <=> orders[o].provider = "none"
        /\ orders[o].status = "pending_manual_payment" => orders[o].provider = "manual"
        /\ orders[o].status = "pending_provider_payment" => orders[o].provider \in Provided

\* A URL belongs to a provider's order, whose session is attached.
PayableIsReady ==
    /\ \A o \in payable : orders[o].provider \in Provided /\ SessionMatches(o)
    /\ paid \subseteq payable

\* An event that exists concerns a payable order, and a paid one the money.
EventsAreReal ==
    \A e \in Events :
        /\ event[e].order # NoOrder => event[e].order \in payable
        /\ event[e].kind = "paid" => event[e].order \in paid
        /\ event[e].acked => event[e].order # NoOrder

\* A handler has an event, and its transaction is about a payment.
HandlersHoldEvents ==
    \A w \in Workers : worker[w].at # "idle" =>
        /\ worker[w].event \in Events
        /\ event[worker[w].event].order # NoOrder
        /\ worker[w].at \in {"inserted", "locked"} => event[worker[w].event].kind = "paid"

Confirmed(e) ==
    event[e].kind = "paid" => orders[event[e].order].status = "confirmed"

\* The event row, the answer of a committed handler and the acknowledgement all
\* come after the confirmation.
ConfirmationFirst ==
    /\ \A e \in payment_events : event[e].order # NoOrder /\ Confirmed(e)
    /\ \A w \in Workers : worker[w].at = "committed" => Confirmed(worker[w].event)
    /\ \A e \in Events : event[e].acked => Confirmed(e)

IInv ==
    /\ TypeOK
    /\ StatusFitsProvider
    /\ PayableIsReady
    /\ EventsAreReal
    /\ HandlersHoldEvents
    /\ ConfirmationFirst
    /\ FulfilledExactlyOnce

-----------------------------------------------------------------------------

\* The empty database satisfies the invariant.
LEMMA InitIInv == Init => IInv
<1> SUFFICES ASSUME Init PROVE IInv
    OBVIOUS
<1>1. TypeOK
    BY NoOrderAssumption, NoEventAssumption, MaxCrashesAssumption
    DEF Init, TypeOK, Order, ProviderEvent, Worker, IdleWorker
<1>2. QED
    BY <1>1 DEF Init, IInv, StatusFitsProvider, PayableIsReady, EventsAreReal,
        HandlersHoldEvents, ConfirmationFirst, Confirmed, FulfilledExactlyOnce, IdleWorker

\* A confirmed order stays confirmed, so what came after the confirmation still
\* did.
LEMMA ConfirmationStays ==
    ASSUME IInv,
           event' = event, payment_events' = payment_events,
           \A w \in Workers : worker'[w].at = "committed" => worker'[w] = worker[w],
           \A o \in Orders : orders[o].status = "confirmed" => orders'[o].status = "confirmed"
    PROVE  ConfirmationFirst'
<1> USE DEF IInv
<1>1. ASSUME NEW e \in Events, Confirmed(e), event[e].order # NoOrder
      PROVE  Confirmed(e)'
    BY <1>1 DEF Confirmed, TypeOK, ProviderEvent
<1>2. \A e \in payment_events' : (event[e].order # NoOrder)' /\ Confirmed(e)'
    BY <1>1 DEF ConfirmationFirst, TypeOK
<1>3. ASSUME NEW w \in Workers, worker'[w].at = "committed"
      PROVE  Confirmed(worker[w].event)'
    <2>1. worker'[w] = worker[w] /\ worker[w].at = "committed"
        BY <1>3
    <2>2. PICK e \in Events : e = worker[w].event /\ event[e].order # NoOrder
        BY <2>1 DEF HandlersHoldEvents
    <2>3. Confirmed(e)
        BY <2>1, <2>2 DEF ConfirmationFirst
    <2>4. Confirmed(e)'
        BY <1>1, <2>2, <2>3
    <2>5. e = worker'[w].event
        BY <2>1, <2>2
    <2>6. QED
        BY <2>4, <2>5 DEF Confirmed
<1>4. \A e \in Events : (event[e].acked)' => Confirmed(e)'
    BY <1>1 DEF ConfirmationFirst, EventsAreReal
<1>5. QED
    BY <1>2, <1>3, <1>4 DEF ConfirmationFirst

\* insert_order creates a row nobody can pay yet, or changes nothing.
LEMMA InsertOrderKeeps ==
    ASSUME IInv, NEW o \in Orders, NEW provider \in Providers, insert_order(o, provider)
    PROVE  IInv'
<1> USE DEF IInv
<1>1. TypeOK'
    BY ProvidersAssumption DEF TypeOK, insert_order, Order, initial_status
<1>2. o \notin payable
    BY DEF StatusFitsProvider, PayableIsReady, Provided, insert_order
<1>3. StatusFitsProvider'
    BY ProvidersAssumption DEF TypeOK, insert_order, Order, initial_status,
        StatusFitsProvider, Provided
<1>4. PayableIsReady'
    BY <1>2 DEF TypeOK, insert_order, PayableIsReady, SessionMatches, Order
<1>5. EventsAreReal' /\ HandlersHoldEvents'
    BY DEF insert_order, EventsAreReal, HandlersHoldEvents
<1>6. ConfirmationFirst'
    BY ConfirmationStays DEF TypeOK, insert_order
<1>7. FulfilledExactlyOnce'
    BY ProvidersAssumption, <1>2 DEF TypeOK, insert_order, FulfilledExactlyOnce, StatusFitsProvider,
        initial_status, Order, PayableIsReady
<1>8. QED
    BY <1>1, <1>3, <1>4, <1>5, <1>6, <1>7

\* The steps of create_order after the INSERT: at most one row gets its session,
\* and at most one pending order becomes payable.
LEMMA CreateOrderKeeps ==
    ASSUME IInv, NEW o \in Orders,
           \/ create_stripe_checkout_session(o)
           \/ attach_checkout_session(o)
           \/ create_wechat_native_prepay(o)
           \/ create_order_fails(o)
    PROVE  IInv'
<1> USE DEF IInv, create_stripe_checkout_session, attach_checkout_session,
            create_wechat_native_prepay, create_order_fails
<1>1. TypeOK'
    BY DEF TypeOK, Order
<1>2. /\ UNCHANGED <<paid, event, payment_events, card_keys, entitlements, worker>>
      /\ \A p \in Orders : /\ orders'[p].status = orders[p].status
                           /\ orders'[p].provider = orders[p].provider
    <2>1. CASE attach_checkout_session(o)
        BY <2>1 DEF TypeOK, Order
    <2>2. CASE ~ attach_checkout_session(o)
        <3>1. /\ orders' = orders
              /\ UNCHANGED <<paid, event, payment_events, card_keys, entitlements, worker>>
            BY <2>2
        <3>2. QED
            BY <3>1
    <2>3. QED
        BY <2>1, <2>2
<1>3. /\ payable' \subseteq payable \cup {o}
      /\ payable \subseteq payable'
    OBVIOUS
<1>4. StatusFitsProvider'
    BY <1>2 DEF StatusFitsProvider
<1>5. PayableIsReady'
    <2>1. \A p \in payable : orders[p].checkout_session = "attached" =>
                             orders'[p].checkout_session = "attached"
        BY DEF TypeOK, Order
    <2>2. \A p \in payable : orders'[p].provider \in Provided /\ SessionMatches(p)'
        BY <1>2, <2>1 DEF PayableIsReady, SessionMatches, TypeOK
    <2>3. o \in payable' => o \in payable \/ (/\ orders'[o].provider \in Provided
                                             /\ SessionMatches(o)')
        <3>1. CASE attach_checkout_session(o)
            BY <3>1 DEF SessionMatches, StatusFitsProvider, TypeOK, Order
        <3>2. CASE create_wechat_native_prepay(o)
            BY <3>2 DEF SessionMatches, Provided
        <3>3. QED
            BY <3>1, <3>2
    <2>4. QED
        BY <1>2, <1>3, <2>2, <2>3 DEF PayableIsReady
<1>6. EventsAreReal' /\ HandlersHoldEvents'
    BY <1>2, <1>3 DEF EventsAreReal, HandlersHoldEvents
<1>7. ConfirmationFirst'
    BY <1>2, ConfirmationStays
<1>8. FulfilledExactlyOnce'
    BY <1>2 DEF FulfilledExactlyOnce
<1>9. QED
    BY <1>1, <1>4, <1>5, <1>6, <1>7, <1>8

\* A new event concerns a payable order; nothing refers to it yet.
LEMMA ProviderKeeps ==
    ASSUME IInv, NEW o \in Orders, NEW e \in Events, NEW kind \in {"paid", "other"},
           customer_pays(o, e) \/ provider_reports(o, e, kind)
    PROVE  IInv'
<1> USE DEF IInv, customer_pays, provider_reports, checkout, ledger
<1>0. PICK k \in {"paid", "other"} :
          event' = [event EXCEPT ![e] = [order |-> o, kind |-> k, acked |-> FALSE]]
    OBVIOUS
<1>1. TypeOK'
    <2>1. [order |-> o, kind |-> k, acked |-> FALSE] \in ProviderEvent
        BY DEF ProviderEvent
    <2>2. event' \in [Events -> ProviderEvent]
        BY <1>0, <2>1 DEF TypeOK
    <2>3. /\ UNCHANGED <<orders, creating, refused, payable, payment_events, card_keys,
                         entitlements, worker, crashes>>
          /\ paid' \subseteq Orders
        BY DEF TypeOK
    <2>4. QED
        BY <2>2, <2>3 DEF TypeOK
<1>2. /\ UNCHANGED <<orders, payable, payment_events, card_keys, entitlements, worker>>
      /\ paid \subseteq paid' /\ paid' \subseteq paid \cup {o}
      /\ o \in payable
      /\ event[e].order = NoOrder
      /\ \A f \in Events \ {e} : event'[f] = event[f]
      /\ event'[e].order = o /\ ~ event'[e].acked
      /\ event'[e].kind = "paid" => o \in paid'
    BY DEF TypeOK
<1>3. StatusFitsProvider' /\ PayableIsReady' /\ FulfilledExactlyOnce'
    BY <1>2 DEF StatusFitsProvider, PayableIsReady, FulfilledExactlyOnce, SessionMatches
<1>4. EventsAreReal'
    BY <1>2 DEF EventsAreReal
<1>5. HandlersHoldEvents'
    BY <1>2 DEF HandlersHoldEvents
<1>6. ConfirmationFirst'
    <2>1. e \notin payment_events
        BY <1>2 DEF ConfirmationFirst
    <2>2. \A w \in Workers : worker[w].at # "idle" => worker[w].event \in Events \ {e}
        BY <1>2 DEF HandlersHoldEvents
    <2>3. \A f \in Events \ {e} : Confirmed(f)' <=> Confirmed(f)
        BY <1>2 DEF Confirmed
    <2>4. \A w \in Workers : worker[w].at = "committed" => Confirmed(worker[w].event)'
        <3> SUFFICES ASSUME NEW w \in Workers, worker[w].at = "committed"
                     PROVE  Confirmed(worker[w].event)'
            OBVIOUS
        <3>1. PICK f \in Events \ {e} : f = worker[w].event
            BY <2>2
        <3>2. Confirmed(f)'
            BY <2>3, <3>1 DEF ConfirmationFirst
        <3>3. QED
            BY <3>1, <3>2, <1>2 DEF Confirmed
    <2>5. QED
        BY <1>2, <2>1, <2>3, <2>4 DEF ConfirmationFirst, TypeOK
<1>7. QED
    BY <1>1, <1>3, <1>4, <1>5, <1>6

\* Everything a webhook handler does before its commit concerns its own state.
LEMMA HandlerStepKeeps ==
    ASSUME IInv, NEW w \in Workers, NEW x \in Worker,
           worker' = [worker EXCEPT ![w] = x],
           UNCHANGED <<checkout, ledger, paid, event>>,
           crashes' \in 0..MaxCrashes,
           x.at # "idle" => /\ x.event \in Events
                            /\ event[x.event].order # NoOrder,
           x.at \in {"inserted", "locked"} => event[x.event].kind = "paid",
           x.at = "committed" => Confirmed(x.event)
    PROVE  IInv'
<1> USE DEF IInv, checkout, ledger
<1>1. TypeOK'
    BY DEF TypeOK
<1>2. StatusFitsProvider' /\ PayableIsReady' /\ EventsAreReal' /\ FulfilledExactlyOnce'
    BY DEF StatusFitsProvider, PayableIsReady, EventsAreReal, FulfilledExactlyOnce,
        SessionMatches
<1>3. \A v \in Workers : worker'[v] = IF v = w THEN x ELSE worker[v]
    BY DEF TypeOK
<1>4. HandlersHoldEvents'
    BY <1>3 DEF HandlersHoldEvents
<1>5. \A v \in Workers : worker'[v].at = "committed" => Confirmed(worker[v].event)'
    BY <1>3 DEF ConfirmationFirst, Confirmed
<1>6. (\A e \in payment_events : event[e].order # NoOrder /\ Confirmed(e))'
    BY DEF ConfirmationFirst, Confirmed
<1>7. (\A e \in Events : event[e].acked => Confirmed(e))'
    BY DEF ConfirmationFirst, Confirmed
<1>8. QED
    BY <1>1, <1>2, <1>4, <1>5, <1>6, <1>7 DEF ConfirmationFirst

\* A delivery, a lock, a rollback.
LEMMA OpenTransactionKeeps ==
    ASSUME IInv, NEW w \in Workers,
           \/ \E e \in Events : deliver(w, e)
           \/ insert_payment_event(w)
           \/ find_order_by_id_for_update(w)
           \/ find_provider_order_by_reference_for_update(w)
           \/ deadlock_victim(w)
           \/ crash(w)
    PROVE  IInv'
<1> USE DEF IInv
<1>0. IdleWorker \in Worker /\ worker[w] \in Worker
    BY DEF IdleWorker, Worker, TypeOK
<1>0a. crashes \in 0..MaxCrashes
    BY DEF TypeOK
<1>1. ASSUME NEW e \in Events, deliver(w, e) PROVE IInv'
    <2>1. [at |-> "begin", event |-> e] \in Worker
        BY DEF Worker
    <2>2. PICK x \in Worker : x = [at |-> "begin", event |-> e]
        BY <2>1
    <2>3. QED
        BY <1>1, <1>0a, <2>2, HandlerStepKeeps DEF deliver
<1>2. CASE deadlock_victim(w) \/ crash(w)
    <2>1. PICK x \in Worker : x = IdleWorker
        BY <1>0
    <2>2. crashes' \in 0..MaxCrashes
        BY <1>2, <1>0a, MaxCrashesAssumption DEF deadlock_victim, crash
    <2>3. x.at = "idle"
        BY <2>1 DEF IdleWorker
    <2>4. /\ worker' = [worker EXCEPT ![w] = x]
          /\ UNCHANGED <<checkout, ledger, paid, event>>
        BY <1>2, <2>1 DEF deadlock_victim, crash
    <2>5. QED
        BY <2>2, <2>3, <2>4, HandlerStepKeeps
<1>3. ASSUME NEW s \in {"inserted", "locked", "committed"},
             worker[w].at # "idle", event[worker[w].event].kind = "paid",
             s = "committed" => worker[w].event \in payment_events,
             worker' = [worker EXCEPT ![w].at = s],
             UNCHANGED <<checkout, ledger, paid, event, crashes>>
      PROVE  IInv'
    <2>1. PICK x \in Worker : x = [worker[w] EXCEPT !.at = s]
        BY <1>0 DEF Worker
    <2>2. x.at = s /\ x.event = worker[w].event
        BY <1>0, <2>1 DEF Worker
    <2>3. x.event \in Events /\ event[x.event].order # NoOrder
        BY <1>3, <2>2 DEF HandlersHoldEvents
    <2>4. s = "committed" => Confirmed(x.event)
        BY <1>3, <2>2 DEF ConfirmationFirst
    <2>5. worker' = [worker EXCEPT ![w] = x]
        BY <1>3, <2>1
    <2>6. QED
        BY <1>3, <1>0a, <2>2, <2>3, <2>4, <2>5, HandlerStepKeeps
<1>4. CASE insert_payment_event(w)
    <2>1. CASE worker[w].event \in payment_events
        BY <1>3, <1>4, <2>1 DEF insert_payment_event, IsPaid
    <2>2. CASE worker[w].event \notin payment_events
        BY <1>3, <1>4, <2>2 DEF insert_payment_event, IsPaid
    <2>3. QED
        BY <2>1, <2>2
<1>5. CASE find_order_by_id_for_update(w)
    <2>1. event[worker[w].event].kind = "paid"
        BY <1>5 DEF find_order_by_id_for_update, HandlersHoldEvents
    <2>2. QED
        BY <1>3, <1>5, <2>1 DEF find_order_by_id_for_update
<1>6. CASE find_provider_order_by_reference_for_update(w)
    BY <1>3, <1>6 DEF find_provider_order_by_reference_for_update, IsPaid
<1>7. QED
    BY <1>1, <1>2, <1>4, <1>5, <1>6

\* The commit of a handler: it answers for its own event, which it has recorded,
\* and the order of a paid event is confirmed by then.
LEMMA CommitKeepsOrder ==
    ASSUME IInv, NEW w \in Workers, NEW e \in Events,
           worker[w].at # "idle", e = worker[w].event,
           worker' = [worker EXCEPT ![w].at = "committed"],
           payment_events' = payment_events \cup {e},
           event' = event,
           \A o \in Orders : orders[o].status = "confirmed" => orders'[o].status = "confirmed",
           event[e].kind = "paid" => orders'[event[e].order].status = "confirmed"
    PROVE  HandlersHoldEvents' /\ ConfirmationFirst'
<1> USE DEF IInv
<1>1. /\ worker[w] \in Worker
      /\ \A v \in Workers : v # w => worker'[v] = worker[v]
      /\ worker'[w].at = "committed"
    BY DEF TypeOK, Worker
<1>1a. worker'[w].event = e
    BY <1>1 DEF TypeOK, Worker
<1>2. event[e].order # NoOrder
    BY DEF HandlersHoldEvents
<1>3. HandlersHoldEvents'
    BY <1>1, <1>1a, <1>2 DEF HandlersHoldEvents
<1>4. ASSUME NEW f \in Events, Confirmed(f), event[f].order # NoOrder
      PROVE  Confirmed(f)'
    BY <1>4 DEF Confirmed, TypeOK, ProviderEvent
<1>5. Confirmed(e)'
    BY DEF Confirmed
<1>6. (\A f \in payment_events : event[f].order # NoOrder /\ Confirmed(f))'
    BY <1>2, <1>4, <1>5 DEF ConfirmationFirst, TypeOK
<1>7. ASSUME NEW v \in Workers, worker'[v].at = "committed"
      PROVE  Confirmed(worker[v].event)'
    <2>1. CASE v = w
        BY <2>1, <1>1a, <1>5 DEF Confirmed
    <2>2. CASE v # w
        <3>1. worker'[v] = worker[v] /\ worker[v].at = "committed"
            BY <2>2, <1>1, <1>7
        <3>2. PICK f \in Events : f = worker[v].event /\ event[f].order # NoOrder
            BY <3>1 DEF HandlersHoldEvents
        <3>3. Confirmed(f)'
            BY <1>4, <3>1, <3>2 DEF ConfirmationFirst
        <3>4. f = worker'[v].event
            BY <3>1, <3>2
        <3>5. QED
            BY <3>3, <3>4 DEF Confirmed
    <2>3. QED
        BY <2>1, <2>2
<1>8. (\A f \in Events : event[f].acked => Confirmed(f))'
    BY <1>4 DEF ConfirmationFirst, EventsAreReal
<1>9. QED
    BY <1>3, <1>6, <1>7, <1>8 DEF ConfirmationFirst

\* An event that is not a payment is recorded and nothing else changes.
LEMMA RecordIgnoredKeeps ==
    ASSUME IInv, NEW w \in Workers, record_ignored_event(w)
    PROVE  IInv'
<1> USE DEF IInv, record_ignored_event, checkout
<1>1. PICK e \in Events : e = worker[w].event
    BY DEF HandlersHoldEvents
<1>2. TypeOK'
    BY <1>1 DEF TypeOK, Worker
<1>3. StatusFitsProvider' /\ PayableIsReady' /\ EventsAreReal' /\ FulfilledExactlyOnce'
    BY DEF StatusFitsProvider, PayableIsReady, EventsAreReal, FulfilledExactlyOnce,
        SessionMatches
<1>4. event[e].kind # "paid"
    BY <1>1 DEF IsPaid
<1>5. HandlersHoldEvents' /\ ConfirmationFirst'
    BY <1>1, <1>4, CommitKeepsOrder
<1>6. QED
    BY <1>2, <1>3, <1>5

\* The transaction of a payment commits, on an order that is confirmed already
\* or is confirmed and provisioned now, or it rolls back.
LEMMA FulfillKeeps ==
    ASSUME IInv, NEW w \in Workers, fulfill(w)
    PROVE  IInv'
<1> USE DEF IInv
<1>1. PICK e \in Events : /\ e = worker[w].event
                          /\ event[e].order # NoOrder
                          /\ event[e].kind = "paid"
    BY DEF HandlersHoldEvents, fulfill
<1>2. PICK o \in Orders : o = OrderOf(w) /\ o = event[e].order
    BY <1>1 DEF OrderOf, TypeOK, ProviderEvent
<1>3. o \in paid /\ o \in payable /\ orders[o].provider \in Provided /\ SessionMatches(o)
    BY <1>1, <1>2 DEF EventsAreReal, PayableIsReady
<1>4. e \in payment_events => orders[o].status = "confirmed"
    BY <1>1, <1>2 DEF ConfirmationFirst, Confirmed
<1>5. CASE orders[o].status = "confirmed"
    <2>1. /\ worker' = [worker EXCEPT ![w].at = "committed"]
          /\ payment_events' = payment_events \cup {e}
          /\ UNCHANGED <<orders, card_keys, entitlements, creating, refused, payable,
                         paid, event, crashes>>
        BY <1>1, <1>2, <1>3, <1>5 DEF fulfill, checkout
    <2>2. TypeOK'
        BY <2>1 DEF TypeOK, Worker
    <2>3. StatusFitsProvider' /\ PayableIsReady' /\ EventsAreReal' /\ FulfilledExactlyOnce'
        BY <2>1 DEF StatusFitsProvider, PayableIsReady, EventsAreReal, FulfilledExactlyOnce,
            SessionMatches
    <2>4. worker[w].at # "idle"
        BY DEF fulfill
    <2>5. HandlersHoldEvents' /\ ConfirmationFirst'
        BY <1>1, <1>2, <1>5, <2>1, <2>4, CommitKeepsOrder
    <2>6. QED
        BY <2>2, <2>3, <2>5
<1>6. CASE orders[o].status # "confirmed" /\ MayProvision(o)
    <2>1. /\ worker' = [worker EXCEPT ![w].at = "committed"]
          /\ payment_events' = payment_events \cup {e}
          /\ provision_paid_order_entitlement(o)
          /\ UNCHANGED <<creating, refused, payable, paid, event, crashes>>
        BY <1>1, <1>2, <1>3, <1>4, <1>6 DEF fulfill, checkout
    <2>2. TypeOK'
        <3>1. worker' \in [Workers -> Worker] /\ payment_events' \subseteq Events
            BY <2>1 DEF TypeOK, Worker
        <3>2. orders' \in [Orders -> Order]
            BY <2>1 DEF TypeOK, provision_paid_order_entitlement, Order
        <3>3. card_keys' \in [Orders -> Nat] /\ entitlements' \in [Orders -> Nat]
            BY <2>1 DEF TypeOK, provision_paid_order_entitlement
        <3>4. QED
            BY <2>1, <3>1, <3>2, <3>3 DEF TypeOK
    <2>3. /\ \A p \in Orders : /\ orders'[p].provider = orders[p].provider
                               /\ orders'[p].checkout_session = orders[p].checkout_session
                               /\ p # o => orders'[p].status = orders[p].status
                               /\ p # o => card_keys'[p] = card_keys[p]
                               /\ p # o => entitlements'[p] = entitlements[p]
          /\ orders'[o].status = "confirmed"
          /\ card_keys'[o] = card_keys[o] + 1
          /\ entitlements'[o] = entitlements[o] + 1
        BY <2>1 DEF provision_paid_order_entitlement, TypeOK, Order
    <2>4. StatusFitsProvider'
        BY <2>3, <1>3 DEF StatusFitsProvider, Provided
    <2>5. PayableIsReady'
        BY <2>1, <2>3 DEF PayableIsReady, SessionMatches, TypeOK
    <2>6. EventsAreReal'
        BY <2>1 DEF EventsAreReal
    <2>7. FulfilledExactlyOnce'
        BY <2>1, <2>3, <1>3, <1>6 DEF FulfilledExactlyOnce, MayProvision, Provided
    <2>8. worker[w].at # "idle"
        BY DEF fulfill
    <2>9. HandlersHoldEvents' /\ ConfirmationFirst'
        BY <1>1, <1>2, <2>1, <2>3, <2>8, CommitKeepsOrder
    <2>10. QED
        BY <2>2, <2>4, <2>5, <2>6, <2>7, <2>9
<1>7. CASE orders[o].status # "confirmed" /\ ~ MayProvision(o)
    <2>1. /\ worker' = [worker EXCEPT ![w] = IdleWorker]
          /\ UNCHANGED <<checkout, ledger, paid, event, crashes>>
        BY <1>1, <1>2, <1>3, <1>4, <1>7 DEF fulfill
    <2>2. PICK x \in Worker : x = IdleWorker
        BY DEF IdleWorker, Worker
    <2>3. x.at = "idle"
        BY <2>2 DEF IdleWorker
    <2>4. crashes \in 0..MaxCrashes
        BY DEF TypeOK
    <2>5. QED
        BY <2>1, <2>2, <2>3, <2>4, HandlerStepKeeps
<1>8. QED
    BY <1>5, <1>6, <1>7

\* The acknowledgement comes after the commit.
LEMMA RespondKeeps ==
    ASSUME IInv, NEW w \in Workers, respond(w)
    PROVE  IInv'
<1> USE DEF IInv, respond, checkout, ledger
<1>1. PICK e \in Events : e = worker[w].event /\ event[e].order # NoOrder /\ Confirmed(e)
    BY DEF HandlersHoldEvents, ConfirmationFirst
<1>2. TypeOK'
    <2>1. worker' \in [Workers -> Worker]
        BY DEF TypeOK, Worker, IdleWorker
    <2>2. event' \in [Events -> ProviderEvent]
        <3>1. event[e] \in ProviderEvent
            BY DEF TypeOK
        <3>2. [event[e] EXCEPT !.acked = TRUE] \in ProviderEvent
            BY <3>1 DEF ProviderEvent
        <3>3. event' = [event EXCEPT ![e] = [event[e] EXCEPT !.acked = TRUE]]
            BY <1>1
        <3>4. QED
            BY <3>2, <3>3 DEF TypeOK
    <2>3. QED
        BY <2>1, <2>2 DEF TypeOK
<1>3. /\ \A f \in Events : /\ event'[f].order = event[f].order
                           /\ event'[f].kind = event[f].kind
                           /\ f # e => event'[f].acked = event[f].acked
      /\ UNCHANGED <<orders, payable, paid, payment_events, card_keys, entitlements>>
    BY <1>1 DEF TypeOK, ProviderEvent
<1>4. \A v \in Workers : worker'[v].at # "idle" => worker'[v] = worker[v]
    BY DEF TypeOK, IdleWorker
<1>5. StatusFitsProvider' /\ PayableIsReady' /\ FulfilledExactlyOnce'
    BY DEF StatusFitsProvider, PayableIsReady, FulfilledExactlyOnce, SessionMatches
<1>6. EventsAreReal'
    BY <1>1, <1>3 DEF EventsAreReal
<1>7. HandlersHoldEvents'
    BY <1>3, <1>4 DEF HandlersHoldEvents
<1>8. \A f \in Events : Confirmed(f) => Confirmed(f)'
    BY <1>3 DEF Confirmed
<1>9. (\A f \in payment_events : event[f].order # NoOrder /\ Confirmed(f))'
    BY <1>3, <1>8 DEF ConfirmationFirst, TypeOK
<1>10. (\A f \in Events : event[f].acked => Confirmed(f))'
    BY <1>1, <1>3, <1>8 DEF ConfirmationFirst
<1>11. ASSUME NEW v \in Workers, worker'[v].at = "committed"
       PROVE  Confirmed(worker[v].event)'
    <2>1. worker'[v] = worker[v] /\ worker[v].at = "committed"
        BY <1>4, <1>11
    <2>2. PICK f \in Events : f = worker[v].event
        BY <2>1 DEF HandlersHoldEvents
    <2>3. Confirmed(f)'
        BY <1>8, <2>1, <2>2 DEF ConfirmationFirst
    <2>4. f = worker'[v].event
        BY <2>1, <2>2
    <2>5. QED
        BY <2>3, <2>4 DEF Confirmed
<1>12. QED
    BY <1>2, <1>5, <1>6, <1>7, <1>9, <1>10, <1>11 DEF ConfirmationFirst

\* The manual confirmation touches one manual order, once.
LEMMA ConfirmOrderKeeps ==
    ASSUME IInv, NEW o \in Orders, confirm_order(o)
    PROVE  IInv'
<1> USE DEF IInv, confirm_order, checkout
<1>1. TypeOK'
    BY DEF TypeOK, Order
<1>2. /\ \A p \in Orders : /\ orders'[p].provider = orders[p].provider
                           /\ orders'[p].checkout_session = orders[p].checkout_session
                           /\ p # o => orders'[p].status = orders[p].status
                           /\ p # o => card_keys'[p] = card_keys[p]
      /\ orders'[o].status = "confirmed"
      /\ card_keys'[o] = card_keys[o] + 1
      /\ orders[o].provider = "manual"
    BY DEF TypeOK, Order, StatusFitsProvider
<1>3. StatusFitsProvider' /\ EventsAreReal' /\ HandlersHoldEvents'
    BY <1>2 DEF StatusFitsProvider, EventsAreReal, HandlersHoldEvents
<1>4. PayableIsReady'
    BY <1>2 DEF PayableIsReady, SessionMatches, TypeOK
<1>5. FulfilledExactlyOnce'
    BY <1>2 DEF FulfilledExactlyOnce
<1>6. ConfirmationFirst'
    BY <1>2, ConfirmationStays
<1>7. QED
    BY <1>1, <1>3, <1>4, <1>5, <1>6

-----------------------------------------------------------------------------

\* Every step of create_order, the providers, the webhooks and the manual
\* confirmation keeps the invariant.
LEMMA NextIInv == IInv /\ [Next]_vars => IInv'
<1> SUFFICES ASSUME IInv, [Next]_vars PROVE IInv'
    OBVIOUS
<1>1. CASE UNCHANGED vars
    BY <1>1 DEF IInv, vars, TypeOK, StatusFitsProvider, PayableIsReady, EventsAreReal,
        HandlersHoldEvents, ConfirmationFirst, Confirmed, FulfilledExactlyOnce, SessionMatches
<1>2. ASSUME NEW o \in Orders, NEW provider \in Providers, insert_order(o, provider)
      PROVE  IInv'
    BY <1>2, InsertOrderKeeps
<1>3. ASSUME NEW o \in Orders,
             \/ create_stripe_checkout_session(o) \/ attach_checkout_session(o)
             \/ create_wechat_native_prepay(o) \/ create_order_fails(o)
      PROVE  IInv'
    BY <1>3, CreateOrderKeeps
<1>4. ASSUME NEW o \in Orders, NEW e \in Events, customer_pays(o, e)
      PROVE  IInv'
    BY <1>4, ProviderKeeps
<1>5. ASSUME NEW o \in Orders, NEW e \in Events, NEW kind \in {"paid", "other"},
             provider_reports(o, e, kind)
      PROVE  IInv'
    BY <1>5, ProviderKeeps
<1>6. ASSUME NEW w \in Workers, NEW e \in Events, deliver(w, e)
      PROVE  IInv'
    BY <1>6, OpenTransactionKeeps
<1>7. ASSUME NEW w \in Workers, Webhook(w)
      PROVE  IInv'
    BY <1>7, OpenTransactionKeeps, RecordIgnoredKeeps, FulfillKeeps, RespondKeeps DEF Webhook
<1>8. ASSUME NEW w \in Workers, deadlock_victim(w) \/ crash(w)
      PROVE  IInv'
    BY <1>8, OpenTransactionKeeps
<1>9. ASSUME NEW o \in Orders, confirm_order(o)
      PROVE  IInv'
    BY <1>9, ConfirmOrderKeeps
<1>10. QED
    BY <1>1, <1>2, <1>3, <1>4, <1>5, <1>6, <1>7, <1>8, <1>9 DEF Next

\* The inductive invariant holds in every reachable state.
THEOREM Invariance == Spec => []IInv
    BY InitIInv, NextIInv, PTL DEF Spec

\* Type correctness of the tables, the handlers and the providers.
THEOREM TypeCorrect == Spec => []TypeOK
<1>1. IInv => TypeOK
    BY DEF IInv
<1>2. QED
    BY <1>1, Invariance, PTL

\* create_order, the webhooks and confirm_order give an order one card key when
\* it is confirmed and none before, and a provider's order one entitlement, with
\* the provider's money.
THEOREM FulfilmentIsExactlyOnce == Spec => []FulfilledExactlyOnce
<1>1. IInv => FulfilledExactlyOnce
    BY DEF IInv
<1>2. QED
    BY <1>1, Invariance, PTL

\* A webhook that answers 2xx for a payment has fulfilled its order, through any
\* number of crashes, repetitions and deadlocks.
THEOREM AcknowledgedIsFulfilled == Spec => []AckedPaymentIsFulfilled
<1>1. IInv => AckedPaymentIsFulfilled
    <2> SUFFICES ASSUME IInv, NEW e \in Events, event[e].acked, event[e].kind = "paid"
                 PROVE  /\ orders[event[e].order].status = "confirmed"
                        /\ entitlements[event[e].order] = 1
        BY DEF AckedPaymentIsFulfilled
    <2>1. orders[event[e].order].status = "confirmed"
        BY DEF IInv, ConfirmationFirst, Confirmed
    <2>2. PICK o \in Orders : o = event[e].order /\ orders[o].provider \in Provided
        BY DEF IInv, EventsAreReal, PayableIsReady, TypeOK
    <2>3. QED
        BY <2>1, <2>2 DEF IInv, FulfilledExactlyOnce, Provided
<1>2. QED
    BY <1>1, Invariance, PTL

\* No payment is turned away by validate_stripe_session_matches_order because
\* attach_checkout_session came too late.
THEOREM SessionsAreAttachedFirst == Spec => []PaidSessionIsAttached
<1>1. IInv => PaidSessionIsAttached
    <2> SUFFICES ASSUME IInv, NEW w \in Workers, worker[w].at = "locked"
                 PROVE  SessionMatches(OrderOf(w))
        BY DEF PaidSessionIsAttached
    <2>1. OrderOf(w) \in payable
        BY DEF IInv, OrderOf, HandlersHoldEvents, EventsAreReal
    <2>2. QED
        BY <2>1 DEF IInv, PayableIsReady
<1>2. QED
    BY <1>1, Invariance, PTL

-----------------------------------------------------------------------------
(* Refinement: every step is a step of OrderFulfilment or a stutter of it. *)

StageOf(o) ==
    CASE orders[o].status = "absent" -> "none"
      [] orders[o].status = "confirmed" -> "fulfilled"
      [] orders[o].status = "pending_manual_payment" -> "offline"
      [] OTHER -> IF o \in paid THEN "paid" ELSE "open"

\* Only o moves in the abstract state.
LEMMA OneOrderMoves ==
    ASSUME NEW o \in Orders, NEW s,
           StageOf(o)' = s,
           \A p \in Orders : p # o => StageOf(p)' = StageOf(p)
    PROVE  stage' = [stage EXCEPT ![o] = s]
<1>1. stage = [p \in Orders |-> StageOf(p)]
    BY DEF stage, StageOf
<1>2. stage' = [p \in Orders |-> StageOf(p)']
    BY DEF stage, StageOf
<1>3. QED
    BY <1>1, <1>2

\* A step that leaves status and money alone is a stutter.
LEMMA NothingMoves ==
    ASSUME \A p \in Orders : orders'[p].status = orders[p].status,
           paid' = paid, card_keys' = card_keys
    PROVE  UNCHANGED Promise!vars
<1>1. stage' = stage
    BY DEF stage
<1>2. QED
    BY <1>1 DEF Promise!vars

\* The empty table is the abstract initial state.
LEMMA InitRefines == Init => Promise!Init
    BY DEF Init, Promise!Init, stage

\* insert_order opens the order, or is refused and changes nothing.
LEMMA InsertOrderRefines ==
    ASSUME IInv, NEW o \in Orders, NEW provider \in Providers, insert_order(o, provider)
    PROVE  [Promise!Next]_(Promise!vars)
<1>1. CASE plan_currency(provider) \in SchemaCurrencies
    <2>1. /\ orders' = [orders EXCEPT ![o] =
                            [status |-> initial_status(provider), provider |-> provider,
                             checkout_session |-> "NULL"]]
          /\ UNCHANGED <<paid, card_keys>>
          /\ orders[o].status = "absent"
        BY <1>1 DEF insert_order
    <2>2. /\ orders'[o].status = initial_status(provider)
          /\ \A p \in Orders : p # o => orders'[p] = orders[p]
        BY <2>1 DEF IInv, TypeOK
    <2>3. o \notin paid
        BY <2>1 DEF IInv, StatusFitsProvider, PayableIsReady, Provided
    <2>4. StageOf(o) = "none" /\ \A p \in Orders : p # o => StageOf(p)' = StageOf(p)
        BY <2>1, <2>2 DEF StageOf
    <2>5. StageOf(o)' = IF provider = "manual" THEN "offline" ELSE "open"
        BY <2>1, <2>2, <2>3 DEF StageOf, initial_status
    <2>6. PICK s \in {"open", "offline"} : StageOf(o)' = s
        BY <2>5
    <2>7. stage' = [stage EXCEPT ![o] = s]
        BY <2>4, <2>6, OneOrderMoves
    <2>8. stage[o] = "none"
        BY <2>4 DEF stage, StageOf
    <2>9. QED
        BY <2>1, <2>7, <2>8 DEF Promise!Next, Promise!Open
<1>2. CASE plan_currency(provider) \notin SchemaCurrencies
    BY <1>2, NothingMoves DEF insert_order
<1>3. QED
    BY <1>1, <1>2

\* The customer's payment pays an open order.
LEMMA CustomerPaysRefines ==
    ASSUME IInv, NEW o \in Orders, NEW e \in Events, customer_pays(o, e)
    PROVE  Promise!Next
<1>1. /\ orders' = orders /\ card_keys' = card_keys
      /\ paid' = paid \cup {o}
      /\ o \in payable /\ o \notin paid
    BY DEF customer_pays, ledger
<1>2. orders[o].provider \in Provided
    BY <1>1 DEF IInv, PayableIsReady
<1>3. orders[o].status = "pending_provider_payment"
    BY <1>1, <1>2 DEF IInv, TypeOK, Order, StatusFitsProvider, FulfilledExactlyOnce, Provided
<1>4. StageOf(o) = "open" /\ StageOf(o)' = "paid"
    BY <1>1, <1>3 DEF StageOf
<1>5. \A p \in Orders : p # o => StageOf(p)' = StageOf(p)
    BY <1>1 DEF StageOf
<1>6. stage' = [stage EXCEPT ![o] = "paid"]
    BY <1>4, <1>5, OneOrderMoves
<1>7. stage[o] = "open"
    BY <1>4 DEF stage, StageOf
<1>8. QED
    BY <1>1, <1>6, <1>7 DEF Promise!Next, Promise!Pay

\* The transaction that confirms an order fulfils it; every other end of the
\* transaction is a stutter.
LEMMA FulfillRefines ==
    ASSUME IInv, NEW w \in Workers, fulfill(w)
    PROVE  [Promise!Next]_(Promise!vars)
<1>1. PICK e \in Events : /\ e = worker[w].event
                          /\ event[e].order # NoOrder
                          /\ event[e].kind = "paid"
    BY DEF IInv, HandlersHoldEvents, fulfill
<1>2. PICK o \in Orders : o = OrderOf(w) /\ o = event[e].order
    BY <1>1 DEF IInv, OrderOf, TypeOK, ProviderEvent
<1>3. o \in paid
    BY <1>1, <1>2 DEF IInv, EventsAreReal
<1>4. CASE orders' = orders /\ card_keys' = card_keys
    BY <1>4, NothingMoves DEF fulfill
<1>5. CASE ~ (orders' = orders /\ card_keys' = card_keys)
    <2>1. /\ MayProvision(o)
          /\ provision_paid_order_entitlement(o)
          /\ paid' = paid
        BY <1>2, <1>5 DEF fulfill, ledger
    <2>2. /\ orders'[o].status = "confirmed"
          /\ \A p \in Orders : p # o => orders'[p] = orders[p]
        BY <2>1 DEF provision_paid_order_entitlement, IInv, TypeOK, Order
    <2>3. StageOf(o) = "paid" /\ StageOf(o)' = "fulfilled"
        BY <1>3, <2>1, <2>2 DEF StageOf, MayProvision
    <2>4. \A p \in Orders : p # o => StageOf(p)' = StageOf(p)
        BY <2>1, <2>2 DEF StageOf
    <2>5. stage' = [stage EXCEPT ![o] = "fulfilled"]
        BY <2>3, <2>4, OneOrderMoves
    <2>6. stage[o] = "paid"
        BY <2>3 DEF stage, StageOf
    <2>7. QED
        BY <2>1, <2>5, <2>6 DEF Promise!Next, Promise!Fulfil, provision_paid_order_entitlement
<1>6. QED
    BY <1>4, <1>5

\* The manual confirmation fulfils an offline order.
LEMMA ConfirmOrderRefines ==
    ASSUME IInv, NEW o \in Orders, confirm_order(o)
    PROVE  Promise!Next
<1>1. /\ orders' = [orders EXCEPT ![o].status = "confirmed"]
      /\ card_keys' = [card_keys EXCEPT ![o] = @ + 1]
      /\ paid' = paid
      /\ orders[o].status = "pending_manual_payment"
    BY DEF confirm_order
<1>2. /\ orders'[o].status = "confirmed"
      /\ \A p \in Orders : p # o => orders'[p] = orders[p]
    BY <1>1 DEF IInv, TypeOK, Order
<1>3. StageOf(o) = "offline" /\ StageOf(o)' = "fulfilled"
    BY <1>1, <1>2 DEF StageOf
<1>4. \A p \in Orders : p # o => StageOf(p)' = StageOf(p)
    BY <1>1, <1>2 DEF StageOf
<1>5. stage' = [stage EXCEPT ![o] = "fulfilled"]
    BY <1>3, <1>4, OneOrderMoves
<1>6. stage[o] = "offline"
    BY <1>3 DEF stage, StageOf
<1>7. QED
    BY <1>1, <1>5, <1>6 DEF Promise!Next, Promise!Fulfil

LEMMA NextRefines == IInv /\ [Next]_vars => [Promise!Next]_(Promise!vars)
<1> SUFFICES ASSUME IInv, [Next]_vars PROVE [Promise!Next]_(Promise!vars)
    OBVIOUS
<1>1. CASE UNCHANGED vars
    BY <1>1, NothingMoves DEF vars
<1>2. ASSUME NEW o \in Orders, NEW provider \in Providers, insert_order(o, provider)
      PROVE  [Promise!Next]_(Promise!vars)
    BY <1>2, InsertOrderRefines
<1>3. ASSUME NEW o \in Orders, attach_checkout_session(o)
      PROVE  [Promise!Next]_(Promise!vars)
    <2>1. \A p \in Orders : orders'[p].status = orders[p].status
        BY <1>3 DEF attach_checkout_session, IInv, TypeOK, Order
    <2>2. QED
        BY <1>3, <2>1, NothingMoves DEF attach_checkout_session
<1>4. ASSUME NEW o \in Orders,
             \/ create_stripe_checkout_session(o) \/ create_wechat_native_prepay(o)
             \/ create_order_fails(o)
      PROVE  [Promise!Next]_(Promise!vars)
    BY <1>4, NothingMoves DEF create_stripe_checkout_session, create_wechat_native_prepay,
        create_order_fails
<1>5. ASSUME NEW o \in Orders, NEW e \in Events, customer_pays(o, e)
      PROVE  [Promise!Next]_(Promise!vars)
    BY <1>5, CustomerPaysRefines
<1>6. ASSUME NEW o \in Orders, NEW e \in Events, NEW kind \in {"paid", "other"},
             provider_reports(o, e, kind)
      PROVE  [Promise!Next]_(Promise!vars)
    BY <1>6, NothingMoves DEF provider_reports, ledger
<1>7. ASSUME NEW w \in Workers, NEW e \in Events, deliver(w, e)
      PROVE  [Promise!Next]_(Promise!vars)
    BY <1>7, NothingMoves DEF deliver, ledger
<1>8. ASSUME NEW w \in Workers, Webhook(w)
      PROVE  [Promise!Next]_(Promise!vars)
    <2>1. CASE fulfill(w)
        BY <2>1, FulfillRefines
    <2>2. CASE ~ fulfill(w)
        <3>1. orders' = orders /\ paid' = paid /\ card_keys' = card_keys
            BY <1>8, <2>2 DEF Webhook, record_ignored_event, insert_payment_event,
                find_order_by_id_for_update, find_provider_order_by_reference_for_update,
                respond, ledger
        <3>2. QED
            BY <3>1, NothingMoves
    <2>3. QED
        BY <2>1, <2>2
<1>9. ASSUME NEW w \in Workers, deadlock_victim(w) \/ crash(w)
      PROVE  [Promise!Next]_(Promise!vars)
    BY <1>9, NothingMoves DEF deadlock_victim, crash, ledger
<1>10. ASSUME NEW o \in Orders, confirm_order(o)
       PROVE  [Promise!Next]_(Promise!vars)
    BY <1>10, ConfirmOrderRefines
<1>11. QED
    BY <1>1, <1>2, <1>3, <1>4, <1>5, <1>6, <1>7, <1>8, <1>9, <1>10 DEF Next

\* The payment side implements the safety part of what OrderFulfilment promises:
\* an order is opened, paid and fulfilled once, in this order, whatever the
\* webhooks, their retries, locks and crashes do.
THEOREM SafeRefinement == Spec => FulfilmentIsSafe
    BY InitRefines, NextRefines, Invariance, PTL DEF Spec, FulfilmentIsSafe, Promise!SafeSpec
=============================================================================
