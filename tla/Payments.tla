------------------------------ MODULE Payments ------------------------------
(***************************************************************************)
(* Orders and their payment in cloud-api (apps/cloud-api/src/main.rs, the  *)
(* tables of apps/cloud-api/migrations): create_order, get_order, the      *)
(* Stripe and WeChat Pay webhooks and the manual confirmation.             *)
(*                                                                         *)
(* Each webhook delivery is handled by a worker with its own Postgres      *)
(* transaction at READ COMMITTED.  A transaction's writes become visible   *)
(* at its commit; until then the locks it holds are what other workers     *)
(* see.  Three locks matter: the entry of an uncommitted event id in the   *)
(* primary key of payment_events, the KEY SHARE lock that the foreign key  *)
(* of payment_events takes on the order, and the FOR UPDATE lock on the    *)
(* order.  Stripe's handler takes them in the order event, share, update,  *)
(* so two events of one order can deadlock: Postgres aborts one of them.   *)
(*                                                                         *)
(* Stripe and WeChat are external: they send the events of an order at     *)
(* least once, in any order, and again until they are acknowledged.        *)
(***************************************************************************)
EXTENDS Naturals, FiniteSets

CONSTANTS
    Orders,            \* order ids
    Events,            \* ids of the events the providers may send
    Workers,           \* webhook handlers in flight at once
    NoOrder, NoEvent,
    Providers,         \* the payment providers the deployments configure
    SchemaCurrencies,  \* the spellings orders_currency_check accepts
    MaxCrashes         \* bound: handlers that die, over a whole behaviour

ASSUME NoOrderAssumption == NoOrder \notin Orders
ASSUME NoEventAssumption == NoEvent \notin Events
ASSUME ProvidersAssumption == Providers \subseteq {"manual", "stripe", "wechat_pay"}
ASSUME MaxCrashesAssumption == MaxCrashes \in Nat

VARIABLES
    orders,          \* the orders table (committed rows)
    creating,        \* where create_order is, for each order
    refused,         \* orders whose INSERT the database refused
    payable,         \* orders for which a customer holds a checkout or code URL
    paid,            \* orders whose money the provider holds
    event,           \* the providers' events and whether they are acknowledged
    payment_events,  \* the payment_events table (committed rows)
    card_keys,       \* committed card_keys rows, counted per order
    entitlements,    \* committed entitlements rows, counted per order
    worker,          \* the webhook handlers
    crashes

vars == <<orders, creating, refused, payable, paid, event, payment_events,
          card_keys, entitlements, worker, crashes>>

\* What only create_order and get_order change, and what the webhooks change.
checkout == <<creating, refused, payable>>
ledger   == <<orders, payment_events, card_keys, entitlements>>

-----------------------------------------------------------------------------
(* Data.                                                                   *)

Order == [status   : {"absent", "pending_manual_payment",
                      "pending_provider_payment", "confirmed"},
          provider : {"none", "manual", "stripe", "wechat_pay"},
          checkout_session : {"NULL", "attached"}]

\* An event belongs to an order; it reports the money (payment_status "paid",
\* TRANSACTION.SUCCESS) or something else (an unpaid session, a refund).
ProviderEvent == [order : Orders \cup {NoOrder},
                  kind  : {"paid", "other"},
                  acked : BOOLEAN]

\* begin: the signature is verified.  inserted: the event row and the share
\* lock are held.  locked: the order is held FOR UPDATE.  commit: committed,
\* the answer is not sent yet.
Worker == [at    : {"idle", "begin", "inserted", "locked", "committed"},
           event : Events \cup {NoEvent}]

IdleWorker == [at |-> "idle", event |-> NoEvent]

\* plan_definition: the currency is upper case for WeChat, else lower case.
plan_currency(provider) == IF provider = "wechat_pay" THEN "CNY" ELSE "cny"

initial_status(provider) ==
    IF provider = "manual" THEN "pending_manual_payment"
                           ELSE "pending_provider_payment"

-----------------------------------------------------------------------------
(* Locks.                                                                  *)

OrderOf(w) == event[worker[w].event].order

\* Workers with an uncommitted row for event e.
HoldsEvent(e) == {w \in Workers : worker[w].at = "inserted" /\ worker[w].event = e}
                 \cup {w \in Workers : /\ worker[w].at = "locked"
                                       /\ worker[w].event = e
                                       /\ orders[OrderOf(w)].provider = "stripe"}

Shares(o)  == {w \in Workers : worker[w].at = "inserted" /\ OrderOf(w) = o}
Updates(o) == {w \in Workers : worker[w].at = "locked" /\ OrderOf(w) = o}

-----------------------------------------------------------------------------
(* create_order.                                                           *)

\* The INSERT is committed before the provider is called; a CHECK violation
\* answers 500 and leaves nothing behind.
insert_order(o, provider) ==
    /\ creating[o] = "none"
    /\ orders[o].status = "absent"
    /\ IF plan_currency(provider) \in SchemaCurrencies
       THEN /\ orders' = [orders EXCEPT ![o] =
                             [status |-> initial_status(provider),
                              provider |-> provider,
                              checkout_session |-> "NULL"]]
            /\ creating' = [creating EXCEPT ![o] =
                               IF provider = "manual" THEN "done" ELSE "inserted"]
            /\ UNCHANGED refused
       ELSE /\ refused' = refused \cup {o}
            /\ creating' = [creating EXCEPT ![o] = "done"]
            /\ UNCHANGED orders
    /\ UNCHANGED <<payable, paid, event, payment_events, card_keys,
                   entitlements, worker, crashes>>

\* Mutant: the URL is handed out before the session id is attached.
create_stripe_checkout_session_Early(o) ==
    /\ creating[o] = "inserted"
    /\ orders[o].provider = "stripe"
    /\ creating' = [creating EXCEPT ![o] = "session"]
    /\ payable' = payable \cup {o}
    /\ UNCHANGED <<orders, refused, paid, event, payment_events,
                   card_keys, entitlements, worker, crashes>>

\* create_stripe_checkout_session: a session exists at Stripe, its id and URL
\* are in the handler's hands only.
create_stripe_checkout_session(o) ==
    /\ creating[o] = "inserted"
    /\ orders[o].provider = "stripe"
    /\ creating' = [creating EXCEPT ![o] = "session"]
    /\ UNCHANGED <<orders, refused, payable, paid, event, payment_events,
                   card_keys, entitlements, worker, crashes>>

\* attach_checkout_session, then the answer with the URL.  The UPDATE changes
\* a uniquely indexed column and so waits for share and update locks.
attach_checkout_session(o) ==
    /\ creating[o] = "session"
    /\ orders[o].status = "pending_provider_payment"
    /\ Shares(o) = {} /\ Updates(o) = {}
    /\ orders' = [orders EXCEPT ![o].checkout_session = "attached"]
    /\ creating' = [creating EXCEPT ![o] = "done"]
    /\ payable' = payable \cup {o}
    /\ UNCHANGED <<refused, paid, event, payment_events, card_keys,
                   entitlements, worker, crashes>>

\* create_wechat_native_prepay, from create_order, or later from get_order for
\* an order that still waits for its payment.  The code URL names the order.
create_wechat_native_prepay(o) ==
    /\ orders[o].provider = "wechat_pay"
    /\ orders[o].status = "pending_provider_payment"
    /\ payable' = payable \cup {o}
    /\ creating' = [creating EXCEPT ![o] = "done"]
    /\ UNCHANGED <<orders, refused, paid, event, payment_events, card_keys,
                   entitlements, worker, crashes>>

\* The provider is unreachable or refuses, the client goes away, or the process
\* dies between two steps of create_order: the order row stays.
create_order_fails(o) ==
    /\ creating[o] \in {"inserted", "session"}
    /\ creating' = [creating EXCEPT ![o] = "done"]
    /\ UNCHANGED <<orders, refused, payable, paid, event, payment_events,
                   card_keys, entitlements, worker, crashes>>

-----------------------------------------------------------------------------
(* The providers (external).                                               *)

\* A customer pays through the URL; a session or an order is paid once.  The
\* provider has then an event to report it.
customer_pays(o, e) ==
    /\ o \in payable
    /\ o \notin paid
    /\ event[e].order = NoOrder
    /\ paid' = paid \cup {o}
    /\ event' = [event EXCEPT ![e] = [order |-> o, kind |-> "paid", acked |-> FALSE]]
    /\ UNCHANGED <<checkout, ledger, worker, crashes>>

\* The provider reports something more about an order: the payment again under
\* another event id, or a matter that is not a payment.
provider_reports(o, e, kind) ==
    /\ event[e].order = NoOrder
    /\ o \in payable
    /\ kind = "paid" => o \in paid
    /\ event' = [event EXCEPT ![e] = [order |-> o, kind |-> kind, acked |-> FALSE]]
    /\ UNCHANGED <<checkout, ledger, paid, worker, crashes>>

\* The provider posts an event, for the first time or again.
deliver(w, e) ==
    /\ worker[w].at = "idle"
    /\ event[e].order # NoOrder
    /\ worker' = [worker EXCEPT ![w] = [at |-> "begin", event |-> e]]
    /\ UNCHANGED <<checkout, ledger, paid, event, crashes>>

-----------------------------------------------------------------------------
(* The webhooks.                                                           *)

\* Mutant: payment_status is not looked at.
IsPaid_Any(w) == event[worker[w].event].kind \in {"paid", "other"}

IsPaid(w)   == event[worker[w].event].kind = "paid"
IsStripe(w) == orders[OrderOf(w)].provider = "stripe"

\* record_ignored_stripe_event, and the same branch of the WeChat handler:
\* remember the event id, with no order, in a transaction of its own.
record_ignored_event(w) ==
    /\ worker[w].at = "begin"
    /\ ~ IsPaid(w)
    /\ HoldsEvent(worker[w].event) = {}
    /\ payment_events' = payment_events \cup {worker[w].event}
    /\ worker' = [worker EXCEPT ![w].at = "committed"]
    /\ UNCHANGED <<checkout, orders, card_keys, entitlements, paid, event, crashes>>

\* Mutant: the event is recorded in a transaction of its own, before fulfilment.
insert_payment_event_Autocommit(w) ==
    /\ worker[w].at = "begin"
    /\ IsPaid(w) /\ IsStripe(w)
    /\ \/ /\ worker[w].event \in payment_events
          /\ worker' = [worker EXCEPT ![w].at = "committed"]
          /\ UNCHANGED payment_events
       \/ /\ worker[w].event \notin payment_events
          /\ Updates(OrderOf(w)) = {}
          /\ payment_events' = payment_events \cup {worker[w].event}
          /\ worker' = [worker EXCEPT ![w].at = "inserted"]
    /\ UNCHANGED <<checkout, orders, card_keys, entitlements, paid, event, crashes>>

\* Stripe, first statement: INSERT ... ON CONFLICT DO NOTHING.  It waits for an
\* uncommitted row of the same event; a committed one ends the transaction.
insert_payment_event(w) ==
    /\ worker[w].at = "begin"
    /\ IsPaid(w) /\ IsStripe(w)
    /\ HoldsEvent(worker[w].event) = {}
    /\ \/ /\ worker[w].event \in payment_events
          /\ worker' = [worker EXCEPT ![w].at = "committed"]
       \/ /\ worker[w].event \notin payment_events
          /\ Updates(OrderOf(w)) = {}
          /\ worker' = [worker EXCEPT ![w].at = "inserted"]
    /\ UNCHANGED <<checkout, ledger, paid, event, crashes>>

\* Stripe, second statement: SELECT ... FOR UPDATE.
find_order_by_id_for_update(w) ==
    /\ worker[w].at = "inserted"
    /\ Shares(OrderOf(w)) = {w} /\ Updates(OrderOf(w)) = {}
    /\ worker' = [worker EXCEPT ![w].at = "locked"]
    /\ UNCHANGED <<checkout, ledger, paid, event, crashes>>

\* Two transactions hold the order's share lock and want it FOR UPDATE: one of
\* them is aborted, its handler answers 500.
deadlock_victim(w) ==
    /\ worker[w].at = "inserted"
    /\ Shares(OrderOf(w)) # {w}
    /\ worker' = [worker EXCEPT ![w] = IdleWorker]
    /\ UNCHANGED <<checkout, ledger, paid, event, crashes>>

\* Mutant: the event is recorded in a transaction of its own, before fulfilment.
find_provider_order_by_reference_for_update_Autocommit(w) ==
    /\ worker[w].at = "begin"
    /\ IsPaid(w) /\ ~ IsStripe(w)
    /\ Shares(OrderOf(w)) = {} /\ Updates(OrderOf(w)) = {}
    /\ payment_events' = payment_events \cup {worker[w].event}
    /\ worker' = [worker EXCEPT ![w].at = "locked"]
    /\ UNCHANGED <<checkout, orders, card_keys, entitlements, paid, event, crashes>>

\* WeChat, first statement: the order FOR UPDATE, found by its reference.
find_provider_order_by_reference_for_update(w) ==
    /\ worker[w].at = "begin"
    /\ IsPaid(w) /\ ~ IsStripe(w)
    /\ Shares(OrderOf(w)) = {} /\ Updates(OrderOf(w)) = {}
    /\ worker' = [worker EXCEPT ![w].at = "locked"]
    /\ UNCHANGED <<checkout, ledger, paid, event, crashes>>

\* validate_stripe_session_matches_order; what validate_wechatpay_transaction
\* checks follows from the lookup by reference and the prepay request.
SessionMatches(o) == orders[o].provider = "stripe" =>
                        orders[o].checkout_session = "attached"

\* uq_card_keys_order_id lets insert_card_key succeed once per order.
MayProvision(o) == orders[o].status = "pending_provider_payment" /\ card_keys[o] = 0

\* confirm_provider_order and provision_paid_order_entitlement: the order is
\* confirmed, a card key is minted and redeemed, its entitlement inserted.
provision_paid_order_entitlement(o) ==
    /\ orders' = [orders EXCEPT ![o].status = "confirmed"]
    /\ card_keys' = [card_keys EXCEPT ![o] = @ + 1]
    /\ entitlements' = [entitlements EXCEPT ![o] = @ + 1]

\* The rest of the transaction runs under the lock of the order, so it is one
\* step.  An order that is already confirmed, or for WeChat an event that is
\* already recorded, is acknowledged; an error rolls everything back, the
\* event row included.
fulfill(w) ==
    LET o == OrderOf(w)
        e == worker[w].event
    IN  /\ worker[w].at = "locked"
        /\ IF ~ SessionMatches(o)
           THEN /\ worker' = [worker EXCEPT ![w] = IdleWorker]
                /\ UNCHANGED ledger
           ELSE IF orders[o].status = "confirmed" \/ e \in payment_events
           THEN /\ worker' = [worker EXCEPT ![w].at = "committed"]
                /\ payment_events' = payment_events \cup {e}
                /\ UNCHANGED <<orders, card_keys, entitlements>>
           ELSE IF MayProvision(o)
           THEN /\ worker' = [worker EXCEPT ![w].at = "committed"]
                /\ payment_events' = payment_events \cup {e}
                /\ provision_paid_order_entitlement(o)
           ELSE /\ worker' = [worker EXCEPT ![w] = IdleWorker]
                /\ UNCHANGED ledger
        /\ UNCHANGED <<checkout, paid, event, crashes>>

\* The handler answers 2xx and the provider stops repeating the event.
respond(w) ==
    /\ worker[w].at = "committed"
    /\ event' = [event EXCEPT ![worker[w].event].acked = TRUE]
    /\ worker' = [worker EXCEPT ![w] = IdleWorker]
    /\ UNCHANGED <<checkout, ledger, paid, crashes>>

\* A handler dies or its answer is lost.  An open transaction is rolled back
\* with its locks; a committed one stays.
crash(w) ==
    /\ worker[w].at # "idle"
    /\ crashes < MaxCrashes
    /\ crashes' = crashes + 1
    /\ worker' = [worker EXCEPT ![w] = IdleWorker]
    /\ UNCHANGED <<checkout, ledger, paid, event>>

-----------------------------------------------------------------------------
(* confirm_order and confirm_order_by_reference: one conditional UPDATE    *)
(* and the insertion of an available card key, in one transaction.         *)

confirm_order(o) ==
    /\ orders[o].status = "pending_manual_payment"
    /\ Updates(o) = {}
    /\ card_keys[o] = 0
    /\ orders' = [orders EXCEPT ![o].status = "confirmed"]
    /\ card_keys' = [card_keys EXCEPT ![o] = @ + 1]
    /\ UNCHANGED <<checkout, paid, event, payment_events, entitlements, worker, crashes>>

-----------------------------------------------------------------------------

Init ==
    /\ orders = [o \in Orders |-> [status |-> "absent", provider |-> "none",
                                   checkout_session |-> "NULL"]]
    /\ creating = [o \in Orders |-> "none"]
    /\ refused = {} /\ payable = {} /\ paid = {}
    /\ event = [e \in Events |-> [order |-> NoOrder, kind |-> "other", acked |-> FALSE]]
    /\ payment_events = {}
    /\ card_keys = [o \in Orders |-> 0]
    /\ entitlements = [o \in Orders |-> 0]
    /\ worker = [w \in Workers |-> IdleWorker]
    /\ crashes = 0

\* The steps of the webhook handler w.
Webhook(w) ==
    \/ record_ignored_event(w)
    \/ insert_payment_event(w)
    \/ find_order_by_id_for_update(w)
    \/ find_provider_order_by_reference_for_update(w)
    \/ fulfill(w)
    \/ respond(w)

Next ==
    \/ \E o \in Orders, provider \in Providers : insert_order(o, provider)
    \/ \E o \in Orders : create_stripe_checkout_session(o)
    \/ \E o \in Orders : attach_checkout_session(o)
    \/ \E o \in Orders : create_wechat_native_prepay(o)
    \/ \E o \in Orders : create_order_fails(o)
    \/ \E o \in Orders, e \in Events : customer_pays(o, e)
    \/ \E o \in Orders, e \in Events, kind \in {"paid", "other"} :
           provider_reports(o, e, kind)
    \/ \E w \in Workers, e \in Events : deliver(w, e)
    \/ \E w \in Workers : Webhook(w)
    \/ \E w \in Workers : deadlock_victim(w)
    \/ \E w \in Workers : crash(w)
    \/ \E o \in Orders : confirm_order(o)

\* A provider repeats an event until it is acknowledged, whichever worker gets
\* it; the statements of a handler run; Postgres breaks a deadlock after its
\* deadlock_timeout.  A handler that waits for the order's lock gets it if it is
\* free again and again (strong fairness): the end of the holder wakes the
\* waiter, while an event that failed comes back seconds later.
Fairness ==
    /\ \A e \in Events :
          SF_vars(\E w \in Workers : ~ event[e].acked /\ deliver(w, e))
    /\ \A w \in Workers : SF_vars(Webhook(w))
    /\ \A w \in Workers : SF_vars(find_order_by_id_for_update(w))
    /\ WF_vars(\E w \in Workers : deadlock_victim(w))

Spec == Init /\ [][Next]_vars

FairSpec == Spec /\ Fairness

-----------------------------------------------------------------------------
(* Properties.                                                             *)

\* The type invariant of the tables, the handlers and the providers.
TypeOK ==
    /\ orders \in [Orders -> Order]
    /\ creating \in [Orders -> {"none", "inserted", "session", "done"}]
    /\ refused \subseteq Orders /\ payable \subseteq Orders /\ paid \subseteq Orders
    /\ event \in [Events -> ProviderEvent]
    /\ payment_events \subseteq Events
    /\ card_keys \in [Orders -> Nat]
    /\ entitlements \in [Orders -> Nat]
    /\ worker \in [Workers -> Worker]
    /\ crashes \in 0..MaxCrashes

\* A provider that was told 2xx for a payment will not send it again: the order
\* is then confirmed and its entitlement exists, whatever crashes, duplicates
\* and deadlocks happened before.  (The event row and the fulfilment commit
\* together; a failed attempt leaves no event row behind.)
AckedPaymentIsFulfilled ==
    \A e \in Events :
        (event[e].acked /\ event[e].kind = "paid") =>
            /\ orders[event[e].order].status = "confirmed"
            /\ entitlements[event[e].order] = 1

\* A payment is never refused for a missing session: a customer can only pay
\* through a URL that was handed out after the session id was attached.
PaidSessionIsAttached ==
    \A w \in Workers : worker[w].at = "locked" => SessionMatches(OrderOf(w))

\* An order has one card key when it is confirmed and none before, and one
\* entitlement on top when a provider was paid; a provider's order is confirmed
\* only with the provider's money.
FulfilledExactlyOnce ==
    \A o \in Orders :
        /\ card_keys[o] = IF orders[o].status = "confirmed" THEN 1 ELSE 0
        /\ entitlements[o] = IF orders[o].provider = "manual" THEN 0 ELSE card_keys[o]
        /\ (orders[o].status = "confirmed" /\ orders[o].provider # "manual") => o \in paid

\* README: with wechat_pay configured, POST /orders creates a prepay order.  No
\* order of a configured provider is refused by the database.
OrdersAreAccepted == refused = {}

\* The webhooks, locks, retries and crashes implement the promise that an order
\* is fulfilled exactly once after its payment, and eventually.
stage ==
    [o \in Orders |->
        CASE orders[o].status = "absent" -> "none"
          [] orders[o].status = "confirmed" -> "fulfilled"
          [] orders[o].status = "pending_manual_payment" -> "offline"
          [] OTHER -> IF o \in paid THEN "paid" ELSE "open"]

Promise == INSTANCE OrderFulfilment WITH grants <- card_keys

ImplementsFulfilment == Promise!Spec

\* The part of it that needs no fairness: no step of the webhooks, locks, retries
\* or crashes fulfils an order out of turn, twice, or takes a fulfilment back.
FulfilmentIsSafe == Promise!SafeSpec
=============================================================================
