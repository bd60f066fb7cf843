--------------------------- MODULE OrderFulfilment ---------------------------
(***************************************************************************)
(* What the payment side of cloud-api promises for every order, with no    *)
(* webhooks, locks, transactions or retries: an order is opened, its money *)
(* arrives, and it is then fulfilled exactly once.  An offline order is    *)
(* fulfilled when an administrator vouches for the money.                  *)
(***************************************************************************)
EXTENDS Naturals

CONSTANT Orders

VARIABLES
    stage,   \* none, offline (open, paid out of band), open, paid, fulfilled
    grants   \* how many card keys the order has brought its customer

vars == <<stage, grants>>

Init ==
    /\ stage = [o \in Orders |-> "none"]
    /\ grants = [o \in Orders |-> 0]

Open(o) ==
    /\ stage[o] = "none"
    /\ \E s \in {"open", "offline"} : stage' = [stage EXCEPT ![o] = s]
    /\ UNCHANGED grants

Pay(o) ==
    /\ stage[o] = "open"
    /\ stage' = [stage EXCEPT ![o] = "paid"]
    /\ UNCHANGED grants

Fulfil(o) ==
    /\ stage[o] \in {"paid", "offline"}
    /\ stage' = [stage EXCEPT ![o] = "fulfilled"]
    /\ grants' = [grants EXCEPT ![o] = @ + 1]

Next == \E o \in Orders : Open(o) \/ Pay(o) \/ Fulfil(o)

\* Money that has arrived is never kept without fulfilment.
Fairness == \A o \in Orders : WF_vars(stage[o] = "paid" /\ Fulfil(o))

SafeSpec == Init /\ [][Next]_vars

Spec == SafeSpec /\ Fairness
=============================================================================
