SPECIFICATION FairSpec
CONSTANTS
    Orders = {o1}
    Events = {e1, e2, e3}
    Workers = {w1, w2}
    NoOrder = NoOrder
    NoEvent = NoEvent
    Providers = {"stripe", "wechat_pay", "manual"}
    SchemaCurrencies = {"cny", "CNY"}
    MaxCrashes = 1
INVARIANTS
    AckedPaymentIsFulfilled
    PaidSessionIsAttached
    FulfilledExactlyOnce
PROPERTIES
    ImplementsFulfilment
CHECK_DEADLOCK FALSE
