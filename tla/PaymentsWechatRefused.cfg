SPECIFICATION Spec
CONSTANTS
    Orders = {o1}
    Events = {e1, e2}
    Workers = {w1, w2}
    NoOrder = NoOrder
    NoEvent = NoEvent
    Providers = {"wechat_pay"}
    SchemaCurrencies = {"cny"}
    MaxCrashes = 1
INVARIANTS
    OrdersAreAccepted
CHECK_DEADLOCK FALSE
