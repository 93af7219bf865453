\* Callbacks that register and unregister other subscriptions during delivery.
CONSTANTS
    Svcs <- MCSvcs
    SvcKey <- MCSvcKey
    Messages <- MCMessages
    Addrs <- MCAddrs
    NotifyIdStart <- MCNotifyIdStart
    MaxRegs = 3
    MaxInds = 2
    OldSubscription = FALSE
    CallbackMayUnregisterSelf = FALSE
SPECIFICATION Spec
INVARIANTS TypeOK
PROPERTIES IndicationDelivered
\* Nothing happens once the bounded user and modem have made their calls.
CHECK_DEADLOCK FALSE
