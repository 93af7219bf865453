\* A notification callback that unregisters its own subscription.
CONSTANTS
    Svcs <- MCSvcs
    SvcKey <- MCSvcKey
    Messages <- MCMessages
    Addrs <- MCAddrs
    NotifyIdStart <- MCNotifyIdStart
    MaxRegs = 2
    MaxInds = 1
    OldSubscription = FALSE
    CallbackMayUnregisterSelf = TRUE
SPECIFICATION Spec
INVARIANT NoStaleLink
CHECK_DEADLOCK FALSE
