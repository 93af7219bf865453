\* Writes that may be whole, short or fail: safety of the request and service
\* life cycle, and its liveness in the behaviours whose writes are whole.
CONSTANTS
    Types <- MCTypes
    ModemTypes <- MCTypes
    ClientIds <- MCOneClient
    Handles <- MCHandles
    CtlTidStart <- MCCtlTidStart
    SvcTidStart <- MCSvcTidStart
    MaxIds = 7
    MaxShutdowns = 1
    MaxSyncs = 1
    WriteOutcomes = {"ok", "partial", "error"}
    NoList = NoList
SPECIFICATION Spec
INVARIANT TypeOK
INVARIANT TidRouting
INVARIANT RegistryConsistent
INVARIANT ReleaseAccounting
INVARIANT SendEndsOnce
PROPERTY WholeWritesResolve
PROPERTY WholeWritesShutdown
PROPERTY ImplementsLifecycle
\* The event loop idles once the bounded user has made all its calls.
CHECK_DEADLOCK FALSE
