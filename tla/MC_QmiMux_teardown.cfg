\* The device dropped while a create-shared record still holds a service.
CONSTANTS
    Types <- MCTypes
    ModemTypes <- MCTypes
    ClientIds <- MCOneClient
    Handles <- MCHandles
    CtlTidStart <- MCCtlTidStart
    SvcTidStart <- MCSvcTidStart
    MaxIds = 5
    MaxShutdowns = 0
    MaxSyncs = 0
    WriteOutcomes = {"ok"}
    NoList = NoList
SPECIFICATION Spec
INVARIANT TeardownQueuesUnused
CHECK_DEADLOCK FALSE
