\* Two service types whose CTL hands out the same client id.
CONSTANTS
    Types <- MCTwoTypes
    ModemTypes <- MCTwoTypes
    ClientIds <- MCOneClient
    Handles <- MCHandles
    CtlTidStart <- MCCtlTidStart
    SvcTidStart <- MCSvcTidStart
    MaxIds = 7
    MaxShutdowns = 0
    MaxSyncs = 0
    WriteOutcomes = {"ok"}
    NoList = NoList
SPECIFICATION Spec
INVARIANT CancelAllOwnOnly
CHECK_DEADLOCK FALSE
