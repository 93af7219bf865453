\* A GET_CLIENT_ID answer arriving after the 8 s create timeout.
CONSTANTS
    Types <- MCTypes
    ModemTypes <- MCTypes
    ClientIds <- MCClientIds
    Handles <- MCHandles
    CtlTidStart <- MCCtlTidStart
    SvcTidStart <- MCSvcTidStart
    MaxIds = 5
    MaxShutdowns = 0
    MaxSyncs = 0
    WriteOutcomes = {"ok"}
    NoList = NoList
SPECIFICATION Spec
INVARIANT CreateCallbackOnce
CHECK_DEADLOCK FALSE
