\* A service dropped on QRTR leaves a release user that is never given back.
CONSTANTS
    Types <- MCTypes
    Ports <- MCPorts
    Nodes <- MCNodes
    NodeId = 0
    Handles <- MCHandles
    SvcTidStart <- MCSvcTidStart
    MaxShutdowns = 1
    MaxRefs = 2
    InitServers <- MCInitServers
    SendOutcomes = {"ok"}
    CidStart <- MCCidStart
    MaxIds = 3
    MaxDiscovers = 1
    MaxServerEvents = 0
SPECIFICATION Spec
PROPERTY ShutdownCompletes
CHECK_DEADLOCK FALSE
