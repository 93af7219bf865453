\* A server restarted on another port while a service of its type is held.
CONSTANTS
    Types <- MCTypes
    Ports <- MCPorts
    Nodes <- MCNodes
    NodeId = 0
    Handles <- MCHandles
    SvcTidStart <- MCSvcTidStart
    MaxShutdowns = 1
    MaxRefs = 2
    InitServers <- MCInitServers
    SendOutcomes = {"ok"}
    CidStart <- MCCidStart
    MaxIds = 3
    MaxDiscovers = 1
    MaxServerEvents = 2
SPECIFICATION Spec
PROPERTY SendToTablePort
CHECK_DEADLOCK FALSE
