\* Servers of two types going down and coming back on other ports, sendto
\* that may fail: the version table, service_list and responses stay right.
CONSTANTS
    Types <- MCTwoTypes
    Ports <- MCPorts
    Nodes <- MCNodes
    NodeId = 0
    Handles <- MCHandles
    SvcTidStart <- MCSvcTidStart
    MaxShutdowns = 1
    MaxRefs = 2
    InitServers <- MCTwoServers
    SendOutcomes = {"ok", "error"}
    CidStart <- MCCidStart
    MaxIds = 3
    MaxDiscovers = 2
    MaxServerEvents = 2
SPECIFICATION Spec
INVARIANT TypeOK
INVARIANT VersionTableTracks
INVARIANT SendEndsOnce
 
\* The event loop idles once the bounded user has made all its calls.
CHECK_DEADLOCK FALSE
