---------------------------- MODULE MC_QmiQrtr ----------------------------
(***************************************************************************)
(* Model-checking instance of QmiQrtr.  The modem's node 0 serves type 1 *)
(* on port 10; node 1 announces a server the device must ignore.  Two     *)
(* service structs, the service transaction counter one step before its   *)
(* wrap.                                                                   *)
(***************************************************************************)
EXTENDS QmiQrtr

MCTypes == {1}
MCPorts == {10, 11, 12}
MCNodes == {0, 1}
MCHandles == {1, 2}
MCInitServers == {[node |-> 0, type |-> 1, port |-> 10],
                  [node |-> 1, type |-> 1, port |-> 11]}
\* Two services of the modem's node and one of another node.
MCTwoTypes == {1, 2}
MCTwoServers == MCInitServers \cup {[node |-> 0, type |-> 2, port |-> 12]}
MCNoServers == {}
MCSvcTidStart == {65535}
MCCidStart == {1}
=============================================================================
