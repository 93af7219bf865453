------------------------------ MODULE QmiQrtr ------------------------------
(***************************************************************************)
(* The QMI device over a QRTR datagram socket (drivers/qmimodem/qmi.c,    *)
(* qmi_device_new_qrtr): discovery by NEW_LOOKUP and the NEW_SERVER /     *)
(* DEL_SERVER control packets that keep the version table, local client   *)
(* ids (next_cid), requests addressed to the service's port, responses    *)
(* routed back by source port and transaction id, unref without a CTL     *)
(* release, and shutdown.                                                  *)
(*                                                                         *)
(* The environment is the QRTR name service and the modem's servers: a    *)
(* server of a type comes up on a (node, port) and goes down again; every *)
(* lookup registered with the name service gets the current servers at    *)
(* once and a NEW_SERVER / DEL_SERVER for every later change.  A server   *)
(* answers each request that reached it while it lives.                   *)
(***************************************************************************)
EXTENDS Naturals, Sequences, SequencesExt, FiniteSets, TLC, QmiRequest

CONSTANTS
    Types,           \* service types (never CTL)
    Ports,           \* QRTR ports servers can be bound to
    Nodes,           \* QRTR nodes that announce servers
    NodeId,          \* device->node_id, the modem's node
    Handles,         \* struct qmi_service objects (heap slots)
    InitServers,     \* servers up before the device is created
    SendOutcomes,    \* what sendto() can do: "ok", "error"
    SvcTidStart,     \* next_service_tid values with every queue empty
    CidStart,        \* next_cid values with no service alive
    MaxIds,          \* bound on requests and callback records
    MaxDiscovers,    \* bound on qmi_device_discover calls
    MaxServerEvents, \* bound on servers coming up or going down
    MaxShutdowns,    \* bound on qmi_device_shutdown calls
    MaxRefs          \* bound on the references qmi_service_ref takes a service to

Server == [node : Nodes, type : Types, port : Ports]

ASSUME NodeId \in Nodes /\ QMI_SERVICE_CONTROL \notin Types
ASSUME InitServers \subseteq Server /\ Handles \subseteq Nat \ {0}
ASSUME SendOutcomes \subseteq {"ok", "error"} /\ "ok" \in SendOutcomes
ASSUME SvcTidStart \subseteq 256..65535 /\ CidStart \subseteq Nat \ {0}

Ids == 1..MaxIds

VARIABLES
    has_list,        \* device->version_list # NULL
    version_list,    \* the first version_count entries: [node, type, port]
    service_queue,   \* requests sent, awaiting their response
    next_service_tid,
    next_cid,
    discovery_queue, \* pending discover / create / create-shared records
    svc,             \* Handles -> the struct qmi_service in that slot
    registry,        \* service_list: key <<type, client>> -> handle
    release_users,
    shutdown_source, \* shutdown_source > 0: a shutdown is scheduled
    shutting_down,
    servers,         \* name service: the servers that are up
    lookups,         \* name service: lookups registered by this socket
    ctrl_in,         \* control packets queued on the socket, in order
    inflight,        \* requests a live server received: [req, port]
    server_events,
    discovers,       \* qmi_device_discover calls so far
    next_id, held, sent, calls, cancels, shutdown_calls

table == <<has_list, version_list>>
device == <<service_queue, next_service_tid, next_cid, discovery_queue, svc,
            registry, release_users>>
shut == <<shutdown_source, shutting_down, shutdown_calls>>
env == <<servers, lookups, ctrl_in, inflight, server_events>>
ghost == <<discovers, next_id, held, sent, calls, cancels>>
vars == <<table, device, shut, env, ghost>>

\* An empty service_list.
NoServices == [k \in {} |-> 0]

FreeService == [state |-> "free", type |-> 0, client |-> 0, port |-> 0,
                ref |-> 0, device |-> FALSE]

\* qmi_device_new_qrtr: next_cid = 1, next_service_tid = 256.  A start with
\* a larger next_cid is the device after next_cid - 1 services were created
\* and dropped: each dropped one left a release user behind.
Init ==
    /\ has_list = FALSE /\ version_list = <<>>
    /\ service_queue = <<>>
    /\ next_service_tid \in SvcTidStart
    /\ next_cid \in CidStart
    /\ discovery_queue = {}
    /\ svc = [h \in Handles |-> FreeService]
    /\ registry = NoServices
    /\ release_users = next_cid - 1
    /\ shutdown_source = FALSE /\ shutting_down = FALSE /\ shutdown_calls = 0
    /\ servers = InitServers /\ lookups = 0 /\ ctrl_in = <<>>
    /\ inflight = {} /\ server_events = 0
    /\ discovers = 0 /\ next_id = 1 /\ held = [h \in Handles |-> 0]
    /\ sent = {} /\ calls = [i \in Ids |-> 0] /\ cancels = {}

Packet(cmd, s) == [cmd |-> cmd, node |-> s.node, type |-> s.type,
                   port |-> s.port]

\* What the name service queues for every registered lookup.
Notify(cmd, s) == [i \in 1..lookups |-> Packet(cmd, s)]

(***************************************************************************)
(* The environment: a server comes up on a free port, or goes down; the   *)
(* requests it had not answered are lost with it.                         *)
(***************************************************************************)
ServerUp(s) ==
    /\ server_events < MaxServerEvents
    /\ \A o \in servers : o.port # s.port /\ <<o.node, o.type>> # <<s.node, s.type>>
    /\ servers' = servers \cup {s}
    /\ ctrl_in' = ctrl_in \o Notify("new", s)
    /\ server_events' = server_events + 1
    /\ UNCHANGED <<table, device, shut, lookups, inflight, ghost>>

ServerDown(s) ==
    /\ server_events < MaxServerEvents
    /\ s \in servers
    /\ servers' = servers \ {s}
    /\ ctrl_in' = ctrl_in \o Notify("del", s)
    /\ inflight' = {m \in inflight : m.port # s.port}
    /\ server_events' = server_events + 1
    /\ UNCHANGED <<table, device, shut, lookups, ghost>>

(***************************************************************************)
(* qrtr_handle_ctrl_packet.  Packets of another node are ignored.         *)
(* NEW_SERVER appends an entry.  DEL_SERVER shortens the list by one: the *)
(* first of the first count - 1 entries with the packet's (node, port) is *)
(* shifted out, and when none matches it is the last entry that goes.   *)
(***************************************************************************)
MatchAt(list, p, n) ==
    SelectInSeq(SubSeq(list, 1, n), LAMBDA e : e.node = p.node /\ e.port = p.port)

\* Fault variant: the last entry is dropped whatever the packet names.
DelServerDropLast(list, p) == SubSeq(list, 1, Len(list) - 1)

DelServer(list, p) ==
    LET n == Len(list) - 1
        i == MatchAt(list, p, n)
    IN IF i = 0 THEN SubSeq(list, 1, n) ELSE RemoveAt(list, i)

\* Fault variant: the node of the packet is not compared.
OwnNodeUnchecked(p) == TRUE

OwnNode(p) == p.node = NodeId

HandleCtrlPacket ==
    /\ ctrl_in # <<>>
    /\ LET p == Head(ctrl_in) IN
       IF ~OwnNode(p) THEN UNCHANGED table
       ELSE IF p.cmd = "new"
       THEN /\ version_list' = Append(version_list,
                                      [node |-> p.node, type |-> p.type,
                                       port |-> p.port])
            /\ has_list' = TRUE
       ELSE /\ version_list' = IF version_list = <<>> THEN version_list
                               ELSE DelServer(version_list, p)
            /\ UNCHANGED has_list
    /\ ctrl_in' = Tail(ctrl_in)
    /\ UNCHANGED <<device, shut, servers, lookups, inflight, server_events,
                   ghost>>

(***************************************************************************)
(* qmi_device_discover.  With a version list it completes on the next     *)
(* turn.  Otherwise it sends NEW_LOOKUP to the control port (a failing    *)
(* sendto returns false and nothing is scheduled); the name service       *)
(* registers the lookup and queues a NEW_SERVER for every server it      *)
(* knows.  Discovery then ends with the 5 s timeout.  The user (the oFono *)
(* modem driver) calls it again only after its callback ran.             *)
(***************************************************************************)
DiscoverRecord(lookup) == [id |-> next_id, kind |-> "discover", service |-> 0,
                           lookup |-> lookup]

Discover ==
    /\ discovers < MaxDiscovers /\ next_id <= MaxIds
    /\ \A d \in discovery_queue : d.kind # "discover"
    /\ discovers' = discovers + 1
    /\ \/ /\ has_list
          /\ discovery_queue' = discovery_queue \cup {DiscoverRecord(FALSE)}
          /\ next_id' = next_id + 1
          /\ UNCHANGED <<lookups, ctrl_in>>
       \/ /\ ~has_list
          /\ \E o \in SendOutcomes :
               IF o = "error"
               THEN UNCHANGED <<discovery_queue, next_id, lookups, ctrl_in>>
               ELSE \E order \in SetToSeqs(servers) :
                      /\ lookups' = lookups + 1
                      /\ ctrl_in' = ctrl_in \o
                             [i \in 1..Len(order) |-> Packet("new", order[i])]
                      /\ discovery_queue' = discovery_queue \cup {DiscoverRecord(TRUE)}
                      /\ next_id' = next_id + 1
    /\ UNCHANGED <<table, service_queue, next_service_tid, next_cid, svc,
                   registry, release_users, shut, servers, inflight,
                   server_events, held, sent, calls, cancels>>

\* discover_reply: the record carries no transaction id on QRTR, so no
\* request is looked up; the user's function runs and the record is freed.
\* The name service answers a lookup at once: its packets are read long
\* before the 5 s timer.
DiscoverReply(d) ==
    /\ d \in discovery_queue /\ d.kind = "discover"
    /\ d.lookup => ctrl_in = <<>>
    /\ discovery_queue' = discovery_queue \ {d}
    /\ calls' = [calls EXCEPT ![d.id] = @ + 1]
    /\ UNCHANGED <<table, service_queue, next_service_tid, next_cid, svc,
                   registry, release_users, shut, env, discovers, next_id,
                   held, sent, cancels>>

Live(h) == svc[h].state = "live"

\* g_hash_table_find(service_list, __service_compare_shared, type)
SharedOf(t) == {registry[k] : k \in {k \in DOMAIN registry :
                                        svc[registry[k]].type = t}}

\* service_list after g_hash_table_replace(key, h).
Replace(key, h) == [k \in DOMAIN registry \cup {key} |->
                        IF k = key THEN h ELSE registry[k]]

\* The uint8_t client_id a service gets from the unsigned next_cid.
ClientIdOf(n) == n % 256


(***************************************************************************)
(* qrtr_service_create, reached from qmi_service_create(_shared) when no  *)
(* service of the type is registered: refused without a version           *)
(* list or without an entry of the type; otherwise a service with the     *)
(* first entry's port and client id next_cid++ replaces whatever is under *)
(* its key in service_list (service_destroy clears that one's device),    *)
(* and the create callback is scheduled for the next turn.               *)
(***************************************************************************)
CreateNew(t) ==
    /\ next_id <= MaxIds
    /\ SharedOf(t) = {}
    /\ has_list
    /\ LET i == SelectInSeq(version_list, LAMBDA e : e.type = t)
           c == ClientIdOf(next_cid)
           key == <<t, c>>
       IN
       /\ i # 0
       /\ \E h \in Handles :
            /\ svc[h].state = "free"
            /\ svc' = [g \in Handles |->
                         IF g = h
                         THEN [state |-> "live", type |-> t, client |-> c,
                               port |-> version_list[i].port, ref |-> 1,
                               device |-> TRUE]
                         ELSE IF key \in DOMAIN registry /\ g = registry[key]
                              THEN [svc[g] EXCEPT !.device = FALSE]
                              ELSE svc[g]]
            /\ registry' = Replace(key, h)
            /\ discovery_queue' = discovery_queue \cup
                   {[id |-> next_id, kind |-> "create", service |-> h,
                     lookup |-> FALSE]}
    /\ next_cid' = next_cid + 1
    /\ next_id' = next_id + 1
    /\ UNCHANGED <<table, service_queue, next_service_tid, release_users,
                   shut, env, discovers, held, sent, calls, cancels>>

\* qrtr_service_create_callback: the user keeps the service handed to it,
\* then the creation reference is dropped.
CreateCallback(d) ==
    /\ d \in discovery_queue /\ d.kind = "create"
    /\ held' = [held EXCEPT ![d.service] = @ + 1]
    /\ calls' = [calls EXCEPT ![d.id] = @ + 1]
    /\ discovery_queue' = discovery_queue \ {d}
    /\ UNCHANGED <<table, service_queue, next_service_tid, next_cid, svc,
                   registry, release_users, shut, env, discovers, next_id,
                   sent, cancels>>

\* qmi_service_create_shared finding a registered service of the type.
CreateShared(t) ==
    /\ next_id <= MaxIds
    /\ \E h \in SharedOf(t) :
         /\ svc' = [svc EXCEPT ![h].ref = @ + 1]
         /\ discovery_queue' = discovery_queue \cup
                {[id |-> next_id, kind |-> "shared", service |-> h,
                  lookup |-> FALSE]}
    /\ next_id' = next_id + 1
    /\ UNCHANGED <<table, service_queue, next_service_tid, next_cid, registry,
                   release_users, shut, env, discovers, held, sent, calls,
                   cancels>>

\* service_create_shared_reply + service_create_shared_data_free.
SharedReply(d) ==
    /\ d \in discovery_queue /\ d.kind = "shared"
    /\ held' = [held EXCEPT ![d.service] = @ + 1]
    /\ calls' = [calls EXCEPT ![d.id] = @ + 1]
    /\ discovery_queue' = discovery_queue \ {d}
    /\ UNCHANGED <<table, service_queue, next_service_tid, next_cid, svc,
                   registry, release_users, shut, env, discovers, next_id,
                   sent, cancels>>

(***************************************************************************)
(* qmi_service_send: refused for client id 0 or a service that lost its   *)
(* device.  __request_submit gives the next service transaction id and    *)
(* hands the request to qrtr_request_submit, which takes the port of the  *)
(* first service of the request's type that it meets in service_list (in *)
(* hash order).  With none it returns: the request is neither sent nor    *)
(* queued.  Otherwise it sendto()s (a failure is only logged) and queues  *)
(* the request to await its response.  A datagram to a port no server is  *)
(* bound to goes nowhere.                                                  *)
(***************************************************************************)
Usable(h) == held[h] > 0 /\ svc[h].client # 0 /\ svc[h].device

PortsOf(t) == {svc[registry[k]].port : k \in {k \in DOMAIN registry :
                                                 svc[registry[k]].type = t}}

Bound(p) == \E s \in servers : s.node = NodeId /\ s.port = p

\* Fault variant: the request is sent but never queued for its response.
QrtrRequestSubmitUnqueued(req, p, o) ==
    /\ inflight' = IF o = "ok" /\ Bound(p) THEN inflight \cup {[req |-> req, port |-> p]}
                   ELSE inflight
    /\ UNCHANGED service_queue

QrtrRequestSubmit(req, p, o) ==
    /\ inflight' = IF o = "ok" /\ Bound(p) THEN inflight \cup {[req |-> req, port |-> p]}
                   ELSE inflight
    /\ service_queue' = Append(service_queue, req)

Send(h) ==
    /\ Usable(h) /\ next_id <= MaxIds
    /\ LET req == WithTid(RequestAlloc(next_id, svc[h].type, svc[h].client,
                                       "send", h, 0, 0), next_service_tid)
       IN \E p \in PortsOf(svc[h].type), o \in SendOutcomes :
            /\ QrtrRequestSubmit(req, p, o)
            /\ sent' = sent \cup {[id |-> next_id, owner |-> h,
                                   tid |-> next_service_tid, port |-> p]}
    /\ next_service_tid' = NextServiceTid(next_service_tid)
    /\ next_id' = next_id + 1
    /\ UNCHANGED <<table, next_cid, discovery_queue, svc, registry,
                   release_users, shut, servers, lookups, ctrl_in,
                   server_events, discovers, held, calls, cancels>>

(***************************************************************************)
(* A server answers a request (the modem's side), and qrtr_receive gets   *)
(* the datagram: it takes the type and client of the first service in     *)
(* service_list bound to the source port, dropping the datagram when      *)
(* there is none, and handle_packet looks the transaction id up in        *)
(* service_queue: a hit is removed and service_send_callback runs.        *)
(***************************************************************************)
ServerReply(m) ==
    /\ m \in inflight
    /\ inflight' = inflight \ {m}
    /\ LET i == FindTid(service_queue, m.req.tid) IN
       IF m.port \in {svc[registry[k]].port : k \in DOMAIN registry} /\ i # 0
       THEN /\ service_queue' = RemoveAt(service_queue, i)
            /\ calls' = [calls EXCEPT ![service_queue[i].id] = @ + 1]
       ELSE UNCHANGED <<service_queue, calls>>
    /\ UNCHANGED <<table, next_service_tid, next_cid, discovery_queue, svc,
                   registry, release_users, shut, servers, lookups, ctrl_in,
                   server_events, discovers, next_id, held, sent, cancels>>

(***************************************************************************)
(* qmi_service_cancel(tid): on QRTR nothing waits in req_queue, so the    *)
(* first request with that transaction id in service_queue is removed and *)
(* destroyed.                                                              *)
(***************************************************************************)
\* Fault variant: the request is destroyed but left in service_queue.
CancelKeepQueued(h) ==
    /\ Usable(h)
    /\ \E s \in sent :
         /\ s.owner = h
         /\ LET j == FindTid(service_queue, s.tid) IN
            /\ j # 0
            /\ cancels' = cancels \cup {[id |-> service_queue[j].id,
                                         owner |-> service_queue[j].owner,
                                         by |-> h]}
    /\ UNCHANGED <<table, device, shut, env, discovers, next_id, held, sent,
                   calls>>

Cancel(h) ==
    /\ Usable(h)
    /\ \E s \in sent :
         /\ s.owner = h
         /\ LET j == FindTid(service_queue, s.tid) IN
            /\ j # 0
            /\ service_queue' = RemoveAt(service_queue, j)
            /\ cancels' = cancels \cup {[id |-> service_queue[j].id,
                                         owner |-> service_queue[j].owner,
                                         by |-> h]}
    /\ UNCHANGED <<table, next_service_tid, next_cid, discovery_queue, svc,
                   registry, release_users, shut, env, discovers, next_id,
                   held, sent, calls>>

\* The requests remove_client drops for the service's client id.
DroppedBy(h) ==
    {[id |-> q.id, owner |-> q.owner, by |-> h] :
        q \in RemoveClientDropped(service_queue, svc[h].client)}

\* qmi_service_cancel_all: remove_client on the queues.
CancelAll(h) ==
    /\ Usable(h)
    /\ service_queue' = RemoveClientKept(service_queue, svc[h].client)
    /\ cancels' = cancels \cup DroppedBy(h)
    /\ UNCHANGED <<table, next_service_tid, next_cid, discovery_queue, svc,
                   registry, release_users, shut, env, discovers, next_id,
                   held, sent, calls>>

\* g_hash_table_steal(service_list, type | (client_id << 8))
Steal(h) ==
    registry' = [k \in DOMAIN registry \ {<<svc[h].type, svc[h].client>>} |->
                    registry[k]]

\* qmi_service_ref by a holder of the service: one reference more, which it
\* drops later with qmi_service_unref.
Ref(h) ==
    /\ held[h] > 0 /\ svc[h].ref < MaxRefs
    /\ svc' = [svc EXCEPT ![h].ref = @ + 1]
    /\ held' = [held EXCEPT ![h] = @ + 1]
    /\ UNCHANGED <<table, service_queue, next_service_tid, next_cid,
                   discovery_queue, registry, release_users, shut, env,
                   discovers, next_id, sent, calls, cancels>>

(***************************************************************************)
(* qmi_service_unref by the user.  The last reference of a service with   *)
(* its device cancels all its requests, steals it from service_list and   *)
(* counts a release user; release_client returns at once on QRTR, so no   *)
(* release callback will ever free the struct or give the count back.     *)
(* A service that lost its device is just freed.                          *)
(***************************************************************************)
Unref(h) ==
    /\ held[h] > 0
    /\ held' = [held EXCEPT ![h] = @ - 1]
    /\ CASE svc[h].ref > 1 ->
              /\ svc' = [svc EXCEPT ![h].ref = @ - 1]
              /\ UNCHANGED <<service_queue, registry, release_users, cancels>>
         [] ~svc[h].device ->
              /\ svc' = [svc EXCEPT ![h] = FreeService]
              /\ UNCHANGED <<service_queue, registry, release_users, cancels>>
         [] OTHER ->
              /\ service_queue' = RemoveClientKept(service_queue, svc[h].client)
              /\ cancels' = cancels \cup DroppedBy(h)
              /\ Steal(h)
              /\ release_users' = release_users + 1
              /\ svc' = [svc EXCEPT ![h].ref = 0, ![h].state = "released"]
    /\ UNCHANGED <<table, next_service_tid, next_cid, discovery_queue, shut,
                   env, discovers, next_id, sent, calls>>

(***************************************************************************)
(* qmi_device_shutdown and shutdown_callback, as on the mux transport.    *)
(***************************************************************************)
Shutdown ==
    /\ ~shutdown_source /\ shutdown_calls < MaxShutdowns
    /\ shutdown_source' = TRUE
    /\ UNCHANGED <<table, device, shutting_down, shutdown_calls, env, ghost>>

ShutdownCallback ==
    /\ shutdown_source /\ release_users = 0
    /\ shutting_down' = TRUE
    /\ shutdown_calls' = shutdown_calls + 1
    /\ shutdown_source' = FALSE
    /\ UNCHANGED <<table, device, env, ghost>>

-----------------------------------------------------------------------------

Next ==
    \/ \E s \in Server : ServerUp(s)
    \/ \E s \in servers : ServerDown(s)
    \/ HandleCtrlPacket
    \/ Discover
    \/ \E t \in Types : CreateNew(t) \/ CreateShared(t)
    \/ \E d \in discovery_queue : DiscoverReply(d) \/ CreateCallback(d)
                                  \/ SharedReply(d)
    \/ \E m \in inflight : ServerReply(m)
    \/ \E h \in Handles : Send(h) \/ Cancel(h) \/ CancelAll(h) \/ Ref(h) \/ Unref(h)
    \/ Shutdown \/ ShutdownCallback

(***************************************************************************)
(* Fairness.  The main loop reads every datagram queued on the socket and *)
(* runs every expired timer; a live server answers what it received.  The *)
(* user and the servers coming and going are not obliged to do anything. *)
(***************************************************************************)
Fairness ==
    /\ WF_vars(HandleCtrlPacket)
    /\ WF_vars(\E m \in inflight : ServerReply(m))
    /\ WF_vars(\E d \in discovery_queue : DiscoverReply(d) \/ CreateCallback(d)
                                          \/ SharedReply(d))
    /\ WF_vars(ShutdownCallback)

Spec == Init /\ [][Next]_vars /\ Fairness

-----------------------------------------------------------------------------

Request == [id : Ids, tid : 256..65535, service : Types, client : 0..255,
            kind : {"send"}, owner : Handles, ptype : {0}, pclient : {0}]

TypeOK ==
    /\ has_list \in BOOLEAN /\ version_list \in Seq(Server)
    /\ service_queue \in Seq(Request)
    /\ next_service_tid \in 256..65535 /\ next_cid \in Nat
    /\ svc \in [Handles -> [state : {"free", "live", "released"},
                            type : Types \cup {0}, client : 0..255,
                            port : Ports \cup {0}, ref : Nat,
                            device : BOOLEAN]]
    /\ DOMAIN registry \subseteq Types \X (0..255)
    /\ \A k \in DOMAIN registry : registry[k] \in Handles
    /\ release_users \in Nat /\ lookups \in Nat
    /\ inflight \subseteq [req : Request, port : Ports]

OwnServers == {s \in servers : s.node = NodeId}

(***************************************************************************)
(* Once the socket has registered its lookup and read every control       *)
(* packet queued for it, the version table lists each server of the       *)
(* modem's node that is up, once, and nothing else: NEW_SERVER and         *)
(* DEL_SERVER keep the table in step with the name service whatever the   *)
(* order servers came and went in.                                        *)
(***************************************************************************)
VersionTableTracks ==
    lookups > 0 /\ ctrl_in = <<>> =>
        /\ ToSet(version_list) = OwnServers
        /\ Len(version_list) = Cardinality(OwnServers)

(***************************************************************************)
(* A request the user sent ends at most once: its result callback runs or *)
(* a cancel destroys it, never both and never twice.                      *)
(***************************************************************************)
SendEndsOnce ==
    \A s \in sent :
        calls[s.id] + Cardinality({c \in cancels : c.id = s.id}) <= 1

(***************************************************************************)
(* qrtr_request_submit addresses a request to the port the version table  *)
(* holds for its service type (spec 4.4: "service packets are addressed   *)
(* to the (node, port) pair stored in the service-version table").        *)
(***************************************************************************)
SendToTablePort ==
    [][\A s \in sent' \ sent :
         \E e \in ToSet(version_list) :
             e.port = s.port /\ e.type = svc[s.owner].type]_vars

(***************************************************************************)
(* Liveness.  A request a live server received is, unless that server     *)
(* goes down, eventually answered through its callback or cancelled:     *)
(* qrtr_receive maps the answer's source port back to a registered        *)
(* service and handle_packet finds the request by transaction id.  A      *)
(* scheduled shutdown eventually calls back.                              *)
(***************************************************************************)
Delivered(i) == \E m \in inflight : m.req.id = i

Resolved(i) == calls[i] > 0 \/ \E c \in cancels : c.id = i

AnsweredResolves ==
    \A i \in Ids :
        Delivered(i) ~>
            (Resolved(i) \/ \E s \in sent : s.id = i /\ ~Bound(s.port))

ShutdownCompletes == shutdown_source ~> ~shutdown_source

=============================================================================
