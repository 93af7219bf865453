------------------------------ MODULE QmiMux ------------------------------
(***************************************************************************)
(* The QMI device over the mux character device (drivers/qmimodem/qmi.c): *)
(* the request queues and transaction ids, the writer, the modem answering *)
(* what it received, response dispatch by transaction id, service creation *)
(* (CTL GET_CLIENT_ID with its 8 s timeout, or sharing a registered        *)
(* service), send / cancel / cancel_all, unref with CTL RELEASE_CLIENT_ID, *)
(* discovery (CTL GET_VERSION_INFO with its 5 s timeout), shutdown, and   *)
(* the teardown when the user drops its last reference to the device.     *)
(*                                                                         *)
(* One step is one event-loop callback run to completion: the program is  *)
(* single-threaded, so steps interleave only between callbacks.  The user *)
(* of the library (an oFono atom) is the environment: it creates services, *)
(* keeps the service handed to its create callback, sends, cancels and    *)
(* drops its references in any order.                                      *)
(***************************************************************************)
EXTENDS Naturals, Sequences, SequencesExt, FiniteSets, QmiRequest

CONSTANTS
    Types,          \* service types the user creates (never CTL)
    ModemTypes,     \* the services the modem lists in GET_VERSION_INFO
    ClientIds,      \* client ids the modem's CTL hands out, per type
    Handles,        \* struct qmi_service objects (heap slots)
    MaxIds,         \* bound on allocated requests and callback records
    WriteOutcomes,  \* what write() on the fd can do: "ok", "partial", "error"
    CtlTidStart,    \* next_control_tid values with every queue empty
    SvcTidStart,    \* next_service_tid values with every queue empty
    MaxShutdowns,   \* bound on qmi_device_shutdown calls
    MaxSyncs,       \* bound on qmi_device_sync calls
    NoList          \* version_list == NULL

ASSUME QMI_SERVICE_CONTROL \notin Types /\ ModemTypes \subseteq Types
ASSUME ClientIds \subseteq 1..255 /\ Handles \subseteq Nat \ {0}
ASSUME WriteOutcomes \subseteq {"ok", "partial", "error"} /\ "ok" \in WriteOutcomes
ASSUME CtlTidStart \subseteq 1..255 /\ SvcTidStart \subseteq 256..65535

Ids == 1..MaxIds
Keys == Types \X ClientIds

VARIABLES
    req_queue,        \* requests waiting for the writer
    control_queue,    \* CTL requests written, awaiting their response
    service_queue,    \* service requests written, awaiting their response
    next_control_tid,
    next_service_tid,
    write_watch,      \* write_watch > 0: the writer is armed
    wire,             \* requests the modem received whole and has not answered
    modem_clients,    \* modem side: client ids allocated per service type
    version_list,     \* NoList, or the service types discovered
    discovery_queue,  \* pending discover / create / create-shared records
    svc,              \* Handles -> the struct qmi_service in that slot
    registry,         \* service_list: key type|(client<<8) -> handle, 0 = none
    release_users,
    shutdown_source,  \* shutdown_source > 0: a shutdown is scheduled
    shutting_down,
    next_id,          \* allocation counter naming heap objects
    freed,            \* callback records already freed (memory still readable)
    held,             \* references the user holds on each service
    sent,             \* send requests the user issued: [id, owner, tid]
    calls,            \* Ids -> times the user callback of that object ran
    cancels,          \* requests dropped without callback: [id, owner, by, how]
    misrouted,        \* a response was handed to a request it was not for
    shutdown_calls,   \* times the shutdown callback ran
    syncs,            \* qmi_device_sync calls made
    dev,              \* the device struct: "alive", "destroyed" (free deferred), "freed"
    abandoned,        \* requests freed by the teardown, neither answered nor destroyed
    queue_after_free, \* a service used the request queues after the teardown freed them
    torn              \* history: a write() so far was short or failed

queues == <<req_queue, control_queue, service_queue>>
tids == <<next_control_tid, next_service_tid, write_watch>>
modem == <<wire, modem_clients>>
device == <<version_list, discovery_queue, svc, registry, release_users>>
teardown == <<dev, abandoned, queue_after_free>>
shut == <<shutdown_source, shutting_down, shutdown_calls, syncs, teardown>>
ghost == <<next_id, freed, held, sent, calls, cancels, misrouted>>
vars == <<queues, tids, modem, device, shut, ghost>>

FreeService == [state |-> "free", type |-> 0, client |-> 0, ref |-> 0,
                device |-> FALSE]

Init ==
    /\ req_queue = <<>> /\ control_queue = <<>> /\ service_queue = <<>>
    /\ next_control_tid \in CtlTidStart
    /\ next_service_tid \in SvcTidStart
    /\ write_watch = FALSE
    /\ wire = {}
    /\ modem_clients = [t \in Types |-> {}]
    /\ version_list = NoList
    /\ discovery_queue = {}
    /\ svc = [h \in Handles |-> FreeService]
    /\ registry = [k \in Keys |-> 0]
    /\ release_users = 0
    /\ shutdown_source = FALSE /\ shutting_down = FALSE /\ shutdown_calls = 0
    /\ syncs = 0
    /\ dev = "alive" /\ abandoned = {} /\ queue_after_free = FALSE
    /\ next_id = 1 /\ freed = {} /\ held = [h \in Handles |-> 0]
    /\ sent = {} /\ calls = [i \in Ids |-> 0] /\ cancels = {}
    /\ misrouted = FALSE
    /\ torn = FALSE

(***************************************************************************)
(* __request_submit on the mux transport, with wakeup_writer.              *)
(***************************************************************************)
SubmitControl(req) ==
    /\ req_queue' = Append(req_queue, WithTid(req, next_control_tid))
    /\ next_control_tid' = NextControlTid(next_control_tid)
    /\ write_watch' = TRUE
    /\ UNCHANGED next_service_tid

SubmitService(req) ==
    /\ req_queue' = Append(req_queue, WithTid(req, next_service_tid))
    /\ next_service_tid' = NextServiceTid(next_service_tid)
    /\ write_watch' = TRUE
    /\ UNCHANGED next_control_tid

KeyOf(h) == <<svc[h].type, svc[h].client>>

\* g_hash_table_find(service_list, __service_compare_shared, type)
SharedOf(t) == {registry[k] : k \in {k \in Keys : registry[k] # 0
                                          /\ svc[registry[k]].type = t}}

(***************************************************************************)
(* qmi_device_discover.  With a version list it completes on the next     *)
(* turn; otherwise it sends CTL GET_VERSION_INFO and arms a 5 s timeout.  *)
(***************************************************************************)
Discover ==
    /\ next_id + 1 <= MaxIds
    /\ IF version_list # NoList
       THEN /\ discovery_queue' = discovery_queue \cup
                   {[id |-> next_id, kind |-> "discover", type |-> 0,
                     service |-> 0, tid |-> 0]}
            /\ next_id' = next_id + 1
            /\ UNCHANGED <<queues, tids>>
       ELSE /\ SubmitControl(RequestAlloc(next_id + 1, QMI_SERVICE_CONTROL, 0,
                                          "discover", next_id, 0, 0))
            /\ discovery_queue' = discovery_queue \cup
                   {[id |-> next_id, kind |-> "discover", type |-> 0,
                     service |-> 0, tid |-> next_control_tid]}
            /\ next_id' = next_id + 2
            /\ UNCHANGED <<control_queue, service_queue>>
    /\ UNCHANGED <<modem, version_list, svc, registry, release_users, shut,
                   freed, held, sent, calls, cancels, misrouted>>

(***************************************************************************)
(* qmi_service_create_shared when a registered service of the type exists:*)
(* take a reference for the record and call back on the next turn.  (The  *)
(* function returns 0 here although the callback will run.)               *)
(***************************************************************************)
CreateShared(t) ==
    /\ next_id <= MaxIds
    /\ \E h \in SharedOf(t) :
         /\ svc' = [svc EXCEPT ![h].ref = @ + 1]
         /\ discovery_queue' = discovery_queue \cup
                {[id |-> next_id, kind |-> "shared", type |-> t,
                  service |-> h, tid |-> 0]}
    /\ next_id' = next_id + 1
    /\ UNCHANGED <<queues, tids, modem, version_list, registry, release_users,
                   shut, freed, held, sent, calls, cancels, misrouted>>

(***************************************************************************)
(* qmi_device_sync: CTL SYNC with a sync_data record as callback data; it *)
(* has no timeout, so the record lives exactly as long as the request,    *)
(* and one heap id names the pair.                                        *)
(***************************************************************************)
Sync ==
    /\ next_id <= MaxIds /\ syncs < MaxSyncs
    /\ syncs' = syncs + 1
    /\ SubmitControl(RequestAlloc(next_id, QMI_SERVICE_CONTROL, 0,
                                  "sync", next_id, 0, 0))
    /\ next_id' = next_id + 1
    /\ UNCHANGED <<control_queue, service_queue, modem, device, shutdown_source,
                   shutting_down, shutdown_calls, teardown, freed, held, sent,
                   calls, cancels, misrouted>>

(***************************************************************************)
(* service_create (no registered service of the type): needs a version    *)
(* list, sends CTL GET_CLIENT_ID naming the type and arms an 8 s timeout. *)
(***************************************************************************)
CreateNew(t) ==
    /\ next_id + 1 <= MaxIds
    /\ SharedOf(t) = {}
    /\ version_list # NoList
    /\ SubmitControl(RequestAlloc(next_id + 1, QMI_SERVICE_CONTROL, 0,
                                  "create", next_id, t, 0))
    /\ discovery_queue' = discovery_queue \cup
           {[id |-> next_id, kind |-> "create", type |-> t, service |-> 0,
             tid |-> 0]}
    /\ next_id' = next_id + 2
    /\ UNCHANGED <<control_queue, service_queue, modem, version_list, svc,
                   registry, release_users, shut, freed, held, sent, calls,
                   cancels, misrouted>>

(***************************************************************************)
(* can_write_data: pop the head of req_queue and write it in one call.    *)
(* A write that returns >= 0 counts as sent even when it is short (the     *)
(* modem then never sees a whole frame); a failing write drops the popped *)
(* request, without callback or destroy, and disarms the writer.  The     *)
(* request moves to the awaiting queue of its class.                      *)
(***************************************************************************)
\* Fault variant: the writer stops after one request.
MoreToWriteNever == FALSE

\* can_write_data returns TRUE (stays armed) while requests remain queued.
MoreToWrite == Len(req_queue) > 1

CanWriteData ==
    /\ write_watch
    /\ req_queue # <<>>
    /\ \E o \in WriteOutcomes :
         LET req == Head(req_queue) IN
         /\ req_queue' = Tail(req_queue)
         /\ IF o = "error"
            THEN /\ write_watch' = FALSE
                 /\ UNCHANGED <<control_queue, service_queue, wire>>
            ELSE /\ IF IsControl(req)
                    THEN /\ control_queue' = Append(control_queue, req)
                         /\ UNCHANGED service_queue
                    ELSE /\ service_queue' = Append(service_queue, req)
                         /\ UNCHANGED control_queue
                 /\ wire' = IF o = "ok" THEN wire \cup {req} ELSE wire
                 /\ write_watch' = MoreToWrite
    /\ UNCHANGED <<next_control_tid, next_service_tid, modem_clients, device,
                   shut, ghost>>

\* can_write_data with nothing queued (the queue was emptied by a cancel).
WriterIdle ==
    /\ write_watch
    /\ req_queue = <<>>
    /\ write_watch' = FALSE
    /\ UNCHANGED <<queues, next_control_tid, next_service_tid, modem, device,
                   shut, ghost>>

(***************************************************************************)
(* The modem's side.  It answers each request it received whole, once, in *)
(* any order: GET_CLIENT_ID allocates a free client id of the type (or     *)
(* fails when none is left), RELEASE_CLIENT_ID frees the id, SYNC frees   *)
(* every client id of every type.  An answer is                           *)
(* [type, client]: the client-id TLV, or 0 when the answer has none.      *)
(***************************************************************************)
NoClientTlv == [type |-> 0, client |-> 0]

ModemAnswers(r) ==
    LET free == ClientIds \ modem_clients[r.ptype] IN
    IF r.kind = "create" /\ free # {}
    THEN {[type |-> r.ptype, client |-> c] : c \in free}
    ELSE {NoClientTlv}

ModemClientsAfter(r, a) ==
    CASE r.kind = "create" /\ a.client # 0 ->
            [modem_clients EXCEPT ![r.ptype] = @ \cup {a.client}]
      [] r.kind = "release" ->
            [modem_clients EXCEPT ![r.ptype] = @ \ {r.pclient}]
      [] r.kind = "sync" -> [t \in Types |-> {}]
      [] OTHER -> modem_clients

(***************************************************************************)
(* __qmi_device_discovery_complete: a record still queued is removed and  *)
(* freed; one already freed (its timeout ran) is left alone.  DataOf      *)
(* reads a record whether or not it was freed: a freed record is the      *)
(* memory a late callback still reads through its stale user_data.        *)
(***************************************************************************)
DataOf(d) == CHOOSE r \in discovery_queue \cup freed : r.id = d

Complete(d) ==
    IF \E r \in discovery_queue : r.id = d
    THEN /\ discovery_queue' = {r \in discovery_queue : r.id # d}
         /\ freed' = freed \cup {DataOf(d)}
    ELSE UNCHANGED <<discovery_queue, freed>>

Called(i) == calls' = [calls EXCEPT ![i] = @ + 1]

\* Fault variant: the result callback is not called.
OnSendUncalled(q) ==
    UNCHANGED <<version_list, discovery_queue, svc, registry, release_users,
                freed, held, calls>>

\* service_send_callback: the user's result callback, then the destroy.
OnSend(q) ==
    /\ Called(q.id)
    /\ UNCHANGED <<version_list, discovery_queue, svc, registry,
                   release_users, freed, held>>

\* Fault variant: the release answer does not give the count back.
ReleaseDoneKeepCount(h) == UNCHANGED release_users

\* service_release_callback: one release user fewer if the service still
\* points to its device.
ReleaseDone(h) ==
    release_users' = IF svc[h].device THEN release_users - 1 ELSE release_users

\* service_release_callback: the service struct is freed at last.
OnRelease(q) ==
    LET h == q.owner IN
    /\ ReleaseDone(h)
    /\ svc' = [svc EXCEPT ![h] = FreeService]
    /\ UNCHANGED <<version_list, discovery_queue, registry, freed, held, calls>>

\* discover_callback: the modem's list becomes the version list.
OnDiscover(q) ==
    /\ version_list' = ModemTypes
    /\ Called(q.owner)
    /\ Complete(q.owner)
    /\ UNCHANGED <<svc, registry, release_users, held>>

(***************************************************************************)
(* service_create_callback: with a client-id TLV of the requested type a  *)
(* service is allocated and put in service_list (g_hash_table_replace: a  *)
(* service already under that key loses its device); the user callback   *)
(* runs, keeps a reference, and the creation reference is dropped.        *)
(***************************************************************************)
OnCreate(q, a) ==
    LET d == DataOf(q.owner)
        key == <<d.type, a.client>>
    IN
    /\ IF a.client # 0 /\ a.type = d.type
       THEN \E h \in Handles :
              /\ svc[h].state = "free"
              /\ svc' = [g \in Handles |->
                           IF g = h
                           THEN [state |-> "live", type |-> d.type,
                                 client |-> a.client, ref |-> 1,
                                 device |-> TRUE]
                           ELSE IF g = registry[key]
                                THEN [svc[g] EXCEPT !.device = FALSE]
                                ELSE svc[g]]
              /\ registry' = [registry EXCEPT ![key] = h]
              /\ held' = [held EXCEPT ![h] = 1]
       ELSE UNCHANGED <<svc, registry, held>>
    /\ Called(q.owner)
    /\ Complete(q.owner)
    /\ UNCHANGED <<version_list, release_users>>

\* qmi_device_sync_callback: the user's callback, then the record is freed.
OnSync(q) ==
    /\ Called(q.owner)
    /\ UNCHANGED <<version_list, discovery_queue, svc, registry,
                   release_users, freed, held>>

Dispatch(q, a) ==
    CASE q.kind = "send"     -> OnSend(q)
      [] q.kind = "release"  -> OnRelease(q)
      [] q.kind = "discover" -> OnDiscover(q)
      [] q.kind = "create"   -> OnCreate(q, a)
      [] q.kind = "sync"     -> OnSync(q)

cbvars == <<version_list, discovery_queue, svc, registry, release_users,
            freed, held, calls>>

(***************************************************************************)
(* received_data + handle_packet for the response r: the awaiting queue of *)
(* its class is searched by transaction id; a hit is removed and its      *)
(* callback run, a miss is dropped.                                        *)
(***************************************************************************)
HandlePacket(r, a) ==
    LET queue == IF IsControl(r) THEN control_queue ELSE service_queue
        i == FindTid(queue, r.tid)
    IN
    IF i = 0
    THEN UNCHANGED <<control_queue, service_queue, misrouted, cbvars>>
    ELSE /\ IF IsControl(r)
            THEN /\ control_queue' = RemoveAt(control_queue, i)
                 /\ UNCHANGED service_queue
            ELSE /\ service_queue' = RemoveAt(service_queue, i)
                 /\ UNCHANGED control_queue
         /\ misrouted' = (misrouted \/ queue[i].id # r.id)
         /\ Dispatch(queue[i], a)

ModemReply(r) ==
    /\ dev = "alive"
    /\ r \in wire
    /\ \E a \in ModemAnswers(r) :
         /\ wire' = wire \ {r}
         /\ modem_clients' = ModemClientsAfter(r, a)
         /\ HandlePacket(r, a)
    /\ UNCHANGED <<req_queue, tids, shut, next_id, sent, cancels>>

(***************************************************************************)
(* discover_reply (the 5 s timeout, or the next turn when the list was    *)
(* already known): the GET_VERSION_INFO request is looked up by its       *)
(* transaction id in req_queue, then in control_queue, and freed.         *)
(***************************************************************************)
DiscoverReply(d) ==
    /\ d \in discovery_queue
    /\ d.kind = "discover"
    /\ LET i == IF d.tid # 0 THEN FindTid(req_queue, d.tid) ELSE 0
           j == IF d.tid # 0 /\ i = 0 THEN FindTid(control_queue, d.tid) ELSE 0
           gone == IF i > 0 THEN {req_queue[i]}
                   ELSE IF j > 0 THEN {control_queue[j]} ELSE {}
       IN
       /\ req_queue' = IF i > 0 THEN RemoveAt(req_queue, i) ELSE req_queue
       /\ control_queue' = IF j > 0 THEN RemoveAt(control_queue, j)
                                    ELSE control_queue
       /\ cancels' = cancels \cup
              {[id |-> q.id, owner |-> q.owner, by |-> d.id, how |-> "timeout"]
                 : q \in gone}
    /\ Called(d.id)
    /\ discovery_queue' = discovery_queue \ {d}
    /\ freed' = freed \cup {d}
    /\ UNCHANGED <<service_queue, tids, modem, version_list, svc, registry,
                   release_users, shut, next_id, held, sent, misrouted>>

\* service_create_reply (the 8 s timeout): the user is told NULL and the
\* record is freed; the GET_CLIENT_ID request stays queued.
CreateTimeout(d) ==
    /\ d \in discovery_queue
    /\ d.kind = "create"
    /\ Called(d.id)
    /\ discovery_queue' = discovery_queue \ {d}
    /\ freed' = freed \cup {d}
    /\ UNCHANGED <<queues, tids, modem, version_list, svc, registry,
                   release_users, shut, next_id, held, sent, cancels,
                   misrouted>>

\* service_create_shared_reply then service_create_shared_data_free: the
\* user keeps the service and the record's reference is dropped.
SharedReply(d) ==
    /\ d \in discovery_queue
    /\ d.kind = "shared"
    /\ held' = [held EXCEPT ![d.service] = @ + 1]
    /\ Called(d.id)
    /\ discovery_queue' = discovery_queue \ {d}
    /\ freed' = freed \cup {d}
    /\ UNCHANGED <<queues, tids, modem, version_list, svc, registry,
                   release_users, shut, next_id, sent, cancels, misrouted>>

(***************************************************************************)
(* qmi_service_send: refused for a client id of 0 or a service that lost *)
(* its device; otherwise the request is submitted with the next service  *)
(* transaction id, which the user keeps to cancel it.                     *)
(***************************************************************************)
Usable(h) == held[h] > 0 /\ svc[h].client # 0 /\ svc[h].device

Send(h) ==
    /\ Usable(h)
    /\ next_id <= MaxIds
    /\ SubmitService(RequestAlloc(next_id, svc[h].type, svc[h].client,
                                  "send", h, 0, 0))
    /\ sent' = sent \cup {[id |-> next_id, owner |-> h, tid |-> next_service_tid]}
    /\ next_id' = next_id + 1
    /\ UNCHANGED <<control_queue, service_queue, modem, device, shut, freed,
                   held, calls, cancels, misrouted>>

(***************************************************************************)
(* qmi_service_cancel(tid): the first request with that transaction id in *)
(* req_queue, else in service_queue, is removed and destroyed.  A cancel  *)
(* that finds nothing returns false and changes nothing.                  *)
(***************************************************************************)
\* Fault variant: an awaited request is destroyed but left in service_queue.
CancelKeepQueued(h) ==
    /\ Usable(h)
    /\ \E s \in sent :
         /\ s.owner = h /\ s.tid # 0
         /\ LET i == FindTid(req_queue, s.tid)
                j == IF i = 0 THEN FindTid(service_queue, s.tid) ELSE 0
                q == IF i > 0 THEN req_queue[i] ELSE service_queue[j]
            IN
            /\ i + j > 0
            /\ req_queue' = IF i > 0 THEN RemoveAt(req_queue, i) ELSE req_queue
            /\ cancels' = cancels \cup {[id |-> q.id, owner |-> q.owner,
                                         by |-> h, how |-> "cancel"]}
    /\ UNCHANGED <<service_queue, control_queue, tids, modem, device, shut,
                   next_id, freed, held, sent, calls, misrouted>>

Cancel(h) ==
    /\ Usable(h)
    /\ \E s \in sent :
         /\ s.owner = h /\ s.tid # 0
         /\ LET i == FindTid(req_queue, s.tid)
                j == IF i = 0 THEN FindTid(service_queue, s.tid) ELSE 0
                q == IF i > 0 THEN req_queue[i] ELSE service_queue[j]
            IN
            /\ i + j > 0
            /\ req_queue' = IF i > 0 THEN RemoveAt(req_queue, i) ELSE req_queue
            /\ service_queue' = IF j > 0 THEN RemoveAt(service_queue, j)
                                         ELSE service_queue
            /\ cancels' = cancels \cup {[id |-> q.id, owner |-> q.owner,
                                         by |-> h, how |-> "cancel"]}
    /\ UNCHANGED <<control_queue, tids, modem, device, shut, next_id, freed,
                   held, sent, calls, misrouted>>

\* The requests qmi_service_cancel_all(h) destroys: remove_client on both
\* queues with the service's client id.
DroppedBy(h) ==
    LET c == svc[h].client IN
    {[id |-> q.id, owner |-> q.owner, by |-> h, how |-> "cancel_all"] :
        q \in RemoveClientDropped(req_queue, c)
                \cup RemoveClientDropped(service_queue, c)}

CancelAll(h) ==
    /\ Usable(h)
    /\ req_queue' = RemoveClientKept(req_queue, svc[h].client)
    /\ service_queue' = RemoveClientKept(service_queue, svc[h].client)
    /\ cancels' = cancels \cup DroppedBy(h)
    /\ UNCHANGED <<control_queue, tids, modem, device, shut, next_id, freed,
                   held, sent, calls, misrouted>>

\* Fault variant: the service is left in service_list.
StealNothing(h) == UNCHANGED registry

\* g_hash_table_steal(service_list, type | (client_id << 8))
Steal(h) == registry' = [registry EXCEPT ![KeyOf(h)] = 0]

(***************************************************************************)
(* qmi_service_unref by the user.  The last reference of a service that   *)
(* still has its device cancels all its requests, steals it from          *)
(* service_list, counts a release user and submits CTL RELEASE_CLIENT_ID  *)
(* (client 0 in the mux header); the struct lives until the answer.  A    *)
(* service that lost its device is just freed.                            *)
(***************************************************************************)
Unref(h) ==
    /\ held[h] > 0
    /\ held' = [held EXCEPT ![h] = @ - 1]
    /\ CASE svc[h].ref > 1 ->
              /\ svc' = [svc EXCEPT ![h].ref = @ - 1]
              /\ UNCHANGED <<queues, tids, registry, release_users, next_id,
                             cancels>>
         [] ~svc[h].device ->
              /\ svc' = [svc EXCEPT ![h] = FreeService]
              /\ UNCHANGED <<queues, tids, registry, release_users, next_id,
                             cancels>>
         [] OTHER ->
              LET rel == RequestAlloc(next_id, QMI_SERVICE_CONTROL, 0,
                                      "release", h, svc[h].type, svc[h].client)
              IN
              /\ next_id <= MaxIds
              /\ req_queue' = Append(RemoveClientKept(req_queue, svc[h].client),
                                     WithTid(rel, next_control_tid))
              /\ service_queue' = RemoveClientKept(service_queue, svc[h].client)
              /\ cancels' = cancels \cup DroppedBy(h)
              /\ Steal(h)
              /\ release_users' = release_users + 1
              /\ next_control_tid' = NextControlTid(next_control_tid)
              /\ write_watch' = TRUE
              /\ svc' = [svc EXCEPT ![h].ref = 0, ![h].state = "releasing"]
              /\ next_id' = next_id + 1
              /\ UNCHANGED <<control_queue, next_service_tid>>
    /\ UNCHANGED <<modem, version_list, discovery_queue, shut, freed, sent,
                   calls, misrouted>>

(***************************************************************************)
(* qmi_device_unref dropping the last reference, in the code's order.     *)
(* The three request queues are freed with __request_free, which runs no  *)
(* callback and no destroy.  Then each discovery record's destroy runs:   *)
(* a create-shared record unrefs its service, and when that is the last   *)
(* reference of a service still in service_list, qmi_service_unref runs   *)
(* cancel_all and release_client on the queues just freed; what that does *)
(* is undefined, so the model records the use and goes on as if nothing  *)
(* had been queued.  The write watch and the shutdown source are removed  *)
(* (shutdown_destroy clears shutdown_source), service_list is destroyed,   *)
(* which detaches every service in it (service_destroy), and the struct  *)
(* is freed, or only marked destroyed while shutting_down is set.         *)
(***************************************************************************)
Teardown(final) ==
    LET Drops(h) == Cardinality({d \in discovery_queue :
                                   d.kind = "shared" /\ d.service = h})
        LastRef(h) == Drops(h) > 0 /\ svc[h].ref = Drops(h)
        InList(h) == \E k \in Keys : registry[k] = h
        pending == ToSet(req_queue) \cup ToSet(control_queue)
                       \cup ToSet(service_queue)
    IN
    /\ req_queue' = <<>> /\ control_queue' = <<>> /\ service_queue' = <<>>
    /\ abandoned' = abandoned \cup {q.id : q \in pending}
    /\ queue_after_free' = (queue_after_free \/ \E h \in Handles : LastRef(h) /\ svc[h].device)
    /\ svc' = [h \in Handles |->
                IF LastRef(h) /\ ~svc[h].device THEN FreeService
                ELSE [svc[h] EXCEPT !.ref = @ - Drops(h),
                                    !.device = @ /\ ~InList(h)]]
    /\ discovery_queue' = {}
    /\ freed' = freed \cup discovery_queue
    /\ write_watch' = FALSE
    /\ shutdown_source' = FALSE
    /\ registry' = [k \in Keys |-> 0]
    /\ dev' = final
    /\ UNCHANGED <<next_control_tid, next_service_tid, modem, version_list,
                   release_users, syncs, next_id, held, sent, calls, cancels,
                   misrouted>>

\* The user drops its last device reference from outside the shutdown path.
DeviceUnref ==
    /\ Teardown(IF shutting_down THEN "destroyed" ELSE "freed")
    /\ UNCHANGED <<shutting_down, shutdown_calls>>

(***************************************************************************)
(* qmi_device_shutdown schedules shutdown_callback, which polls on every  *)
(* turn until release_users is 0, then runs the user's function; the      *)
(* source is removed and shutdown_destroy clears shutdown_source.         *)
(***************************************************************************)
Shutdown ==
    /\ ~shutdown_source
    /\ shutdown_calls < MaxShutdowns
    /\ shutdown_source' = TRUE
    /\ UNCHANGED <<queues, tids, modem, device, shutting_down, shutdown_calls,
                   syncs, teardown, ghost>>

(***************************************************************************)
(* The user's shutdown function may drop the last device reference: the   *)
(* teardown then runs inside the callback with shutting_down set, and     *)
(* shutdown_destroy, run once the callback returns, frees the struct.     *)
(***************************************************************************)
ShutdownCallback ==
    /\ shutdown_source
    /\ release_users = 0
    /\ shutting_down' = TRUE
    /\ shutdown_calls' = shutdown_calls + 1
    /\ \/ /\ shutdown_source' = FALSE
          /\ UNCHANGED <<queues, tids, modem, device, syncs, teardown, ghost>>
       \/ Teardown("freed")

-----------------------------------------------------------------------------

(***************************************************************************)
(* The user calls into the device only while it holds a reference to it. *)
(***************************************************************************)
DeviceCalls ==
    \/ Discover \/ Sync
    \/ \E t \in Types : CreateShared(t) \/ CreateNew(t)
    \/ Shutdown \/ DeviceUnref

Next ==
    \/ dev = "alive" /\ DeviceCalls
    \/ CanWriteData \/ WriterIdle
    \/ \E r \in wire : ModemReply(r)
    \/ \E d \in discovery_queue : DiscoverReply(d) \/ CreateTimeout(d)
                                  \/ SharedReply(d)
    \/ \E h \in Handles : Send(h) \/ Cancel(h) \/ CancelAll(h) \/ Unref(h)
    \/ ShutdownCallback

(***************************************************************************)
(* Fairness.  The GLib main loop dispatches every ready source: the       *)
(* writer while the fd is writable, every expired timer, the reader when   *)
(* the modem's answer arrives.  The modem answers every request it got    *)
(* whole.  The user is not obliged to do anything.                         *)
(***************************************************************************)
Fairness ==
    /\ WF_vars(CanWriteData) /\ WF_vars(WriterIdle)
    /\ WF_vars(\E r \in wire : ModemReply(r))
    /\ WF_vars(\E d \in discovery_queue : DiscoverReply(d) \/ CreateTimeout(d)
                                          \/ SharedReply(d))
    /\ WF_vars(ShutdownCallback)

(***************************************************************************)
(* torn is a history variable: it records, without changing what the     *)
(* program can do, whether a step of can_write_data has left the modem    *)
(* without the whole request it popped.  Fairness stays on the program's *)
(* own variables.                                                          *)
(***************************************************************************)
TornWrite == CanWriteData /\ Head(req_queue) \notin wire'

Spec == Init /\ [][Next /\ torn' = (torn \/ TornWrite)]_<<vars, torn>> /\ Fairness

-----------------------------------------------------------------------------

Request == [id : Ids, tid : 0..65535, service : Types \cup {0},
            client : ClientIds \cup {0}, kind : RequestKinds,
            owner : Nat, ptype : Types \cup {0}, pclient : ClientIds \cup {0}]

TypeOK ==
    /\ req_queue \in Seq(Request) /\ control_queue \in Seq(Request)
    /\ service_queue \in Seq(Request) /\ wire \subseteq Request
    /\ next_control_tid \in 1..255 /\ next_service_tid \in 256..65535
    /\ torn \in BOOLEAN
    /\ write_watch \in BOOLEAN
    /\ modem_clients \in [Types -> SUBSET ClientIds]
    /\ version_list \in {NoList} \cup SUBSET Types
    /\ svc \in [Handles -> [state : {"free", "live", "releasing"},
                            type : Types \cup {0}, client : ClientIds \cup {0},
                            ref : Nat, device : BOOLEAN]]
    /\ registry \in [Keys -> Handles \cup {0}]
    /\ release_users \in Nat
    /\ held \in [Handles -> Nat] /\ calls \in [Ids -> Nat]

(***************************************************************************)
(* A response, a cancel and a discover timeout each reach the request the *)
(* transaction id was issued for: handle_packet, qmi_service_cancel and   *)
(* discover_reply find requests by transaction id alone, searching queues *)
(* that hold both control and service requests, so the control ids       *)
(* (1..255) and the service ids (256..65535) must never meet.             *)
(***************************************************************************)
TidRouting ==
    /\ ~misrouted
    /\ \A c \in cancels : c.how \in {"cancel", "timeout"} => c.owner = c.by

(***************************************************************************)
(* Every live service that still has its device is in service_list under *)
(* type | (client_id << 8), and service_list holds only such services,    *)
(* each under its own key (unref steals the entry before the release).    *)
(***************************************************************************)
RegistryConsistent ==
    /\ \A h \in Handles :
         svc[h].state = "live" /\ svc[h].device => registry[KeyOf(h)] = h
    /\ \A k \in Keys :
         registry[k] # 0 => /\ svc[registry[k]].state = "live"
                            /\ KeyOf(registry[k]) = k

(***************************************************************************)
(* release_users counts exactly the services whose RELEASE_CLIENT_ID has  *)
(* been sent by unref and not yet answered.                                *)
(***************************************************************************)
ReleaseAccounting ==
    release_users = Cardinality({h \in Handles : svc[h].state = "releasing"})

(***************************************************************************)
(* A request the user sent ends at most once: its result callback runs or *)
(* it is destroyed by a cancel, never both and never twice.               *)
(***************************************************************************)
SendEndsOnce ==
    \A s \in sent :
        calls[s.id] + Cardinality({c \in cancels : c.id = s.id}) <= 1

(***************************************************************************)
(* qmi_service_cancel_all (and the last unref) of a service destroys only *)
(* that service's requests.  Client ids are handed out per service type,  *)
(* so two services of different types can share one.                      *)
(***************************************************************************)
CancelAllOwnOnly ==
    \A c \in cancels : c.how = "cancel_all" => c.owner = c.by

(***************************************************************************)
(* Once qmi_device_unref has freed the request queues, nothing the rest  *)
(* of the teardown runs uses them (spec section 5: on teardown every     *)
(* queued callback is answered or destroyed, and nothing outlives its     *)
(* queue).  The destroy of a pending create-shared record drops its       *)
(* service reference at that point.                                       *)
(***************************************************************************)
TeardownQueuesUnused == ~queue_after_free

(***************************************************************************)
(* The create callback of qmi_service_create runs at most once per call. *)
(***************************************************************************)
CreateCallbackOnce ==
    \A i \in Ids : calls[i] <= 1

(***************************************************************************)
(* Liveness.  Every request the user sent eventually gets its result or is *)
(* cancelled; every scheduled shutdown eventually calls back.             *)
(***************************************************************************)
SendResolves ==
    \A i \in Ids :
        (\E s \in sent : s.id = i) ~>
            (calls[i] > 0 \/ \E c \in cancels : c.id = i)

ShutdownCompletes == shutdown_source ~> ~shutdown_source

(***************************************************************************)
(* The same two promises for the behaviours in which every write() of     *)
(* can_write_data hands the modem the whole request.  A failed or short   *)
(* write loses the request without callback (SendResolves) and can lose a *)
(* RELEASE_CLIENT_ID (ShutdownCompletes): write_fail_shutdown shows it.   *)
(* A request the teardown freed (spec property 1: "destroyed during       *)
(* shutdown") has ended too.  The user sends finitely often (MaxIds), and *)
(* a request once ended stays so; every sent request ending is then the   *)
(* same as all of them having ended from some point on.                   *)
(***************************************************************************)
Resolved(i) == calls[i] > 0 \/ (\E c \in cancels : c.id = i) \/ i \in abandoned

WholeWritesResolve == [](~torn) => <>[](\A s \in sent : Resolved(s.id))

WholeWritesShutdown == [](~torn) => ShutdownCompletes

(***************************************************************************)
(* Refinement.  The stage of the request the user sent under heap id i,  *)
(* read off the device's queues, the modem and the callbacks run: queued *)
(* in req_queue; delivered or torn in service_queue, as the modem holds   *)
(* it whole or not; answered once its result callback ran; cancelled     *)
(* once a cancel destroyed it; destroyed when the teardown freed it; lost *)
(* when it left the queues with none of these.                            *)
(***************************************************************************)
Stage(i) ==
    LET Queued(q) == \E k \in 1..Len(q) : q[k].id = i IN
    CASE ~\E s \in sent : s.id = i       -> "unsent"
      [] calls[i] > 0                    -> "answered"
      [] \E c \in cancels : c.id = i      -> "cancelled"
      [] i \in abandoned                 -> "destroyed"
      [] Queued(req_queue)               -> "queued"
      [] Queued(service_queue) /\ \E r \in wire : r.id = i -> "delivered"
      [] Queued(service_queue)           -> "torn"
      [] OTHER                           -> "lost"

LifeOf == [i \in Ids |-> Stage(i)]

Lifecycle == INSTANCE RequestLifecycle WITH Reqs <- Ids, life <- LifeOf

(***************************************************************************)
(* The device implements the request life cycle the spec promises: each  *)
(* sent request is queued, written whole, short or lost, and ends at most *)
(* once, answered only after the modem got it whole or cancelled while   *)
(* still held (alone, or with the rest of its client by cancel_all and   *)
(* unref) or with the device; a request the modem got whole is answered, *)
(* cancelled or goes with the device.                                     *)
(***************************************************************************)
ImplementsLifecycle == Lifecycle!Spec

=============================================================================
