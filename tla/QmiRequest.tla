---------------------------- MODULE QmiRequest ----------------------------
(***************************************************************************)
(* Requests of the QMI transport (drivers/qmimodem/qmi.c) and the pure     *)
(* operations the device performs on its request queues: building a       *)
(* request, allocating its transaction id at submission, finding it again *)
(* by transaction id, and dropping every request of one client.           *)
(*                                                                         *)
(* A request is a record                                                   *)
(*   [id, tid, service, client, kind, owner, ptype, pclient]               *)
(* where  id     is the identity of the heap object (its pointer),        *)
(*        tid    the transaction id written into its header,              *)
(*        service, client the mux header fields,                          *)
(*        kind   which callback it carries (discover_callback,            *)
(*               service_create_callback, service_release_callback,      *)
(*               service_send_callback),                                   *)
(*        owner  the callback's user_data (a data record or a service),   *)
(*        ptype, pclient the service type and client id a CTL request     *)
(*               carries in its TLV (GET_CLIENT_ID, RELEASE_CLIENT_ID).   *)
(* The encoded bytes are not modelled: no property depends on them.       *)
(***************************************************************************)
EXTENDS Naturals, Sequences, SequencesExt

\* QMI_SERVICE_CONTROL: service type 0 is the CTL service.
QMI_SERVICE_CONTROL == 0

\* The callbacks a request can carry.
RequestKinds == {"discover", "create", "release", "send", "sync"}

\* __request_alloc: a request before submission has transaction id 0.
RequestAlloc(id, service, client, kind, owner, ptype, pclient) ==
    [id |-> id, tid |-> 0, service |-> service, client |-> client,
     kind |-> kind, owner |-> owner, ptype |-> ptype, pclient |-> pclient]

IsControl(req) == req.service = QMI_SERVICE_CONTROL

(***************************************************************************)
(* __request_submit, transaction id allocation.  The control counter is a  *)
(* uint8_t that skips 0 when it wraps; the service counter is a uint16_t   *)
(* that is put back to 256 whenever the increment leaves it below 256.    *)
(***************************************************************************)
\* Fault variant: the wrap to 0 is not skipped.
NextControlTidNoSkip(t) == (t + 1) % 256

NextControlTid(t) == IF (t + 1) % 256 = 0 THEN 1 ELSE (t + 1) % 256

\* Fault variant: the service counter is not put back to 256.
NextServiceTidNoReset(t) == (t + 1) % 65536

NextServiceTid(t) == IF (t + 1) % 65536 < 256 THEN 256 ELSE (t + 1) % 65536

\* The transaction id a request receives and the request with it.
WithTid(req, tid) == [req EXCEPT !.tid = tid]

(***************************************************************************)
(* g_queue_find_custom(queue, tid, __request_compare): the position of the *)
(* first request with that transaction id, 0 when there is none.          *)
(***************************************************************************)
\* Fault variant: responses assumed to come back in submission order.
FindTidInOrder(queue, tid) == IF queue = <<>> THEN 0 ELSE 1

FindTid(queue, tid) == SelectInSeq(queue, LAMBDA r : r.tid = tid)

(***************************************************************************)
(* remove_client: the queue rebuilt without the requests whose mux client *)
(* is the given one (requests with client 0, the CTL ones, are kept), and *)
(* the requests it dropped.                                                *)
(***************************************************************************)
KeepsClient(req, client) == req.client = 0 \/ req.client # client

RemoveClientKept(queue, client) ==
    SelectSeq(queue, LAMBDA r : KeepsClient(r, client))

RemoveClientDropped(queue, client) ==
    {queue[i] : i \in {j \in 1..Len(queue) : ~KeepsClient(queue[j], client)}}

=============================================================================
