---------------------------- MODULE QmiFrameRead ----------------------------
(***************************************************************************)
(* The receive paths applied to whatever a modem sends.  Every TLV area  *)
(* up to a bound, and a set of GET_VERSION_INFO replies, is a state, read *)
(* by the result readers with the size handle_packet passes on: the       *)
(* message header's length field, which nothing compares with the bytes  *)
(* the frame really holds.  So is every buffer of a set of read() results *)
(* scanned by received_data, and every datagram of a set that            *)
(* qrtr_receive gets from a service port.                                 *)
(***************************************************************************)
EXTENDS Naturals, Sequences, QmiFramer

CONSTANTS
    Bytes,            \* byte values the TLV area is made of
    MaxSize,          \* bound on the length of an arbitrary TLV area
    ReadTypes,        \* TLV types the callbacks ask for
    DiscoverReplies,  \* TLV areas of GET_VERSION_INFO replies
    Excess,           \* bound on how far the declared length exceeds the area
    ReadBuffers,      \* what one read() of the mux fd returns
    Datagrams,        \* what one receive from a QRTR service port returns
    QrtrTypes         \* service types a QRTR port can be bound to

VARIABLES
    area,     \* the TLV area the frame holds
    length,   \* msg->length, the size handle_packet passes to the callback
    rx,       \* the buffer received_data scans
    dgram     \* the datagram qrtr_receive handles

vars == <<area, length, rx, dgram>>

\* One input at a time: a TLV area with its declared length, a read buffer,
\* or a datagram.
Init ==
    \/ /\ area \in UNION {[1..n -> Bytes] : n \in 0..MaxSize} \cup DiscoverReplies
       /\ length \in 0..(Len(area) + Excess)
       /\ rx = <<>> /\ dgram = <<>>
    \/ /\ rx \in ReadBuffers
       /\ area = <<>> /\ length = 0 /\ dgram = <<>>
    \/ /\ dgram \in Datagrams
       /\ area = <<>> /\ length = 0 /\ rx = <<>>

\* Reading changes nothing.
Next == UNCHANGED vars

Spec == Init /\ [][Next]_vars

(***************************************************************************)
(* Spec property 5: nothing on the receive path reads past what it was   *)
(* given, for any bytes and whatever lengths the headers declare.  The   *)
(* result readers stay in the TLV area: tlv_get's walk over the headers, *)
(* the fixed-width memcpy of qmi_result_get_uint8 ... uint64,             *)
(* qmi_result_get_string, and discover_callback's loop over the service  *)
(* list and its strndup of the version string.  handle_packet stays in   *)
(* the length + 1 bytes of each frame received_data validated, and in    *)
(* the datagram qrtr_receive got.                                         *)
(***************************************************************************)
ReadsInFrame ==
    /\ \A t \in ReadTypes :
          /\ \A w \in {1, 2, 4, 8} : ResultGetFixed(area, length, t, w).reach <= Len(area)
          /\ ResultGetString(area, length, t).reach <= Len(area)
    /\ DiscoverReach(area, length) <= Len(area)
    /\ \A f \in ToSet(ReadFrames(rx)) : PacketReach(rx, f.off) <= f.off + f.len
    /\ \A t \in QrtrTypes : QrtrReach(dgram, t, 1) <= Len(dgram)

=============================================================================
