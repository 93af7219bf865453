------------------------------ MODULE QmiFramer ------------------------------
(***************************************************************************)
(* The byte-level reads of the two receive paths of drivers/qmimodem/     *)
(* qmi.c as pure operators: received_data's scan of a read() buffer for   *)
(* mux frames, handle_packet's reads of the headers behind a mux header,  *)
(* and qrtr_receive's handling of a service datagram.  Each reports how   *)
(* far it reads, as the QmiTlv readers do.                                *)
(***************************************************************************)
EXTENDS Naturals, Sequences, QmiTlv, QmiRequest

\* The packed header sizes.
QMI_MUX_HDR_SIZE == 6
QMI_CONTROL_HDR_SIZE == 2
QMI_SERVICE_HDR_SIZE == 3
QMI_MESSAGE_HDR_SIZE == 4

\* The inbound flags received_data requires.
MUX_FLAGS_IN == 128

(***************************************************************************)
(* handle_packet(hdr, buf) for the mux header at offset p.  A control     *)
(* packet with a client id is ignored after the mux header.  Otherwise it *)
(* reads the control or service header and the message header, and hands *)
(* the msg->length bytes after them to the indication or response path.  *)
(* The result is the end of what it reads and hands on.                   *)
(***************************************************************************)
PacketReach(buf, p) ==
    LET ctl  == ByteAt(buf, p + 4) = QMI_SERVICE_CONTROL
        data == p + QMI_MUX_HDR_SIZE + QMI_MESSAGE_HDR_SIZE
                  + (IF ctl THEN QMI_CONTROL_HDR_SIZE ELSE QMI_SERVICE_HDR_SIZE)
    IN IF ctl /\ ByteAt(buf, p + 5) # 0 THEN p + QMI_MUX_HDR_SIZE
       ELSE data + U16At(buf, data - 2)

(***************************************************************************)
(* received_data's loop from the uint16 offset off: stop unless a whole  *)
(* mux header is left, its frame byte is 1 and its flags 0x80, and the    *)
(* uint16 len = length + 1 bytes are left; else hand the frame to         *)
(* handle_packet and step over it.  The result is the frames handled, in *)
(* order.  A len of 0 never advances: n bounds the frames handled.       *)
(***************************************************************************)
RECURSIVE FrameScan(_, _, _)
FrameScan(buf, off, n) ==
    LET len == (U16At(buf, off + 1) + 1) % 65536 IN
    IF \/ n = 0
       \/ Len(buf) - off < QMI_MUX_HDR_SIZE
       \/ ByteAt(buf, off) # 1 \/ ByteAt(buf, off + 3) # MUX_FLAGS_IN
       \/ Len(buf) - off < len
    THEN <<>>
    ELSE <<[off |-> off, len |-> len]>> \o FrameScan(buf, (off + len) % 65536, n - 1)

\* The frames one read() of buf hands to handle_packet.
ReadFrames(buf) == FrameScan(buf, 0, Len(buf) + 1)

(***************************************************************************)
(* qrtr_receive: the datagram is received behind room for a mux header;   *)
(* one shorter than QMI_MUX_HDR_SIZE is dropped, otherwise a header for   *)
(* the service bound to the source port (type t, client c) is filled in   *)
(* and handle_packet reads the datagram as a service packet.  The result  *)
(* is how far into the datagram it reads.                                  *)
(***************************************************************************)
QrtrReach(dgram, t, c) ==
    IF Len(dgram) < QMI_MUX_HDR_SIZE THEN 0
    ELSE PacketReach(<<1, 0, 0, MUX_FLAGS_IN, t, c>> \o dgram, 0) - QMI_MUX_HDR_SIZE

=============================================================================
