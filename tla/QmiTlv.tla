------------------------------- MODULE QmiTlv -------------------------------
(***************************************************************************)
(* The TLV codec of drivers/qmimodem/qmi.c as pure operators over byte    *)
(* sequences: the little-endian encodings the qmi_param_append_* helpers  *)
(* write, the tlv_get walk, and the qmi_result_get_* readers.             *)
(*                                                                         *)
(* A byte sequence is 1-indexed; offsets are 0-based as in the C code, so *)
(* the byte at offset p is buf[p + 1].  Every reader reports how far into *)
(* the buffer it read ("reach"), so that reads past a frame can be told   *)
(* apart from reads inside it.                                            *)
(***************************************************************************)
EXTENDS Naturals, Sequences

LOCAL INSTANCE FiniteSetsExt

\* QMI_TLV_HDR_SIZE: type (1 byte) and little-endian length (2 bytes).
QMI_TLV_HDR_SIZE == 3

\* The width in bytes of each fixed-size reader and writer.
Widths == [u8 |-> 1, i16 |-> 2, u16 |-> 2, u32 |-> 4, u64 |-> 8]

(***************************************************************************)
(* Little-endian encoding of value v in n bytes, and its decoding.        *)
(***************************************************************************)
RECURSIVE EncodeLE(_, _)
EncodeLE(v, n) == IF n = 0 THEN <<>> ELSE <<v % 256>> \o EncodeLE(v \div 256, n - 1)

RECURSIVE DecodeLE(_)
DecodeLE(bytes) ==
    IF bytes = <<>> THEN 0 ELSE bytes[1] + 256 * DecodeLE(Tail(bytes))

\* The byte at 0-based offset p, 0 for a byte past the modelled buffer.
ByteAt(buf, p) == IF p < Len(buf) THEN buf[p + 1] ELSE 0

\* The TLV length field of the header at offset p.
LengthAt(buf, p) == ByteAt(buf, p + 1) + 256 * ByteAt(buf, p + 2)

(***************************************************************************)
(* tlv_get: while more than a header remains, compare the type byte and   *)
(* either return the value (offset and length) or step over the TLV; len  *)
(* is a uint16_t, so subtracting a length longer than what remains wraps. *)
(* A header wholly past the modelled buffer is read (reach records it) and *)
(* the walk ends there: what follows is whatever memory lies beyond.     *)
(***************************************************************************)
NotFound(reach) == [found |-> FALSE, off |-> 0, len |-> 0, reach |-> reach]

RECURSIVE TlvWalk(_, _, _, _, _)
TlvWalk(buf, ptr, len, type, reach) ==
    IF len <= QMI_TLV_HDR_SIZE THEN NotFound(reach)
    ELSE IF ptr >= Len(buf) THEN NotFound(ptr + QMI_TLV_HDR_SIZE)
    ELSE LET l == LengthAt(buf, ptr)
             r == IF ptr + QMI_TLV_HDR_SIZE > reach THEN ptr + QMI_TLV_HDR_SIZE
                                                    ELSE reach
         IN IF ByteAt(buf, ptr) = type
            THEN [found |-> TRUE, off |-> ptr + QMI_TLV_HDR_SIZE, len |-> l,
                  reach |-> r]
            ELSE TlvWalk(buf, ptr + QMI_TLV_HDR_SIZE + l,
                         (len - (QMI_TLV_HDR_SIZE + l)) % 65536, type, r)

TlvGet(buf, size, type) == TlvWalk(buf, 0, size, type, 0)

\* qmi_result_get: type 0 is refused.
ResultGet(buf, size, type) ==
    IF type = 0 THEN NotFound(0) ELSE TlvGet(buf, size, type)

(***************************************************************************)
(* qmi_result_get_uint8 / int16 / uint16 / uint32 / uint64: memcpy of the *)
(* reader's width from the value, whatever length the TLV declares.       *)
(***************************************************************************)
ResultGetFixed(buf, size, type, width) ==
    LET t == ResultGet(buf, size, type)
        end == t.off + width
    IN IF ~t.found THEN t
       ELSE [t EXCEPT !.reach = IF end > @ THEN end ELSE @]

\* The value a fixed-size reader returns.
FixedValue(buf, t, width) ==
    DecodeLE([i \in 1..width |-> ByteAt(buf, t.off + i - 1)])

(***************************************************************************)
(* qmi_result_get_string: strndup(ptr, len) reads up to len bytes and     *)
(* stops after a NUL.                                                      *)
(***************************************************************************)
RECURSIVE StrndupEnd(_, _, _)
StrndupEnd(buf, p, left) ==
    IF left = 0 THEN p
    ELSE IF ByteAt(buf, p) = 0 THEN p + 1
    ELSE StrndupEnd(buf, p + 1, left - 1)

ResultGetString(buf, size, type) ==
    LET t == ResultGet(buf, size, type)
        end == StrndupEnd(buf, t.off, t.len)
    IN IF ~t.found THEN t
       ELSE [t EXCEPT !.reach = IF end > @ THEN end ELSE @]

(***************************************************************************)
(* discover_callback's reads of a GET_VERSION_INFO reply.  The result    *)
(* code TLV 0x02 must be QMI_RESULT_CODE_SIZE long and the service list  *)
(* TLV 0x01 at least QMI_SERVICE_LIST_SIZE (its count byte, struct       *)
(* qmi_service_list); the loop then reads count entries of 5 bytes       *)
(* (type, major, minor) whatever the TLV's length.  The optional TLV     *)
(* 0x10 is copied with strndup(ptr + 1, *ptr).  The result is how far    *)
(* into the buffer the callback read.                                     *)
(***************************************************************************)
QMI_RESULT_CODE_SIZE == 4

QMI_SERVICE_LIST_SIZE == 1

QMI_SERVICE_ENTRY_SIZE == 5

DiscoverReach(buf, size) ==
    LET rc == TlvGet(buf, size, 2)
        sl == TlvGet(buf, size, 1)
        vs == TlvGet(buf, size, 16)
        listEnd == sl.off + QMI_SERVICE_LIST_SIZE
                     + QMI_SERVICE_ENTRY_SIZE * ByteAt(buf, sl.off)
        strEnd == StrndupEnd(buf, vs.off + 1, ByteAt(buf, vs.off))
    IN CASE ~rc.found \/ rc.len # QMI_RESULT_CODE_SIZE -> rc.reach
         [] ~sl.found \/ sl.len < QMI_SERVICE_LIST_SIZE -> Max({rc.reach, sl.reach})
         [] ~vs.found -> Max({rc.reach, sl.reach, listEnd, vs.reach})
         [] OTHER -> Max({rc.reach, sl.reach, listEnd, vs.reach, strEnd})

(***************************************************************************)
(* service_send_callback: the struct qmi_result handed to the user.  The  *)
(* result and error fields are assigned only from a result code TLV 0x02 *)
(* of QMI_RESULT_CODE_SIZE bytes (result:u16, error:u16); otherwise they  *)
(* hold whatever the stack held, here any of StackGarbage.               *)
(***************************************************************************)
StackGarbage == {0, 65535}

U16At(buf, p) == ByteAt(buf, p) + 256 * ByteAt(buf, p + 1)

\* Fault variant: the two fields of the result code read in swapped order.
SendResultsSwapped(buf, size) ==
    LET t == TlvGet(buf, size, 2) IN
    IF t.found /\ t.len = QMI_RESULT_CODE_SIZE
    THEN {[result |-> U16At(buf, t.off + 2), error |-> U16At(buf, t.off)]}
    ELSE [result : StackGarbage, error : StackGarbage]

SendResults(buf, size) ==
    LET t == TlvGet(buf, size, 2) IN
    IF t.found /\ t.len = QMI_RESULT_CODE_SIZE
    THEN {[result |-> U16At(buf, t.off), error |-> U16At(buf, t.off + 2)]}
    ELSE [result : StackGarbage, error : StackGarbage]

\* qmi_result_set_error on a result: result 0 is success and leaves *error
\* alone (the NULL result of a failed create is not a response).
ResultSetError(res) ==
    IF res.result = 0 THEN [failed |-> FALSE, error |-> "unset"]
                      ELSE [failed |-> TRUE, error |-> res.error]

(***************************************************************************)
(* qmi_param_append: type 0 is refused, length 0 succeeds without writing *)
(* anything, otherwise header and value are appended.  The param length  *)
(* is a uint16_t.                                                          *)
(***************************************************************************)
ParamAppend(data, type, value) ==
    CASE type = 0 -> [ok |-> FALSE, data |-> data]
      [] value = <<>> -> [ok |-> TRUE, data |-> data]
      [] OTHER -> [ok |-> TRUE,
                   data |-> data \o <<type>> \o EncodeLE(Len(value), 2) \o value]

\* Fault variant: the 16-bit value is stored whole, as the uint8 helper does.
ParamUint16Whole(v) == <<v>>

\* Fault variant: a 16-bit value written most significant byte first.
ParamUint16BigEndian(v) == <<v \div 256, v % 256>>

\* qmi_param_append_uint8 / uint16 / uint32: the value bytes they pass.
ParamUint16(v) == EncodeLE(v, 2)

ParamValue(width, v) == IF width = 2 THEN ParamUint16(v) ELSE EncodeLE(v, width)

=============================================================================
