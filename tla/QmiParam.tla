------------------------------ MODULE QmiParam ------------------------------
(***************************************************************************)
(* A struct qmi_param built by qmi_param_new and qmi_param_append_uint8 / *)
(* uint16 / uint32, then read back as a received TLV area with the        *)
(* qmi_result_get_* readers (spec property 4, the round trip).            *)
(***************************************************************************)
EXTENDS Naturals, Sequences, SequencesExt, QmiTlv

CONSTANTS
    ParamTypes,   \* TLV types the caller appends (0 included: refused)
    Values,       \* [u8, u16, u32] -> the values appended of each width
    MaxAppends    \* bound on append calls

ASSUME ParamTypes \subseteq 0..255 /\ MaxAppends \in Nat

AppendWidths == {"u8", "u16", "u32"}

VARIABLES
    data,       \* param->data, param->length is Len(data)
    appended,   \* the TLVs the calls that returned true asked for
    calls

vars == <<data, appended, calls>>

\* qmi_param_new: no data, length 0.
Init == data = <<>> /\ appended = <<>> /\ calls = 0

\* qmi_param_append_<w>(param, t, v), which calls qmi_param_append.
AppendFixed(t, w, v) ==
    /\ calls < MaxAppends
    /\ LET r == ParamAppend(data, t, ParamValue(Widths[w], v)) IN
       /\ data' = r.data
       /\ appended' = IF r.ok THEN Append(appended, [type |-> t, width |-> w,
                                                     value |-> v])
                              ELSE appended
    /\ calls' = calls + 1

Next ==
    \E t \in ParamTypes, w \in AppendWidths : \E v \in Values[w] : AppendFixed(t, w, v)

Spec == Init /\ [][Next]_vars

-----------------------------------------------------------------------------

TypeOK ==
    /\ data \in Seq(0..255)
    /\ Len(data) <= 65535
    /\ appended \in Seq([type : ParamTypes, width : AppendWidths, value : Nat])

\* The first TLV of type t a successful append asked for.
FirstOf(t) == appended[SelectInSeq(appended, LAMBDA e : e.type = t)]

(***************************************************************************)
(* Round trip: for every type appended, the reader of the same width      *)
(* finds the first TLV of that type, returns its value and reads nothing  *)
(* past param->length; a type never appended is not found.               *)
(***************************************************************************)
RoundTrip ==
    \A t \in ParamTypes \ {0} :
        IF \E i \in 1..Len(appended) : appended[i].type = t
        THEN LET e == FirstOf(t)
                 r == ResultGetFixed(data, Len(data), t, Widths[e.width])
             IN /\ r.found
                /\ FixedValue(data, r, Widths[e.width]) = e.value
                /\ r.reach <= Len(data)
        ELSE ~ResultGet(data, Len(data), t).found

(***************************************************************************)
(* Result code round trip: when the first TLV of type 2 in a response is  *)
(* a 4-byte result code (a u32 append of result + 65536 * error), the     *)
(* result service_send_callback builds makes qmi_result_set_error report  *)
(* a failure exactly when result is non-zero, and then that error.       *)
(***************************************************************************)
ResultCodeRoundTrip ==
    (\E i \in 1..Len(appended) : appended[i].type = 2) /\ FirstOf(2).width = "u32" =>
        \A res \in SendResults(data, Len(data)) :
            LET v == FirstOf(2).value
                s == ResultSetError(res)
            IN /\ s.failed = (v % 65536 # 0)
               /\ s.failed => s.error = v \div 65536

=============================================================================
