----------------------------- MODULE MC_QmiParam -----------------------------
EXTENDS QmiParam

\* Type 0 (refused), and two types a caller may repeat.
MCParamTypes == {0, 1, 2}
\* The extremes of each width and a value whose bytes all differ; the
\* largest u32 is 2^31 - 1 (TLC's integers are 32-bit signed), which still
\* fills all four bytes.  As a result code, 5373952 is result 0 with
\* error 0x52 (success) and 16909060 is result 0x0304, error 0x0102.
MCValues == [u8 |-> {0, 255}, u16 |-> {258, 65535},
             u32 |-> {5373952, 16909060, 2147483647}]
=============================================================================
