\* Every TLV area of up to 5 bytes, the GET_VERSION_INFO replies, a declared
\* length of up to 3 bytes more than the area, read buffers of well-formed
\* and malformed frames, and every prefix of a service datagram.
CONSTANTS
    Bytes <- MCBytes
    ReadTypes <- MCReadTypes
    DiscoverReplies <- MCDiscoverReplies
    ReadBuffers <- MCReadBuffers
    Datagrams <- MCDatagrams
    QrtrTypes <- MCQrtrTypes
    MaxSize = 5
    Excess = 3
SPECIFICATION Spec
INVARIANT ReadsInFrame
CHECK_DEADLOCK FALSE
