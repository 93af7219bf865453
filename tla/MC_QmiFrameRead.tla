--------------------------- MODULE MC_QmiFrameRead ---------------------------
EXTENDS QmiFrameRead

\* Type bytes 1 and 2, lengths 0, 1, 2 and 4, and a NUL for strings.
MCBytes == {0, 1, 2, 4}
MCReadTypes == {1, 2}

\* GET_VERSION_INFO replies: a result code TLV, a service list TLV whose
\* count byte is c and which holds k entries, and, when present, a version
\* string TLV whose prefix byte is p and which holds n characters.
MCResultCode == <<2, 4, 0, 0, 0, 0, 0>>
MCServiceList(c, k) ==
    <<1>> \o EncodeLE(1 + 5 * k, 2) \o <<c>> \o [i \in 1..5 * k |-> 1]
MCVersion(p, n) == <<16>> \o EncodeLE(1 + n, 2) \o <<p>> \o [i \in 1..n |-> 65]
MCDiscoverReplies ==
    {MCResultCode \o MCServiceList(c, k) : c \in 0..2, k \in 0..1}
    \cup {MCResultCode \o MCServiceList(c, k) \o MCVersion(p, n) :
            c \in 0..2, k \in 0..1, p \in 0..2, n \in 0..1}

\* A control (service 0, client 0) or service (service 2, client 1) packet:
\* its own header, a message header declaring ml bytes, and k bytes.
MCBody(ctl, ml, k) ==
    (IF ctl THEN <<1, 1>> ELSE <<2, 0, 1>>) \o <<33, 0>> \o EncodeLE(ml, 2)
        \o [i \in 1..k |-> 0]
\* A mux frame whose length field is lf.
MCFrame(ctl, lf, body) ==
    <<1>> \o EncodeLE(lf, 2) \o <<128, IF ctl THEN 0 ELSE 2, IF ctl THEN 0 ELSE 1>> \o body
\* The length field a frame of this body should carry.
MCRightLength(body) == QMI_MUX_HDR_SIZE - 1 + Len(body)
\* Frames whose length field is right, one short, 0 or 0xffff, and whose
\* message header declares as many bytes as follow it or more.
MCFrames ==
    UNION {{MCFrame(ctl, lf, MCBody(ctl, ml, 2)) :
               lf \in {MCRightLength(MCBody(ctl, ml, 2)),
                       MCRightLength(MCBody(ctl, ml, 2)) - 1, 0, 65535}} :
           ctl \in BOOLEAN, ml \in {2, 4}}
\* One frame, a well-formed frame followed by another, and a frame with a
\* stray byte after it.
MCReadBuffers ==
    MCFrames
    \cup {MCFrame(TRUE, MCRightLength(MCBody(TRUE, 2, 2)), MCBody(TRUE, 2, 2)) \o f :
            f \in MCFrames}
    \cup {f \o <<1>> : f \in MCFrames}

\* Every prefix of a service packet declaring 0 or 2 bytes and holding 2.
MCDatagrams ==
    {SubSeq(MCBody(FALSE, ml, 2), 1, j) : ml \in {0, 2}, j \in 0..9}
MCQrtrTypes == {2}
=============================================================================
