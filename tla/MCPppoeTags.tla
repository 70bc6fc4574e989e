----------------------------- MODULE MCPppoeTags -----------------------------
(* Frames for PppoeTags, built from tags so that every interesting layout  *)
(* occurs: no tag, one or two tags in either order, a tag whose length     *)
(* runs past the frame, ph->length one short of, equal to, or beyond the   *)
(* bytes received, and bytes of an earlier frame left behind them.         *)
(* Buffer sizes are scaled down: real_session and agent_cid/agent_rid      *)
(* hold 3 bytes (64 in the code), so values of 2 and 3 bytes reach the     *)
(* clamps; size_t is 16 bits wide, which wraps small negative values as    *)
(* 64 bits do.                                                             *)
EXTENDS PppoeTags

MCSessCap == 3
MCAgentCap == 3
MCSizeMod == 65536
MCUninit == 65          \* a non-NUL byte: strncpy reads on through it
MCListener == <<83>>    \* "S"

\* A tag: type, declared length, value bytes.
Tag(type, n, v) == <<type \div 256, type % 256, n \div 256, n % 256>> \o v

\* Sub-TLVs: "C", "AB" (fits), "B", 3-byte values (reach the clamp), one
\* ending in bytes that read as a sub-TLV header, an empty value starting
\* with NUL, an empty id; after them a trailing odd byte 1 or 255
\* (Trailers), or none (NoTrailer).
SubPieces == {<<1, 1, 67>>, <<1, 2, 65, 66>>, <<2, 1, 66>>,
              <<1, 3, 65, 66, 67>>, <<1, 3, 65, 1, 1>>, <<1, 1, 0>>, <<2, 0>>}
Trailers == {<<>>, <<1>>, <<255>>}
NoTrailer == {<<>>}

\* Sub-TLVs that fit agent_cid/agent_rid without the clamp.
Unclamped == {p \in SubPieces : p[2] < MCAgentCap}
SubAreas(P, E) ==
    {FlattenSeq(p) \o e : p \in BoundedSeq(P, 2), e \in E}

VendorTags(P, E) ==
    {Tag(PTT_VENDOR, 4 + Len(a), <<0, 0, 13, 233>> \o a) : a \in SubAreas(P, E)}
    \cup {Tag(PTT_VENDOR, 4, <<0, 0, 13, 232>>)}

\* Service-Name "", "A", "ABC" (clamped), and one claiming 2 bytes with 1;
\* an empty AC-Name.
OtherTags ==
    {Tag(PTT_SRV_NAME, Len(v), v) : v \in {<<>>, <<65>>, <<65, 66, 67>>}}
    \cup {Tag(PTT_SRV_NAME, 2, <<65>>), Tag(258, 0, <<>>)}

TagLists(P, E) ==
    {<<>>} \cup {<<t>> : t \in OtherTags \cup VendorTags(P, E)}
    \cup {<<n, v>> : n \in OtherTags, v \in VendorTags(P, E)}
    \cup {<<v, n>> : n \in OtherTags, v \in VendorTags(P, E)}
    \cup {<<n, m>> : n, m \in OtherTags}

\* What the buffer still holds past the frame: nothing known, or the
\* header and value of a Service-Name "XX" of an earlier frame.
Tails == {<<>>, <<1, 1, 0, 2, 88, 88>>}

FramesOf(P, E) ==
    {f \in {[buf |-> FlattenSeq(ts) \o tl, rcvd |-> Len(FlattenSeq(ts)),
            length |-> Len(FlattenSeq(ts)) + d] :
               ts \in TagLists(P, E), tl \in Tails, d \in {-1, 0, 6}} :
        f.length >= 0}

MCFrames == FramesOf(SubPieces, Trailers)

\* Vendor tags whose sub-TLVs fit the id buffers and fill the value exactly.
MCWellFormedFrames == FramesOf(Unclamped, NoTrailer)
=============================================================================
