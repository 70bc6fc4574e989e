------------------------------ MODULE PppoeTags ------------------------------
(***************************************************************************)
(* TagCodec of src/src/pppoe.c at byte level: get_tag, get_vs_tag,         *)
(* print_tags, and the decoding of a received PADI in PppoeListenEvent     *)
(* (Service-Name into real_session, the BBF vendor tag's sub-TLVs into     *)
(* agent_cid / agent_rid).                                                 *)
(*                                                                         *)
(* A frame is what follows the 6-byte PPPoE header in response[]:          *)
(* f.buf[o + 1] is the byte at tag offset o, f.rcvd how many of them       *)
(* NgRecvData wrote, f.length the header's ph->length.  response[] is a    *)
(* local: a byte past f.buf is one no frame wrote (Uninit).  Every         *)
(* operator also returns the set of offsets it reads.                      *)
(***************************************************************************)
EXTENDS Integers, Sequences, SequencesExt

CONSTANTS
    Frames,     \* the frames considered
    SessCap,    \* sizeof(real_session) (MAX_SESSION)
    AgentCap,   \* sizeof(agent_cid) = sizeof(agent_rid)
    SizeMod,    \* 2^(bits of size_t)
    Uninit,     \* content of a byte of response[] no frame wrote
    Listener    \* the service s of the hook listen-<s> (rhook + 7)

PTT_SRV_NAME == 257     \* 0x0101, compared in network byte order
PTT_VENDOR   == 261     \* 0x0105
BBF_VENDOR   == 3561    \* htonl(0x00000DE9)
NoTag == -1             \* NULL
Bytes == 0..255

Byte(f, o) == IF o < Len(f.buf) THEN f.buf[o + 1] ELSE Uninit
U16(f, o)  == Byte(f, o) * 256 + Byte(f, o + 1)
U32(f, o)  == U16(f, o) * 65536 + U16(f, o + 2)
Span(o, n) == o .. (o + n - 1)

\* Conversions of the C expressions: to size_t, and a char read as int.
SizeT(x) == x % SizeMod
CharVal(b, signedChar) == IF signedChar /\ b >= 128 THEN b - 256 ELSE b

\* Mutants of get_tag: the end-of-tag check dropped; the header check
\* off by one.
RECURSIVE GetTagNoEndCheck(_, _, _, _)
GetTagNoEndCheck(f, idx, pt, rd) ==
    IF pt + 4 > f.length THEN [at |-> NoTag, reads |-> rd]
    ELSE LET r1 == rd \cup Span(pt, 4)
         IN  IF U16(f, pt) = idx THEN [at |-> pt, reads |-> r1]
             ELSE GetTagNoEndCheck(f, idx, pt + 4 + U16(f, pt + 2), r1)

RECURSIVE GetTagHeaderOffByOne(_, _, _, _)
GetTagHeaderOffByOne(f, idx, pt, rd) ==
    IF pt + 4 >= f.length THEN [at |-> NoTag, reads |-> rd]
    ELSE LET r1  == rd \cup Span(pt, 4)
             ptn == pt + 4 + U16(f, pt + 2)
         IN  IF ptn > f.length THEN [at |-> NoTag, reads |-> r1]
             ELSE IF U16(f, pt) = idx THEN [at |-> pt, reads |-> r1]
             ELSE GetTagHeaderOffByOne(f, idx, ptn, r1)

\* get_tag(ph, idx), walking from offset pt.
RECURSIVE GetTag(_, _, _, _)
GetTag(f, idx, pt, rd) ==
    IF pt + 4 > f.length THEN [at |-> NoTag, reads |-> rd]
    ELSE LET r1  == rd \cup Span(pt, 4)
             ptn == pt + 4 + U16(f, pt + 2)
         IN  IF ptn > f.length THEN [at |-> NoTag, reads |-> r1]
             ELSE IF U16(f, pt) = idx THEN [at |-> pt, reads |-> r1]
             ELSE GetTag(f, idx, ptn, r1)

\* get_vs_tag(ph, idx): a Vendor-Specific tag of at least 4 bytes whose
\* vendor id is idx (the id is read only after the first two tests).
RECURSIVE GetVsTag(_, _, _, _)
GetVsTag(f, idx, pt, rd) ==
    IF pt + 4 > f.length THEN [at |-> NoTag, reads |-> rd]
    ELSE LET r1   == rd \cup Span(pt, 4)
             ptn  == pt + 4 + U16(f, pt + 2)
             isVs == U16(f, pt) = PTT_VENDOR /\ U16(f, pt + 2) >= 4
             r2   == IF isVs THEN r1 \cup Span(pt + 4, 4) ELSE r1
         IN  IF ptn > f.length THEN [at |-> NoTag, reads |-> r1]
             ELSE IF isVs /\ U32(f, pt + 4) = idx THEN [at |-> pt, reads |-> r2]
             ELSE GetVsTag(f, idx, ptn, r2)

\* print_tags (LG_PHYS3 only): the same walk; each tag's value is read at
\* most up to its end.
RECURSIVE PrintTags(_, _, _)
PrintTags(f, pt, rd) ==
    IF pt + 4 > f.length THEN rd
    ELSE LET n == U16(f, pt + 2)
         IN  IF pt + 4 + n > f.length THEN rd \cup Span(pt, 4)
             ELSE PrintTags(f, pt + 4 + n, rd \cup Span(pt, 4 + n))

\* Mutant: the clamp tests len > sizeof(real_session).
ServiceNameClampOffByOne(f, t) ==
    IF t.at = NoTag THEN [val |-> Listener, reads |-> {}]
    ELSE LET n   == U16(f, t.at + 2)
             len == IF n > SessCap THEN SessCap - 1 ELSE n
         IN  [val |-> [i \in 1..len |-> Byte(f, t.at + 3 + i)],
              reads |-> Span(t.at + 4, len)]

\* real_session: the Service-Name value, clamped below sizeof(real_session)
\* and NUL-terminated, or the listener's service.
ServiceName(f, t) ==
    IF t.at = NoTag THEN [val |-> Listener, reads |-> {}]
    ELSE LET n   == U16(f, t.at + 2)
             len == IF n >= SessCap THEN SessCap - 1 ELSE n
         IN  [val |-> [i \in 1..len |-> Byte(f, t.at + 3 + i)],
              reads |-> Span(t.at + 4, len)]

\* strncpy(dst, &b[o], n): copy up to the first NUL, pad the rest of the n
\* bytes with NUL, leave dst[n..] as it was.
StrNCpy(f, dst, o, n) ==
    LET nul == {i \in 0..(n - 1) : Byte(f, o + i) = 0}
        k   == IF nul = {} THEN n ELSE Min(nul)
    IN  [buf   |-> [i \in DOMAIN dst |->
                      IF i < k THEN Byte(f, o + i) ELSE IF i < n THEN 0 ELSE dst[i]],
         reads |-> Span(o, IF nul = {} THEN n ELSE k + 1)]

EmptyId == [i \in 0..(AgentCap - 1) |-> 0]

\* Mutant: the clamp tests len1 > sizeof(agent_rid).
RECURSIVE SubTlvsClampOffByOne(_, _, _, _, _, _)
SubTlvsClampOffByOne(f, sgn, base, len, pos, st) ==
    IF ~(pos + 1 <= len) THEN st
    ELSE LET len1 == SizeT(CharVal(Byte(f, base + pos + 1), sgn))
             r1   == st.reads \cup {base + pos + 1}
         IN  IF len1 > SizeT(len - pos - 2) THEN [st EXCEPT !.reads = r1]
             ELSE LET l1  == IF len1 > AgentCap THEN AgentCap - 1 ELSE len1
                      sub == Byte(f, base + pos)
                      st2 == CASE sub = 1 -> [st EXCEPT !.cid =
                                                (StrNCpy(f, st.cid, base + pos + 2, l1)).buf]
                               [] sub = 2 -> [st EXCEPT !.rid =
                                                (StrNCpy(f, st.rid, base + pos + 2, l1)).buf]
                               [] OTHER   -> st
                  IN  SubTlvsClampOffByOne(f, sgn, base, len, SizeT(pos + 2 + l1), st2)

\* The sub-TLV loop over b = the vendor tag's value after the vendor id:
\* st holds agent_cid, agent_rid and the offsets read.
RECURSIVE SubTlvs(_, _, _, _, _, _)
SubTlvs(f, sgn, base, len, pos, st) ==
    IF ~(pos + 1 <= len) THEN st
    ELSE LET len1 == SizeT(CharVal(Byte(f, base + pos + 1), sgn))
             r1   == st.reads \cup {base + pos + 1}
         IN  IF len1 > SizeT(len - pos - 2) THEN [st EXCEPT !.reads = r1]
             ELSE LET l1  == IF len1 >= AgentCap THEN AgentCap - 1 ELSE len1
                      r2  == r1 \cup {base + pos}
                      sub == Byte(f, base + pos)
                      cpc == StrNCpy(f, st.cid, base + pos + 2, l1)
                      cpr == StrNCpy(f, st.rid, base + pos + 2, l1)
                      st2 == CASE sub = 1 -> [st EXCEPT !.cid = cpc.buf,
                                                        !.reads = r2 \cup cpc.reads]
                               [] sub = 2 -> [st EXCEPT !.rid = cpr.buf,
                                                        !.reads = r2 \cup cpr.reads]
                               [] OTHER   -> [st EXCEPT !.reads = r2]
                  IN  SubTlvs(f, sgn, base, len, SizeT(pos + 2 + l1), st2)

\* agent_cid/agent_rid from the BBF vendor tag t (bzero'd first).
VendorIds(f, sgn, t) ==
    LET st0 == [cid |-> EmptyId, rid |-> EmptyId, reads |-> {}]
    IN  IF t.at = NoTag THEN st0
        ELSE SubTlvs(f, sgn, t.at + 8, SizeT(U16(f, t.at + 2) - 4), 0, st0)

-----------------------------------------------------------------------------
(* One received frame, decoded as PppoeListenEvent does (lines 1284-1322): *)
(* Service-Name, vendor tag, optionally print_tags.  The char signedness   *)
(* of the build is chosen with the frame.                                  *)

VARIABLES
    frame,       \* the received frame
    signedChar,  \* char is signed in this build
    session,     \* real_session
    cid, rid,    \* agent_cid, agent_rid (whole buffers)
    walkReads,   \* offsets read by get_tag, get_vs_tag, print_tags, memcpy
    subReads,    \* offsets read by the sub-TLV loop
    parsed

vars == <<frame, signedChar, session, cid, rid, walkReads, subReads, parsed>>

TypeOK ==
    /\ frame \in [buf : Seq(Bytes), rcvd : Nat, length : Nat]
    /\ signedChar \in BOOLEAN
    /\ session \in Seq(Bytes) /\ Len(session) < SessCap
    /\ cid \in [0..(AgentCap - 1) -> Bytes]
    /\ rid \in [0..(AgentCap - 1) -> Bytes]
    /\ walkReads \subseteq Nat /\ subReads \subseteq Nat
    /\ parsed \in BOOLEAN

Init ==
    /\ frame \in Frames
    /\ signedChar \in BOOLEAN
    /\ session = <<>> /\ cid = EmptyId /\ rid = EmptyId
    /\ walkReads = {} /\ subReads = {}
    /\ parsed = FALSE

Decode ==
    /\ ~parsed
    /\ \E logPhys3 \in BOOLEAN :
         LET st  == GetTag(frame, PTT_SRV_NAME, 0, {})
             sn  == ServiceName(frame, st)
             vt  == GetVsTag(frame, BBF_VENDOR, 0, {})
             ids == VendorIds(frame, signedChar, vt)
         IN  /\ session' = sn.val
             /\ cid' = ids.cid /\ rid' = ids.rid
             /\ walkReads' = st.reads \cup sn.reads \cup vt.reads
                             \cup (IF logPhys3 THEN PrintTags(frame, 0, {}) ELSE {})
             /\ subReads' = ids.reads
    /\ parsed' = TRUE
    /\ UNCHANGED <<frame, signedChar>>

Next == Decode

Spec == Init /\ [][Next]_vars

-----------------------------------------------------------------------------
(* Reference decoding, from the tag format of spec 4.1 and 6 (RFC 2516):   *)
(* a tag vector is split into (type, value) pairs, stopping silently at    *)
(* the first entry that does not fit; sub-TLVs likewise.                   *)

RECURSIVE TagList(_)
TagList(s) ==
    IF Len(s) < 4 THEN <<>>
    ELSE LET n == s[3] * 256 + s[4]
         IN  IF 4 + n > Len(s) THEN <<>>
             ELSE <<[type |-> s[1] * 256 + s[2], value |-> SubSeq(s, 5, 4 + n)]>>
                  \o TagList(SubSeq(s, 5 + n, Len(s)))

RECURSIVE SubTlvList(_)
SubTlvList(s) ==
    IF Len(s) < 2 THEN <<>>
    ELSE IF 2 + s[2] > Len(s) THEN <<>>
    ELSE <<[type |-> s[1], value |-> SubSeq(s, 3, 2 + s[2])]>>
         \o SubTlvList(SubSeq(s, 3 + s[2], Len(s)))

Prefix(s, n) == IF Len(s) <= n THEN s ELSE SubSeq(s, 1, n)
CStr(s) == LET z == SelectInSeq(s, LAMBDA b : b = 0)
           IN  IF z = 0 THEN s ELSE SubSeq(s, 1, z - 1)
IdStr(id) == CStr([i \in 1..AgentCap |-> id[i - 1]])

\* The tag area as ph->length describes it, and its tags.
TagArea(f) == [i \in 1..f.length |-> Byte(f, i - 1)]
RefTags(f) == TagList(TagArea(f))

RefServiceName(f) ==
    LET srv == SelectSeq(RefTags(f), LAMBDA t : t.type = PTT_SRV_NAME)
    IN  IF srv = <<>> THEN Listener ELSE Prefix(srv[1].value, SessCap - 1)

\* Values the peer sent for sub-tag k in the BBF vendor tag, as C strings
\* cut to the id buffer.
SentIds(f, k) ==
    LET vs == SelectSeq(RefTags(f), LAMBDA t :
                  t.type = PTT_VENDOR /\ Len(t.value) >= 4
                  /\ (t.value[3] * 256 + t.value[4]) + t.value[1] * 16777216
                     + t.value[2] * 65536 = BBF_VENDOR)
    IN  IF vs = <<>> THEN {}
        ELSE LET subs == SubTlvList(SubSeq(vs[1].value, 5, Len(vs[1].value)))
             IN  {Prefix(CStr(subs[j].value), AgentCap - 1) :
                     j \in {j \in 1..Len(subs) : subs[j].type = k}}

-----------------------------------------------------------------------------
(* Properties.                                                             *)

\* Spec 8, property 5, and 6: tag iteration (get_tag, get_vs_tag,
\* print_tags and the copy of the Service-Name value) never reads past
\* ph->length.
TagWalkWithinLength ==
    parsed => walkReads \subseteq 0..(frame.length - 1)

\* real_session is the first complete Service-Name tag within ph->length,
\* clamped to the buffer, or the listener's service when there is none.
ServiceNameAgrees ==
    parsed => session = RefServiceName(frame)

\* agent_cid and agent_rid stay NUL-terminated within their buffers
\* whatever sub-TLV lengths the peer sends, so later strlcpy/Printf of
\* them stop inside the buffer.
AgentIdsTerminated ==
    parsed => /\ \E j \in DOMAIN cid : cid[j] = 0
              /\ \E j \in DOMAIN rid : rid[j] = 0

\* The comment of get_tag: "assume we already sanity checked ph->length":
\* tag decoding reads only bytes of the frame that NgRecvData received.
TagReadsWithinReceived ==
    parsed => walkReads \subseteq 0..(frame.rcvd - 1)

\* Spec 4.1 and 8 ("sub_len overshooting remaining vendor payload ->
\* stop"): the sub-TLV loop reads only the vendor tag's value.
SubTlvReadsWithinTag ==
    LET vt == GetVsTag(frame, BBF_VENDOR, 0, {})
    IN  parsed /\ vt.at # NoTag =>
           subReads \subseteq Span(vt.at + 8, U16(frame, vt.at + 2) - 4)

\* Spec 4.1: agent_cid / agent_rid are a value the peer sent for sub-tag
\* 1 / 2 (cut to 63 bytes), or empty.
AgentIdIsSentValue ==
    parsed => /\ IdStr(cid) \in {<<>>} \cup SentIds(frame, 1)
              /\ IdStr(rid) \in {<<>>} \cup SentIds(frame, 2)

=============================================================================
