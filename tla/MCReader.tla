------------------------------ MODULE MCReader ------------------------------
(* Inputs for Reader: windows encoded the way a lumberjack v2 client       *)
(* encodes them (JSON frames, then at most one compressed frame holding    *)
(* the rest of the window), with decoder errors, corrupt and nested zlib   *)
(* blobs, over-announced counts, empty windows, and truncated streams.     *)
EXTENDS Reader

J(p) == <<CodeVersion, CodeJSONDataFrame, p>>
C(z) == <<CodeVersion, CodeCompressed, z>>
Header(n) == <<CodeVersion, CodeWindowSize, n>>

MCGoodJSON == {100, 101}
BadJSON == 199

\* 300..303 inflate to frames (303 to a frame the decoder rejects, 302 to a
\* nested compressed frame); 304 is not a zlib stream.
MCInflate == (300 :> J(100)) @@ (301 :> J(100) \o J(101))
             @@ (302 :> C(300)) @@ (303 :> J(BadJSON))

JFrames == {J(100), J(101), J(BadJSON)}
CFrames == {C(z) : z \in 300..304}

\* Frame lists: up to two JSON frames, then optionally one compressed frame.
Bodies == {a \o b : a \in BoundedSeq(JFrames, 2) \cup {<<>>},
                    b \in {<<>>} \cup {<<c>> : c \in CFrames}}

\* Events a body carries when it is well formed (else 0).
Carried(body) == LET r == RefAll(FlattenSeq(body)) IN Len(r.events)

Windows == {Header(Carried(b) + d) \o FlattenSeq(b) : b \in Bodies, d \in {0, 1}}
           \cup {Header(0)}

SecondWindows == {Header(0), Header(1) \o J(101), Header(1) \o C(300)}

MCStreams == {w1 \o w2 : w1 \in Windows, w2 \in SecondWindows}
             \cup UNION {Prefixes(w) : w \in Windows}
=============================================================================
