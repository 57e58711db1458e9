---------------------------- MODULE MCFramedCodec ----------------------------
(* Traffic for the runs of FramedCodec, and the CRC of the code, tabulated.  *)
EXTENDS FramedCodec

LOCAL Crc == INSTANCE Crc16

Table == [data \in {<<>>, FRAME_START} \cup {<<byte>> : byte \in Byte} |-> Crc!crc16(data)]
MCchecksum(data) == IF data \in DOMAIN Table THEN Table[data] ELSE Crc!crc16(data)

F(data) == [kind |-> "frame", bytes |-> data]
T(bytes) == [kind |-> "text", bytes |-> bytes]
N(bytes) == [kind |-> "noise", bytes |-> bytes]

\* An empty frame, one that looks like text, one that contains a start, a line
\* of text, text that is not ended, and noise: half a start, a start with a
\* length beyond the maximum, a start alone.
Frames == {F(<<>>), F(<<10>>), F(FRAME_START)}
TextPieces == {T(<<65, 10>>), T(<<10, 65>>)}
Noise == {N(<<170, 204>>), N(FRAME_START \o <<65, 65>>), N(FRAME_START)}

AnyCut == 1 .. 40

CleanTraffic == UNION {[1 .. n -> Frames \cup TextPieces] : n \in 1 .. 2}
                  \cup {<<f, t, g>> : f \in Frames, t \in TextPieces, g \in Frames}
NoisyTraffic == {<<f, n, g>> : f \in Frames, n \in Noise, g \in Frames}
DamagedTraffic == {<<F(<<10>>), g, F(<<10>>), g>> : g \in {F(<<>>), F(<<170>>)}}
AnyTraffic == CleanTraffic \cup NoisyTraffic \cup DamagedTraffic
=============================================================================
