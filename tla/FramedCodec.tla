----------------------------- MODULE FramedCodec -----------------------------
(***************************************************************************)
(* FramedBinaryCodec (src/framed_codec.rs) reading a serial line through   *)
(* tokio-util's FramedRead.  The line carries frames, lines of text (debug *)
(* output of the device) and noise; the operating system hands them over   *)
(* in pieces of any size.                                                  *)
(*                                                                         *)
(* A behaviour picks what the device sends and at most one damaged byte,   *)
(* then every way to cut the bytes into reads.                             *)
(***************************************************************************)
EXTENDS Integers, Sequences, SequencesExt

CONSTANTS
  MAX_PAYLOAD_LEN,  (* 2040 in the code                                     *)
  checksum(_),      (* crc16 of the code, which module Crc16 models          *)
  Traffic,          (* sequences of pieces the device may send              *)
  Damageable,       (* those in which one byte may be damaged               *)
  Wrong,            (* values a damaged byte may get                        *)
  Cuts,             (* sizes of the reads                                   *)
  MaxItems,         (* bound of MoreBytesRelease: items returned            *)
  MayHangUp         (* may the device be unplugged?                         *)

Byte == 0 .. 255
U16 == {n \in Nat : n < 65536}
Piece == [kind : {"frame", "text", "noise"}, bytes : Seq(Byte)]

FRAME_START == <<170, 204, 170, 204>>
FRAME_HEADER_LEN == 6
CRC_LEN == 2
NewLine == 10

to_le_bytes_wide(n) == <<n, n \div 256>>     \* mutant: the low byte is not cut
to_le_bytes(n) == <<n % 256, n \div 256>>
from_be_bytes(lo, hi) == hi + 256 * lo      \* mutant: the other order
from_le_bytes(lo, hi) == lo + 256 * hi

Ok(data) == [ok |-> TRUE, data |-> data]
InvalidLength == [ok |-> FALSE, why |-> "InvalidLength"]
InvalidCRC == [ok |-> FALSE, why |-> "InvalidCRC"]
Item == [ok : {TRUE}, data : Seq(Byte)] \cup {InvalidLength, InvalidCRC}

-----------------------------------------------------------------------------
(* Encoder::encode.  It refuses an item longer than MAX_PAYLOAD_LEN.        *)

Encodable(item) == Len(item) <= MAX_PAYLOAD_LEN

encode(item) ==
  FRAME_START \o to_le_bytes(Len(item)) \o item \o to_le_bytes(checksum(item))

\* The device encodes what it can, and text (ASCII) has no byte that begins a start.
ASSUME ConstAssumption ==
  /\ MAX_PAYLOAD_LEN \in U16
  /\ Traffic \subseteq Seq(Piece) /\ Damageable \subseteq Traffic /\ Wrong \subseteq Byte
  /\ Cuts \subseteq Nat \ {0} /\ MaxItems \in Nat
  /\ MayHangUp \in BOOLEAN
  /\ \A ps \in Traffic : \A k \in DOMAIN ps :
       /\ ps[k].kind = "frame" =>
            Encodable(ps[k].bytes) /\ checksum(ps[k].bytes) \in U16
       /\ ps[k].kind = "text" =>
            \A i \in DOMAIN ps[k].bytes : ps[k].bytes[i] # FRAME_START[1]

\* The checksum sees one damaged byte of the data.  Crc16Proofs proves it of crc16
\* (CrcSeesOneByte).
ASSUME ChecksumAssumption ==
  \A ps \in Damageable : \A k \in DOMAIN ps :
    ps[k].kind = "frame" =>
      \A i \in DOMAIN ps[k].bytes, b \in Wrong :
        b # ps[k].bytes[i] => checksum([ps[k].bytes EXCEPT ![i] = b]) # checksum(ps[k].bytes)

frame_len(hdr) == from_le_bytes(hdr[5], hdr[6])

-----------------------------------------------------------------------------
(* Decoder::decode: the codec's next state, what is left of the buffer, and *)
(* the items returned (one or none).                                        *)

Wait == [frame |-> FALSE, len |-> 0]
Frame(n) == [frame |-> TRUE, len |-> n]
Result(state, src, items) == [state |-> state, src |-> src, items |-> items]

advance(src, n) == SubSeq(src, n + 1, Len(src))

StartsAt(src) ==
  {i \in 1 .. Len(src) - Len(FRAME_START) + 1 :
     SubSeq(src, i, i + Len(FRAME_START) - 1) = FRAME_START}

LinesEnd(src) == {i \in 1 .. Len(src) : src[i] = NewLine}

HaveHeader(src) == Len(src) >= FRAME_HEADER_LEN

TooLong_never(n) == FALSE                   \* mutant: any u16 will do
TooLong(n) == n > MAX_PAYLOAD_LEN

\* The buffer begins with FRAME_START.
decode_header(src) ==
  LET rest == advance(src, FRAME_HEADER_LEN)
  IN
  IF ~HaveHeader(src) THEN Result(Wait, src, <<>>)
  ELSE IF TooLong(frame_len(src))
    THEN Result(Wait, rest, <<InvalidLength>>)
    ELSE Result(Frame(frame_len(src)), rest, <<>>)

\* Without a start everything up to the last end of line is dropped.
Lines_all(src) == Len(src)                  \* mutant: all of it is
Lines(src) == Max(LinesEnd(src) \cup {0})

decode_wait(src) ==
  IF StartsAt(src) # {}
    THEN decode_header(advance(src, Min(StartsAt(src)) - 1))
    ELSE Result(Wait, advance(src, Lines(src)), <<>>)

HaveFrame_late(len, src) ==                 \* mutant: waits for the next header
  Len(src) >= len + CRC_LEN + FRAME_HEADER_LEN
HaveFrame(len, src) == Len(src) >= len + CRC_LEN

Checked_blindly(data, crc) == Ok(data)      \* mutant: no check
Checked(data, crc) == IF checksum(data) = crc THEN Ok(data) ELSE InvalidCRC

decode_frame(len, src) ==
  LET data == SubSeq(src, 1, len)
      crc  == from_le_bytes(src[len + 1], src[len + 2])
  IN
  IF ~HaveFrame(len, src) THEN Result(Frame(len), src, <<>>)
  ELSE Result(Wait, advance(src, len + CRC_LEN), <<Checked(data, crc)>>)

decode(state, src) ==
  IF state.frame THEN decode_frame(state.len, src) ELSE decode_wait(src)

-----------------------------------------------------------------------------
VARIABLES
  pieces,    (* what the device sends in this behaviour                     *)
  hit,       (* the byte of it that is damaged, 0 if none                   *)
  stream,    (* the bytes that arrive                                       *)
  pos,       (* how many of them have been read                             *)
  hungup,    (* the device is gone: a read returns 0 after what it sent     *)
  state,     (* FrameState                                                  *)
  src,       (* the BytesMut buffer                                         *)
  readable,  (* FramedRead: decode before reading again                     *)
  eof,       (* FramedRead: the last read returned 0                        *)
  out,       (* the items returned so far                                   *)
  failed     (* try_next has returned Err: the loop of SerialTask ends      *)

lineVars == <<pieces, hit, stream>>
vars == <<lineVars, pos, hungup, state, src, readable, eof, out, failed>>

Wire(ps) ==
  FlattenSeq([k \in DOMAIN ps |->
                IF ps[k].kind = "frame" THEN encode(ps[k].bytes) ELSE ps[k].bytes])

Init ==
  /\ pieces \in Traffic
  /\ \/ hit = 0 /\ stream = Wire(pieces)
     \/ \E wire \in {Wire(pieces)} : \E i \in 1 .. Len(wire), b \in Wrong :
          /\ pieces \in Damageable /\ wire[i] # b
          /\ hit = i /\ stream = [wire EXCEPT ![i] = b]
  /\ pos = 0 /\ hungup = FALSE
  /\ state = Wait /\ src = <<>>
  /\ readable = FALSE /\ eof = FALSE
  /\ out = <<>> /\ failed = FALSE

\* poll_read_buf returned n bytes.
Read(n) ==
  /\ ~failed /\ ~readable /\ pos + n <= Len(stream)
  /\ pos' = pos + n
  /\ src' = src \o SubSeq(stream, pos + 1, pos + n)
  /\ readable' = TRUE /\ eof' = FALSE
  /\ UNCHANGED <<lineVars, hungup, state, out, failed>>

\* It returned 0: decode what is left.  Once eof is set, next returns None.
ReadZero ==
  /\ ~failed /\ ~readable /\ ~eof /\ hungup
  /\ readable' = TRUE /\ eof' = TRUE
  /\ UNCHANGED <<lineVars, pos, hungup, state, src, out, failed>>

\* decode, or decode_eof, which calls it and fails when it returns None and
\* bytes are left.
Decode ==
  LET result == decode(state, src)
  IN
  /\ ~failed /\ readable
  /\ state' = result.state /\ src' = result.src
  /\ out' = out \o result.items
  /\ readable' = (result.items # <<>>)
  /\ failed' = (eof /\ result.items = <<>> /\ result.src # <<>>)
  /\ UNCHANGED <<lineVars, pos, hungup, eof>>

\* The device is unplugged: nothing more arrives.
HangUp ==
  /\ MayHangUp /\ ~hungup
  /\ hungup' = TRUE
  /\ stream' = SubSeq(stream, 1, pos)
  /\ UNCHANGED <<pieces, hit, pos, state, src, readable, eof, out, failed>>

\* The loop has ended, or waits for bytes nobody sends.
Quiet ==
  /\ failed \/ (~readable /\ pos = Len(stream) /\ (hungup => eof))
  /\ UNCHANGED vars

Next ==
  \/ \E n \in Cuts : Read(n)
  \/ ReadZero \/ Decode \/ HangUp \/ Quiet

Spec == Init /\ [][Next]_vars

(* The loop polls the codec again after every item, and reads while there   *)
(* are bytes to be read.                                                    *)
FairSpec == Spec /\ WF_vars(Decode) /\ WF_vars(\E n \in Cuts : Read(n))

-----------------------------------------------------------------------------
(* The reference: the items a run of bytes stands for, found by position in *)
(* the whole of it, with no state, no buffer and no reads.                  *)

\* The complete headers, wherever a start is.
Headers(bytes) ==
  {i \in StartsAt(bytes) : i + FRAME_HEADER_LEN - 1 <= Len(bytes)}

\* The item of the header at i, if it is all there, and the position at which it ends.
ItemAt(bytes, i) ==
  LET n == from_le_bytes(bytes[i + 4], bytes[i + 5])
      data == SubSeq(bytes, i + 6, i + n + 5)
      crc == from_le_bytes(bytes[i + n + 6], bytes[i + n + 7])
  IN
  IF TooLong(n) THEN [item |-> <<InvalidLength>>, end |-> i + 5]
  ELSE IF i + n + 7 > Len(bytes) THEN [item |-> <<>>, end |-> Len(bytes)]
  ELSE [item |-> <<IF checksum(data) = crc THEN Ok(data) ELSE InvalidCRC>>,
        end |-> i + n + 7]

FirstItem(bytes) ==
  IF Headers(bytes) = {} THEN [item |-> <<>>, end |-> Len(bytes)]
  ELSE ItemAt(bytes, Min(Headers(bytes)))

Items[bytes \in Seq(Byte)] ==
  LET first == FirstItem(bytes)
  IN IF first.item = <<>> THEN <<>>
     ELSE first.item \o Items[advance(bytes, first.end)]

\* What the codec and its buffer stand for.
HeldIn(st, buf) ==
  (IF st.frame THEN FRAME_START \o to_le_bytes(st.len) ELSE <<>>) \o buf
Held == HeldIn(state, src)

IsFrame(p) == p.kind = "frame"
IsOk(item) == item.ok
Payloads(ps) ==
  FlattenSeq([k \in DOMAIN ps |-> IF IsFrame(ps[k]) THEN <<Ok(ps[k].bytes)>> ELSE <<>>])
Later(ps, j) == SubSeq(ps, j, Len(ps))
Begin(ps, j) == Len(Wire(ps)) - Len(Wire(Later(ps, j))) + 1
StartFree(ps) ==
  \A i \in StartsAt(Wire(ps)) : \E j \in DOMAIN ps : IsFrame(ps[j]) /\ i = Begin(ps, j)

TypeOK ==
  /\ stream \in Seq(Byte) /\ pos \in 0 .. Len(stream)
  /\ state \in {Wait} \cup {Frame(n) : n \in 0 .. MAX_PAYLOAD_LEN}
  /\ src \in Seq(Byte)
  /\ {hungup, readable, eof, failed} \subseteq BOOLEAN
  /\ out \in Seq(Item)

\* How the bytes are cut into reads does not matter: what has been returned,
\* what is in the buffer and what is still to come are together the items of
\* the whole line, so none is lost, made up, repeated or out of order, whether
\* or not the line is damaged.  A read may end inside a start, a header, a
\* length or a checksum.
CutsDontMatter ==
  out \o Items[Held \o SubSeq(stream, pos + 1, Len(stream))] = Items[stream]

\* On an undamaged line every frame sent is delivered, in order, with its data
\* and with no error between, also a frame whose data contains a start and
\* text cut anywhere.
FramesArrive ==
  hit = 0 /\ ~hungup /\ (\A k \in DOMAIN pieces : pieces[k].kind # "noise")
    => out \o Items[Held \o SubSeq(stream, pos + 1, Len(stream))]
         = Payloads(pieces)

\* The damaged byte is in a header, and what that header announces happens to carry the
\* right checksum: the checksum does not cover the header.
PassedByChance ==
  \E i \in Headers(stream) :
    LET item == ItemAt(stream, i).item
    IN hit \in i .. i + FRAME_HEADER_LEN - 1 /\ item # <<>> /\ IsOk(item[1])

\* A damaged byte never turns into data nobody sent, unless data or checksums
\* looked like the start of a frame before, or a damaged header passes by chance.
NothingForged ==
  StartFree(pieces) /\ ~PassedByChance =>
    \A k \in DOMAIN out : IsOk(out[k]) =>
      \E j \in DOMAIN pieces : IsFrame(pieces[j]) /\ pieces[j].bytes = out[k].data

\* One damaged byte costs a bounded stretch of the line, because a length
\* beyond the maximum is refused: from the first frame that begins MAX_PAYLOAD_LEN + 8
\* bytes or more after it, every frame is delivered and nothing else is returned, if no
\* data or checksum looks like a start.
Resync ==
  hit # 0 /\ ~hungup /\ StartFree(pieces) =>
    LET returned == out \o Items[Held \o SubSeq(stream, pos + 1, Len(stream))]
    IN \A j \in DOMAIN pieces :
         IsFrame(pieces[j]) /\ Begin(pieces, j) >= hit + MAX_PAYLOAD_LEN + 8 =>
           \E n \in 0 .. Len(returned) : advance(returned, n) = Payloads(Later(pieces, j))

\* What the comment in decode says it checks (framed_codec.rs:146, "Check if we
\* have full frame"): when it asks for more bytes the frame is not all there.
NotHeldBack ==
  ~readable => Items[Held] = <<>>

\* The codec has seen a header, the rest of the frame is in the buffer, and it
\* is not called again before the next read.
HeldBack == ~readable /\ state.frame /\ Len(src) >= state.len + CRC_LEN

\* What is held back comes out with the next bytes, whatever they are, unless
\* the device is unplugged first.
MoreBytesRelease ==
  \A n \in 0 .. MaxItems :
    (Len(out) = n /\ HeldBack /\ pos < Len(stream))
      ~> (Len(out) > n \/ hungup)
=============================================================================
