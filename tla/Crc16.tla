-------------------------------- MODULE Crc16 --------------------------------
(***************************************************************************)
(* crc16 of src/framed_codec.rs: one byte after the other, eight shifts    *)
(* each, in a u16.  A number is the set of its bits, so that ^ is the      *)
(* symmetric difference and << moves the bits up.  Module Crc16Check       *)
(* compares it with its definition.                                        *)
(***************************************************************************)
EXTENDS Integers, Sequences

Bits(byte) == {e \in 0 .. 7 : (byte \div 2^e) % 2 = 1}

Number(reg) ==
  LET from[e \in 0 .. 16] ==
        IF e = 16 THEN 0 ELSE 2 * from[e + 1] + (IF e \in reg THEN 1 ELSE 0)
  IN from[0]

Xor(p, q) == (p \ q) \cup (q \ p)

\* A u16 keeps the low 16 bits of a shift.
shl(reg, n) == {e + n : e \in reg} \cap 0 .. 15

Poly == {12, 5, 0}                          \* 0x1021

shift(reg) == IF 15 \in reg THEN Xor(shl(reg, 1), Poly) ELSE shl(reg, 1)

crc_byte_low(reg, byte) ==                  \* mutant: the byte is not shifted up
  LET after[k \in 0 .. 8] == IF k = 0 THEN Xor(reg, Bits(byte)) ELSE shift(after[k - 1])
  IN after[8]

crc_byte(reg, byte) ==
  LET after[k \in 0 .. 8] ==
        IF k = 0 THEN Xor(reg, shl(Bits(byte), 8)) ELSE shift(after[k - 1])
  IN after[8]

crc16(data) ==
  LET upto[k \in 0 .. Len(data)] ==
        IF k = 0 THEN 0 .. 15 ELSE crc_byte(upto[k - 1], data[k])
  IN Number(upto[Len(data)])
=============================================================================
