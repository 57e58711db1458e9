----------------------------- MODULE Crc16Check -----------------------------
(***************************************************************************)
(* crc16, fed byte by byte, against polynomial division over GF(2).        *)
(***************************************************************************)
EXTENDS Crc16

CONSTANTS
  Bytes,    (* bytes the data is made of                                    *)
  MaxLen    (* bound: length of the data                                    *)

ASSUME ConstAssumption == Bytes \subseteq 0 .. 255 /\ MaxLen \in Nat

-----------------------------------------------------------------------------
VARIABLES data, crc
vars == <<data, crc>>

Init == data = <<>> /\ crc = 0 .. 15

Feed(byte) ==
  /\ Len(data) < MaxLen
  /\ data' = Append(data, byte)
  /\ crc' = crc_byte(crc, byte)

Next == \E byte \in Bytes : Feed(byte)

Spec == Init /\ [][Next]_vars

-----------------------------------------------------------------------------
(* The reference: polynomials over GF(2) as sets of exponents.              *)

Plus(p, q) == {e \in p \cup q : (e \in p) # (e \in q)}
Times(p, n) == {e + n : e \in p}                  \* multiplication by x^n
Divisor == {16, 12, 5, 0}                         \* x^16 + x^12 + x^5 + 1

\* The data as a polynomial, the first byte highest, times x^16, with the first
\* sixteen bits inverted (the initial value 0xFFFF).
Message(d) ==
  Plus(UNION {Times(Bits(d[k]), 8 * (Len(d) - k) + 16) : k \in 1 .. Len(d)},
       {8 * Len(d) + e : e \in 0 .. 15})

\* Its remainder modulo the divisor.
Remainder(message, deg) ==
  LET rem[n \in 15 .. deg] ==     \* after dividing the terms from x^deg to x^(n+1)
        IF n = deg THEN message
        ELSE LET p == rem[n + 1]
             IN IF n + 1 \in p THEN Plus(p, Times(Divisor, n + 1 - 16)) ELSE p
  IN rem[15]

\* The register is the CRC-16 with polynomial 0x1021 and initial value 0xFFFF of
\* the bytes fed so far, computed bit by bit in 16 bits with no table.
IsCrc ==
  /\ crc = Remainder(Message(data), 8 * Len(data) + 16)
  /\ crc16(data) = Number(crc)
=============================================================================
