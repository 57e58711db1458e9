---------------------------- MODULE Crc16Proofs ----------------------------
(***************************************************************************)
(* Theorems about crc16, for data of any length: it is the remainder of    *)
(* the division, and it sees one wrong byte.                               *)
(***************************************************************************)
EXTENDS Crc16Check, DataInduction, SequenceTheorems

Byte == 0 .. 255
Reg == SUBSET (0 .. 15)

-----------------------------------------------------------------------------
(* One byte.                                                                *)

\* Eight shifts.
Eight(r) == shift(shift(shift(shift(shift(shift(shift(shift(r))))))))

LEMMA ShiftTyped == \A r \in Reg : shift(r) \in Reg
<1>1. \A r : shl(r, 1) \in Reg
  BY DEF shl, Reg
<1>2. Poly \in Reg
  BY DEF Poly, Reg
<1>3. \A p, q \in Reg : Xor(p, q) \in Reg
  BY DEF Xor, Reg
<1> QED
  BY <1>1, <1>2, <1>3 DEF shift

LEMMA BitsTyped == \A b : Bits(b) \subseteq 0 .. 7 /\ shl(Bits(b), 8) \in Reg
BY DEF Bits, shl, Reg

LEMMA CrcByte ==
  ASSUME NEW r \in Reg, NEW b
  PROVE  /\ crc_byte(r, b) = Eight(Xor(r, shl(Bits(b), 8)))
         /\ Xor(r, shl(Bits(b), 8)) \in Reg /\ crc_byte(r, b) \in Reg
<1> DEFINE a == Xor(r, shl(Bits(b), 8))
           H == [k \in 1 .. 8 |-> [p \in Reg |-> shift(p)]]
           Is(f) == f = [k \in 0 .. 8 |-> IF k = 0 THEN a ELSE shift(f[k - 1])]
           F == CHOOSE f : Is(f)
<1>1. a \in Reg
  BY BitsTyped DEF Xor, Reg
<1> HIDE DEF a
<1>2. \E f \in [0 .. 8 -> Reg] : f[0] = a /\ \A k \in 1 .. 8 : f[k] = H[k][f[k - 1]]
  <2>1. Upward(Reg, 8, a, H)
    <3>1. H \in [1 .. 8 -> [Reg -> Reg]] /\ 8 \in Nat
      BY ShiftTyped
    <3> HIDE DEF H
    <3> QED
      BY <1>1, <3>1 DEF Upward
  <2> HIDE DEF H
  <2>2. UpwardHolds(Reg, 8, a, H)
    BY <2>1, StepsUp, Zenon
  <2> QED
    BY <2>2, Zenon DEF UpwardHolds
<1>3. PICK f \in [0 .. 8 -> Reg] : f[0] = a /\ \A k \in 1 .. 8 : f[k] = H[k][f[k - 1]]
  BY <1>2
<1>4. \A k \in 0 .. 8 : f[k] = IF k = 0 THEN a ELSE shift(f[k - 1])
  <2> TAKE k \in 0 .. 8
  <2>1. CASE k = 0
    BY <1>3, <2>1
  <2>2. CASE k # 0
    <3>1. k \in 1 .. 8 /\ k - 1 \in 0 .. 8
      BY <2>2
    <3>2. f[k] = H[k][f[k - 1]] /\ f[k - 1] \in Reg
      BY <1>3, <3>1
    <3> QED
      BY <2>2, <3>1, <3>2
  <2> QED
    BY <2>1, <2>2
<1>5. Is(f)
  BY <1>4
<1>6. Is(F)
  <2>1. \E g : Is(g)
    BY <1>5
  <2> HIDE DEF Is
  <2> QED
    BY <2>1
<1>7. crc_byte(r, b) = F[8]
  BY Zenon DEF crc_byte, a
<1> HIDE DEF F
<1>8. \A k \in 0 .. 8 : F[k] = IF k = 0 THEN a ELSE shift(F[k - 1])
  BY <1>6, Zenon
<1>9. F[0] = a /\ \A k \in 1 .. 8 : F[k] = shift(F[k - 1])
  BY <1>8
<1>10. /\ F[1] = shift(F[0]) /\ F[2] = shift(F[1]) /\ F[3] = shift(F[2]) /\ F[4] = shift(F[3])
       /\ F[5] = shift(F[4]) /\ F[6] = shift(F[5]) /\ F[7] = shift(F[6]) /\ F[8] = shift(F[7])
  BY <1>9
<1>11. F[8] = Eight(a)
  BY <1>9, <1>10 DEF Eight
<1>12. Eight(a) \in Reg
  BY <1>1, ShiftTyped DEF Eight
<1> QED
  BY <1>1, <1>7, <1>11, <1>12 DEF a

-----------------------------------------------------------------------------
(* Nothing of a byte or of the register is lost on the way.                  *)

LEMMA ShlBits ==
  ASSUME NEW p, p \subseteq Int, NEW n \in Int, NEW e \in Int
  PROVE  e \in shl(p, n) <=> e \in 0 .. 15 /\ e - n \in p
<1>1. ASSUME e \in shl(p, n) PROVE e \in 0 .. 15 /\ e - n \in p
  <2>1. e \in 0 .. 15 /\ e \in {f + n : f \in p}
    BY <1>1 DEF shl
  <2>2. PICK f \in p : e = f + n
    BY <2>1
  <2>3. e - n = f
    BY <2>2
  <2> QED
    BY <2>1, <2>3
<1>2. ASSUME e \in 0 .. 15, e - n \in p PROVE e \in shl(p, n)
  <2>1. e = (e - n) + n
    OBVIOUS
  <2> QED
    BY <1>2, <2>1 DEF shl
<1> QED
  BY <1>1, <1>2

\* A shift can be undone: bit 0 says which of its two ways it went.
LEMMA ShiftOnce == \A p, q \in Reg : shift(p) = shift(q) => p = q
<1> SUFFICES ASSUME NEW p \in Reg, NEW q \in Reg, shift(p) = shift(q)
             PROVE  p = q
  OBVIOUS
<1> DEFINE In(r, e) == IF 15 \in r /\ e \in Poly THEN e - 1 \notin r ELSE e - 1 \in r
<1>1. ASSUME NEW r \in Reg, NEW e \in 0 .. 15 PROVE e \in shift(r) <=> In(r, e)
  <2>1. r \subseteq Int /\ e \in Int /\ 1 \in Int
    BY DEF Reg
  <2>2. e \in shl(r, 1) <=> e - 1 \in r
    BY <2>1, ShlBits, Zenon
  <2>3. CASE 15 \in r
    BY <2>2, <2>3 DEF shift, Xor
  <2>4. CASE 15 \notin r
    BY <2>2, <2>4 DEF shift
  <2> QED
    BY <2>3, <2>4
<1>2. \A r \in Reg : -1 \notin r
  BY DEF Reg
<1>3. \A r \in Reg : 0 \in shift(r) <=> 15 \in r
  <2> TAKE r \in Reg
  <2>1. 0 \in 0 .. 15 /\ 0 - 1 = -1 /\ 0 \in Poly
    BY DEF Poly
  <2>2. 0 \in shift(r) <=> In(r, 0)
    BY <1>1, <2>1
  <2> QED
    BY <1>2, <2>1, <2>2
<1>4. 15 \in p <=> 15 \in q
  BY <1>3
<1>5. ASSUME NEW e \in 0 .. 14 PROVE e \in p <=> e \in q
  <2>1. e + 1 \in 0 .. 15 /\ (e + 1) - 1 = e
    OBVIOUS
  <2>2. (e + 1 \in shift(p) <=> In(p, e + 1)) /\ (e + 1 \in shift(q) <=> In(q, e + 1))
    BY <1>1, <2>1
  <2> QED
    BY <1>4, <2>1, <2>2
<1>6. \A e \in 0 .. 15 : e \in p <=> e \in q
  <2>1. \A e \in 0 .. 15 : e = 15 \/ e \in 0 .. 14
    OBVIOUS
  <2> QED
    BY <1>4, <1>5, <2>1
<1> QED
  BY <1>6 DEF Reg

LEMMA EightOnce == \A p, q \in Reg : Eight(p) = Eight(q) => p = q
BY ShiftOnce, ShiftTyped, SMTT(60) DEF Eight

LEMMA BitsOnce == \A b, c \in Byte : Bits(b) = Bits(c) => b = c
<1> SUFFICES ASSUME NEW b \in Byte, NEW c \in Byte, Bits(b) = Bits(c)
             PROVE  b = c
  OBVIOUS
<1>1. b \in Nat /\ b <= 255 /\ c \in Nat /\ c <= 255
  BY DEF Byte
<1>2. \A e \in 0 .. 7 : (b \div 2^e) % 2 = 1 <=> (c \div 2^e) % 2 = 1
  BY DEF Bits
<1>3. /\ 0 \in 0 .. 7 /\ 1 \in 0 .. 7 /\ 2 \in 0 .. 7 /\ 3 \in 0 .. 7
      /\ 4 \in 0 .. 7 /\ 5 \in 0 .. 7 /\ 6 \in 0 .. 7 /\ 7 \in 0 .. 7
  OBVIOUS
<1>4. /\ (b \div 2^0) % 2 = 1 <=> (c \div 2^0) % 2 = 1
      /\ (b \div 2^1) % 2 = 1 <=> (c \div 2^1) % 2 = 1
      /\ (b \div 2^2) % 2 = 1 <=> (c \div 2^2) % 2 = 1
      /\ (b \div 2^3) % 2 = 1 <=> (c \div 2^3) % 2 = 1
      /\ (b \div 2^4) % 2 = 1 <=> (c \div 2^4) % 2 = 1
      /\ (b \div 2^5) % 2 = 1 <=> (c \div 2^5) % 2 = 1
      /\ (b \div 2^6) % 2 = 1 <=> (c \div 2^6) % 2 = 1
      /\ (b \div 2^7) % 2 = 1 <=> (c \div 2^7) % 2 = 1
  BY <1>2, <1>3, Zenon
<1>5. /\ 2^0 = 1 /\ 2^1 = 2 /\ 2^2 = 4 /\ 2^3 = 8 /\ 2^4 = 16 /\ 2^5 = 32 /\ 2^6 = 64 /\ 2^7 = 128
  OBVIOUS
<1>6. /\ (b \div 1) % 2 = 1 <=> (c \div 1) % 2 = 1
      /\ (b \div 2) % 2 = 1 <=> (c \div 2) % 2 = 1
      /\ (b \div 4) % 2 = 1 <=> (c \div 4) % 2 = 1
      /\ (b \div 8) % 2 = 1 <=> (c \div 8) % 2 = 1
      /\ (b \div 16) % 2 = 1 <=> (c \div 16) % 2 = 1
      /\ (b \div 32) % 2 = 1 <=> (c \div 32) % 2 = 1
      /\ (b \div 64) % 2 = 1 <=> (c \div 64) % 2 = 1
      /\ (b \div 128) % 2 = 1 <=> (c \div 128) % 2 = 1
  BY <1>4, <1>5
<1>7. ASSUME NEW n \in Nat, n <= 255
      PROVE  /\ n \div 128 \in {0, 1}
             /\ n \div 64 = 2 * (n \div 128) + ((n \div 64) % 2)
             /\ n \div 32 = 2 * (n \div 64) + ((n \div 32) % 2)
             /\ n \div 16 = 2 * (n \div 32) + ((n \div 16) % 2)
             /\ n \div 8 = 2 * (n \div 16) + ((n \div 8) % 2)
             /\ n \div 4 = 2 * (n \div 8) + ((n \div 4) % 2)
             /\ n \div 2 = 2 * (n \div 4) + ((n \div 2) % 2)
             /\ n = 2 * (n \div 2) + (n % 2) /\ n \div 1 = n
  BY <1>7
<1>8. \A n, m \in Nat : (n % 2 = 1 <=> m % 2 = 1) => n % 2 = m % 2
  OBVIOUS
<1>9. b \div 128 = c \div 128
  BY <1>1, <1>6, <1>7
<1>10. b \div 64 = c \div 64
  BY <1>1, <1>6, <1>7, <1>9
<1>11. b \div 32 = c \div 32
  BY <1>1, <1>6, <1>7, <1>10
<1>12. b \div 16 = c \div 16
  BY <1>1, <1>6, <1>7, <1>11
<1>13. b \div 8 = c \div 8
  BY <1>1, <1>6, <1>7, <1>12
<1>14. b \div 4 = c \div 4
  BY <1>1, <1>6, <1>7, <1>13
<1>15. b \div 2 = c \div 2
  BY <1>1, <1>6, <1>7, <1>14
<1> QED
  BY <1>1, <1>6, <1>7, <1>15

\* crc_byte takes different registers, and different bytes, to different registers.
LEMMA CrcByteOnce ==
  ASSUME NEW r \in Reg, NEW s \in Reg, NEW b \in Byte, NEW c \in Byte,
         crc_byte(r, b) = crc_byte(s, c)
  PROVE  (r = s <=> b = c)
<1> DEFINE B == shl(Bits(b), 8)
           C == shl(Bits(c), 8)
<1>1. Xor(r, B) = Xor(s, C)
  <2>1. /\ crc_byte(r, b) = Eight(Xor(r, B)) /\ Xor(r, B) \in Reg
        /\ crc_byte(s, c) = Eight(Xor(s, C)) /\ Xor(s, C) \in Reg
    BY CrcByte
  <2> QED
    BY <2>1, EightOnce
<1>2. B = C => Bits(b) = Bits(c)
  <2> SUFFICES ASSUME B = C PROVE Bits(b) = Bits(c)
    OBVIOUS
  <2>1. Bits(b) \subseteq 0 .. 7 /\ Bits(c) \subseteq 0 .. 7
    BY BitsTyped
  <2>2. ASSUME NEW e \in 0 .. 7 PROVE e \in Bits(b) <=> e \in Bits(c)
    <3>1. e + 8 \in Int /\ e + 8 \in 0 .. 15 /\ (e + 8) - 8 = e /\ 8 \in Int
          /\ Bits(b) \subseteq Int /\ Bits(c) \subseteq Int
      BY <2>1
    <3>2. e + 8 \in B <=> e + 8 \in 0 .. 15 /\ (e + 8) - 8 \in Bits(b)
      BY <3>1, ShlBits
    <3>3. e + 8 \in C <=> e + 8 \in 0 .. 15 /\ (e + 8) - 8 \in Bits(c)
      BY <3>1, ShlBits
    <3> HIDE DEF B, C
    <3> QED
      BY <3>1, <3>2, <3>3
  <2> QED
    BY <2>1, <2>2
<1>3. B = C => b = c
  BY <1>2, BitsOnce
<1>4. b = c => B = C
  OBVIOUS
<1> HIDE DEF B, C
<1>5. r = s => B = C
  BY <1>1 DEF Xor
<1>6. B = C => r = s
  BY <1>1 DEF Xor
<1> QED
  BY <1>3, <1>4, <1>5, <1>6

-----------------------------------------------------------------------------
(* The number of a register.                                                *)

Digit(reg, k) == IF k \in reg THEN 1 ELSE 0

\* f has the numbers of the bits from each place up.
Counts(reg, f) ==
  /\ f \in [0 .. 16 -> Nat] /\ f[16] = 0
  /\ \A k \in 0 .. 15 : f[k] = 2 * f[k + 1] + Digit(reg, k)

LEMMA NumberOf ==
  ASSUME NEW reg
  PROVE  \E f : Counts(reg, f) /\ Number(reg) = f[0]
<1> DEFINE H == [k \in 0 .. 16 - 1 |-> [n \in Nat |-> 2 * n + Digit(reg, k)]]
           Is(f) == f = [e \in 0 .. 16 |-> IF e = 16 THEN 0
                                           ELSE 2 * f[e + 1] + (IF e \in reg THEN 1 ELSE 0)]
           F == CHOOSE f : Is(f)
<1>1. Downward(Nat, 0, 16, 0, H)
  <2>1. \A k \in 0 .. 15 : \A n \in Nat : 2 * n + Digit(reg, k) \in Nat
    BY DEF Digit
  <2>2. H \in [0 .. 16 - 1 -> [Nat -> Nat]]
    BY <2>1
  <2> HIDE DEF H
  <2>3. 0 \in Int /\ 16 \in Int /\ 0 <= 16 /\ 0 \in Nat
    OBVIOUS
  <2> QED
    BY <2>2, <2>3, Zenon DEF Downward
<1>2. DownwardHolds(Nat, 0, 16, 0, H)
  <2> HIDE DEF H
  <2> QED
    BY <1>1, StepsDown, Zenon
<1>3. PICK f \in [0 .. 16 -> Nat] : f[16] = 0 /\ \A k \in 0 .. 16 - 1 : f[k] = H[k][f[k + 1]]
  <2> HIDE DEF H
  <2> QED
    BY <1>2, Zenon DEF DownwardHolds
<1>4. \A e \in 0 .. 16 : f[e] = IF e = 16 THEN 0 ELSE 2 * f[e + 1] + (IF e \in reg THEN 1 ELSE 0)
  <2> TAKE e \in 0 .. 16
  <2>1. CASE e = 16
    BY <1>3, <2>1
  <2>2. CASE e # 16
    <3>1. e \in 0 .. 16 - 1 /\ e + 1 \in 0 .. 16
      BY <2>2
    <3>2. f[e] = H[e][f[e + 1]] /\ f[e + 1] \in Nat
      BY <1>3, <3>1
    <3>3. H[e][f[e + 1]] = 2 * f[e + 1] + Digit(reg, e)
      BY <3>1, <3>2
    <3> QED
      BY <2>2, <3>2, <3>3 DEF Digit
  <2> QED
    BY <2>1, <2>2
<1>5. Is(f)
  BY <1>3, <1>4, Zenon
<1>6. Is(F)
  <2>1. \E g : Is(g)
    BY <1>5
  <2> HIDE DEF Is
  <2> QED
    BY <2>1
<1>7. Number(reg) = F[0]
  BY Zenon DEF Number
<1> HIDE DEF F
<1>8. \A e \in 0 .. 16 : F[e] = IF e = 16 THEN 0 ELSE 2 * F[e + 1] + (IF e \in reg THEN 1 ELSE 0)
  BY <1>6, Zenon
<1>9. F[16] = 0 /\ \A k \in 0 .. 15 : F[k] = 2 * F[k + 1] + Digit(reg, k)
  BY <1>8 DEF Digit
\* It is the one that was put together.
<1>10. \A e \in 0 .. 16 : F[e] = f[e]
  <2> DEFINE I == {i \in Nat : 16 - i \in 0 .. 16 => F[16 - i] = f[16 - i]}
  <2>1. 0 \in I
    BY <1>3, <1>9
  <2>2. ASSUME NEW i \in Nat, i \in I PROVE i + 1 \in I
    <3> SUFFICES ASSUME 16 - (i + 1) \in 0 .. 16 PROVE F[16 - (i + 1)] = f[16 - (i + 1)]
      OBVIOUS
    <3> DEFINE k == 16 - (i + 1)
    <3>1. k \in 0 .. 15 /\ k \in 0 .. 16 /\ k # 16 /\ k + 1 = 16 - i /\ 16 - i \in 0 .. 16
      OBVIOUS
    <3>2. F[k + 1] = f[k + 1]
      BY <2>2, <3>1
    <3> HIDE DEF k
    <3>3. f[k] = 2 * f[k + 1] + Digit(reg, k)
      BY <1>4, <3>1 DEF Digit
    <3>4. F[k] = f[k]
      BY <1>9, <3>1, <3>2, <3>3
    <3> QED
      BY <3>4 DEF k
  <2> HIDE DEF I
  <2>3. \A e \in 0 .. 16 : 16 - e \in Nat /\ 16 - (16 - e) = e
    OBVIOUS
  <2>4. Nat \subseteq I
    BY <2>1, <2>2, UpInduction
  <2>5. \A e \in 0 .. 16 : 16 - e \in I
    BY <2>3, <2>4
  <2> QED
    BY <2>3, <2>5 DEF I
<1>11. F[0] = f[0]
  BY <1>10
<1>12. \A k \in 0 .. 15 : f[k] = 2 * f[k + 1] + Digit(reg, k)
  <2> TAKE k \in 0 .. 15
  <2>1. k \in 0 .. 16 /\ k # 16
    OBVIOUS
  <2> QED
    BY <1>4, <2>1 DEF Digit
<1> QED
  BY <1>3, <1>7, <1>11, <1>12 DEF Counts

LEMMA DigitIs == \A reg, k : Digit(reg, k) \in 0 .. 1
BY DEF Digit

\* It is a u16.
LEMMA NumberTyped ==
  ASSUME NEW reg
  PROVE  Number(reg) \in Nat /\ Number(reg) <= 65535
<1>1. PICK f : Counts(reg, f) /\ Number(reg) = f[0]
  BY NumberOf
<1>2. f[16] = 0 /\ \A k \in 0 .. 15 : f[k] \in Nat /\ f[k] <= 2 * f[k + 1] + 1
  <2>1. f \in [0 .. 16 -> Nat] /\ f[16] = 0
    BY <1>1 DEF Counts
  <2>2. ASSUME NEW k \in 0 .. 15 PROVE f[k] \in Nat /\ f[k] <= 2 * f[k + 1] + 1
    <3>1. f[k] = 2 * f[k + 1] + Digit(reg, k)
      BY <1>1 DEF Counts
    <3>2. k \in 0 .. 16 /\ k + 1 \in 0 .. 16
      OBVIOUS
    <3>3. f[k] \in Nat /\ f[k + 1] \in Nat
      BY <2>1, <3>2
    <3> QED
      BY <3>1, <3>3, DigitIs
  <2> QED
    BY <2>1, <2>2
<1>3. f[15] <= 1 /\ f[14] <= 3 /\ f[13] <= 7 /\ f[12] <= 15
  BY <1>2
<1>4. f[11] <= 31 /\ f[10] <= 63 /\ f[9] <= 127 /\ f[8] <= 255
  BY <1>2, <1>3
<1>5. f[7] <= 511 /\ f[6] <= 1023 /\ f[5] <= 2047 /\ f[4] <= 4095
  BY <1>2, <1>4
<1>6. f[3] <= 8191 /\ f[2] <= 16383 /\ f[1] <= 32767 /\ f[0] <= 65535
  BY <1>2, <1>5
<1>7. f[0] \in Nat
  BY <1>2
<1> QED
  BY <1>1, <1>6, <1>7

\* Two registers with one number are one.
LEMMA NumberOnce == \A p, q \in Reg : Number(p) = Number(q) => p = q
<1> SUFFICES ASSUME NEW p \in Reg, NEW q \in Reg, Number(p) = Number(q)
             PROVE  p = q
  OBVIOUS
<1>1. PICK f : Counts(p, f) /\ Number(p) = f[0]
  BY NumberOf
<1>2. PICK g : Counts(q, g) /\ Number(q) = g[0]
  BY NumberOf
<1>3. ASSUME NEW k \in 0 .. 15, f[k] = g[k]
      PROVE  f[k + 1] = g[k + 1] /\ (k \in p <=> k \in q)
  <2>1. f[k + 1] \in Nat /\ g[k + 1] \in Nat
    <3>1. k + 1 \in 0 .. 16
      OBVIOUS
    <3> QED
      BY <1>1, <1>2, <3>1 DEF Counts
  <2>2. 2 * f[k + 1] + Digit(p, k) = 2 * g[k + 1] + Digit(q, k)
    BY <1>1, <1>2, <1>3 DEF Counts
  <2>3. Digit(p, k) \in 0 .. 1 /\ Digit(q, k) \in 0 .. 1
    BY DigitIs
  <2>4. f[k + 1] = g[k + 1] /\ Digit(p, k) = Digit(q, k)
    BY <2>1, <2>2, <2>3
  <2> QED
    BY <2>4 DEF Digit
<1> DEFINE I == {k \in Nat : k \in 0 .. 15 => f[k] = g[k]}
<1>4. 0 \in I
  BY <1>1, <1>2
<1>5. ASSUME NEW k \in Nat, k \in I PROVE k + 1 \in I
  <2> SUFFICES ASSUME k + 1 \in 0 .. 15 PROVE f[k + 1] = g[k + 1]
    OBVIOUS
  <2>1. k \in 0 .. 15
    OBVIOUS
  <2> QED
    BY <1>3, <1>5, <2>1
<1> HIDE DEF I
<1>6. Nat \subseteq I
  BY <1>4, <1>5, UpInduction
<1>7. \A k \in 0 .. 15 : f[k] = g[k]
  BY <1>6 DEF I
<1>8. \A k \in 0 .. 15 : k \in p <=> k \in q
  BY <1>3, <1>7
<1> QED
  BY <1>8 DEF Reg

-----------------------------------------------------------------------------
(* Byte after byte.                                                         *)

IsUpto(d, f) ==
  f = [k \in 0 .. Len(d) |-> IF k = 0 THEN 0 .. 15 ELSE crc_byte(f[k - 1], d[k])]
Upto(d) == CHOOSE f : IsUpto(d, f)

\* The register after the bytes of d.
RegOf(d) == Upto(d)[Len(d)]

LEMMA UptoSteps ==
  ASSUME NEW d, Len(d) \in Nat
  PROVE  /\ Upto(d)[0] = 0 .. 15
         /\ \A k \in 1 .. Len(d) : Upto(d)[k] = crc_byte(Upto(d)[k - 1], d[k])
         /\ \A k \in 0 .. Len(d) : Upto(d)[k] \in Reg
         /\ crc16(d) = Number(RegOf(d)) /\ RegOf(d) \in Reg
<1> DEFINE N == Len(d)
           a == 0 .. 15
           H == [k \in 1 .. N |-> [r \in Reg |-> crc_byte(r, d[k])]]
           F == Upto(d)
<1>1. Upward(Reg, N, a, H)
  <2>1. a \in Reg /\ N \in Nat
    BY DEF Reg
  <2>2. \A k \in 1 .. N : \A r \in Reg : crc_byte(r, d[k]) \in Reg
    BY CrcByte, Zenon
  <2>3. H \in [1 .. N -> [Reg -> Reg]]
    BY <2>2
  <2> HIDE DEF H, N, a
  <2> QED
    BY <2>1, <2>3 DEF Upward
<1>2. UpwardHolds(Reg, N, a, H)
  <2> HIDE DEF H, N, a
  <2> QED
    BY <1>1, StepsUp, Zenon
<1>3. PICK f \in [0 .. N -> Reg] : f[0] = a /\ \A k \in 1 .. N : f[k] = H[k][f[k - 1]]
  <2> HIDE DEF H, N, a
  <2> QED
    BY <1>2, Zenon DEF UpwardHolds
<1> HIDE DEF a, N
<1>4. \A k \in 0 .. N : f[k] = IF k = 0 THEN a ELSE crc_byte(f[k - 1], d[k])
  <2> TAKE k \in 0 .. N
  <2>0. N \in Nat
    BY DEF N
  <2>1. CASE k = 0
    BY <1>3, <2>1
  <2>2. CASE k # 0
    <3>1. k \in 1 .. N /\ k - 1 \in 0 .. N
      BY <2>0, <2>2
    <3>2. f[k] = H[k][f[k - 1]] /\ f[k - 1] \in Reg
      BY <1>3, <3>1
    <3>3. H[k][f[k - 1]] = crc_byte(f[k - 1], d[k])
      BY <3>1, <3>2
    <3> QED
      BY <2>2, <3>2, <3>3
  <2> QED
    BY <2>1, <2>2
<1>5. IsUpto(d, f)
  BY <1>3, <1>4, Zenon DEF IsUpto, N, a
<1>6. IsUpto(d, F)
  BY <1>5, Zenon DEF Upto
<1>7. crc16(d) = Number(F[N])
  BY Zenon DEF crc16, Upto, IsUpto, N
<1> HIDE DEF F, H
<1>8. \A k \in 0 .. N : F[k] = IF k = 0 THEN a ELSE crc_byte(F[k - 1], d[k])
  BY <1>6, Zenon DEF IsUpto, N, a
<1>9. F[0] = a /\ \A k \in 1 .. N : F[k] = crc_byte(F[k - 1], d[k])
  <2>1. N \in Nat
    BY DEF N
  <2>2. 0 \in 0 .. N /\ \A k \in 1 .. N : k \in 0 .. N /\ k # 0
    BY <2>1
  <2> QED
    BY <1>8, <2>2, Zenon
<1>10. \A k \in 0 .. N : F[k] \in Reg
  <2> DEFINE I == {k \in Nat : k \in 0 .. N => F[k] \in Reg}
  <2>0. N \in Nat
    BY DEF N
  <2>1. 0 \in I
    BY <1>9 DEF Reg, a
  <2>2. ASSUME NEW k \in Nat, k \in I PROVE k + 1 \in I
    <3> SUFFICES ASSUME k + 1 \in 0 .. N PROVE F[k + 1] \in Reg
      OBVIOUS
    <3>1. k \in 0 .. N /\ k + 1 \in 1 .. N /\ (k + 1) - 1 = k
      BY <2>0
    <3>2. F[k] \in Reg
      BY <2>2, <3>1
    <3>3. F[k + 1] = crc_byte(F[k], d[k + 1])
      <4>1. F[k + 1] = crc_byte(F[(k + 1) - 1], d[k + 1])
        BY <1>9, <3>1, Zenon
      <4> QED
        BY <3>1, <4>1
    <3>4. crc_byte(F[k], d[k + 1]) \in Reg
      BY <3>2, CrcByte, Zenon
    <3> QED
      BY <3>3, <3>4
  <2> HIDE DEF I
  <2>3. Nat \subseteq I
    BY <2>1, <2>2, UpInduction
  <2> QED
    BY <2>0, <2>3 DEF I
<1>11. N \in 0 .. N
  BY DEF N
<1> QED
  BY <1>7, <1>9, <1>10, <1>11, Zenon DEF RegOf, F, N, a

\* Two sequences that begin alike have the same registers to there.
LEMMA UptoSame ==
  ASSUME NEW d, NEW c, Len(d) \in Nat, Len(c) \in Nat, NEW n \in 0 .. Len(d), n <= Len(c),
         \A k \in 1 .. n : d[k] = c[k]
  PROVE  Upto(d)[n] = Upto(c)[n]
<1> DEFINE I == {k \in Nat : k <= n => Upto(d)[k] = Upto(c)[k]}
<1>1. 0 \in I
  BY UptoSteps
<1>2. ASSUME NEW k \in Nat, k \in I PROVE k + 1 \in I
  <2> SUFFICES ASSUME k + 1 <= n PROVE Upto(d)[k + 1] = Upto(c)[k + 1]
    OBVIOUS
  <2>1. k + 1 \in 1 .. n /\ k + 1 \in 1 .. Len(d) /\ k + 1 \in 1 .. Len(c) /\ (k + 1) - 1 = k
        /\ k <= n
    OBVIOUS
  <2>2. Upto(d)[k] = Upto(c)[k] /\ d[k + 1] = c[k + 1]
    BY <1>2, <2>1
  <2>3. Upto(d)[k + 1] = crc_byte(Upto(d)[(k + 1) - 1], d[k + 1])
        /\ Upto(c)[k + 1] = crc_byte(Upto(c)[(k + 1) - 1], c[k + 1])
    BY <2>1, UptoSteps, Zenon
  <2> QED
    BY <2>1, <2>2, <2>3
<1> HIDE DEF I
<1>3. n \in Nat /\ Nat \subseteq I
  BY <1>1, <1>2, UpInduction
<1> QED
  BY <1>3 DEF I

LEMMA RegAppend ==
  ASSUME NEW d \in Seq(Byte), NEW b \in Byte
  PROVE  RegOf(Append(d, b)) = crc_byte(RegOf(d), b)
<1> DEFINE e == Append(d, b)
           n == Len(d)
<1>1. /\ n \in Nat /\ Len(e) = n + 1 /\ e[n + 1] = b /\ \A k \in 1 .. n : e[k] = d[k]
  BY LenProperties, AppendProperties
<1> HIDE DEF e, n
<1>2. Upto(e)[n] = Upto(d)[n]
  <2>1. n \in 0 .. Len(e) /\ n <= Len(d) /\ Len(e) \in Nat /\ Len(d) \in Nat
    BY <1>1 DEF n
  <2> QED
    BY <1>1, <2>1, UptoSame
<1>3. Upto(e)[n + 1] = crc_byte(Upto(e)[(n + 1) - 1], e[n + 1])
  <2>1. n + 1 \in 1 .. Len(e) /\ Len(e) \in Nat
    BY <1>1
  <2> QED
    BY <2>1, UptoSteps, Zenon
<1>4. (n + 1) - 1 = n
  BY <1>1
<1>5. RegOf(e) = Upto(e)[n + 1] /\ RegOf(d) = Upto(d)[n]
  BY <1>1 DEF RegOf, n
<1> QED
  BY <1>1, <1>2, <1>3, <1>4, <1>5 DEF e

-----------------------------------------------------------------------------
\* The checksum tells data from data with one wrong byte, whatever its length: what the
\* decoder relies on, and FramedCodec assumes of its checksum.
THEOREM CrcSeesOneByte ==
  \A d \in Seq(Byte) : \A i \in DOMAIN d, b \in Byte :
    b # d[i] => crc16([d EXCEPT ![i] = b]) # crc16(d)
<1> SUFFICES ASSUME NEW d \in Seq(Byte), NEW i \in DOMAIN d, NEW b \in Byte, b # d[i]
             PROVE  crc16([d EXCEPT ![i] = b]) # crc16(d)
  OBVIOUS
<1> DEFINE c == [d EXCEPT ![i] = b]
           n == Len(d)
<1>1. n \in Nat /\ i \in 1 .. n /\ \A k \in 1 .. n : d[k] \in Byte
  BY LenProperties, ElementOfSeq
<1>2. c \in Seq(Byte) /\ Len(c) = n /\ \A k \in 1 .. n : c[k] = IF k = i THEN b ELSE d[k]
  BY <1>1, ExceptSeq
<1> HIDE DEF c, n
<1>3. Len(c) \in Nat /\ Len(d) \in Nat /\ Len(d) = n
  BY <1>1, <1>2 DEF n
<1> DEFINE I == {k \in Nat : i + k <= n => Upto(c)[i + k] # Upto(d)[i + k]}
<1>4. ASSUME NEW k \in 1 .. n
      PROVE  /\ Upto(c)[k] = crc_byte(Upto(c)[k - 1], c[k]) /\ Upto(c)[k - 1] \in Reg
             /\ Upto(d)[k] = crc_byte(Upto(d)[k - 1], d[k]) /\ Upto(d)[k - 1] \in Reg
             /\ c[k] \in Byte /\ d[k] \in Byte
  <2>1. k \in 1 .. Len(c) /\ k \in 1 .. Len(d) /\ k - 1 \in 0 .. Len(c) /\ k - 1 \in 0 .. Len(d)
    BY <1>1, <1>2, <1>3
  <2>2. c[k] \in Byte /\ d[k] \in Byte
    BY <1>1, <1>2
  <2> QED
    BY <1>3, <2>1, <2>2, UptoSteps, Zenon
<1>5. 0 \in I
  <2>1. Upto(c)[i - 1] = Upto(d)[i - 1]
    <3>1. i - 1 \in 0 .. Len(c) /\ i - 1 <= Len(d)
      BY <1>1, <1>2, <1>3
    <3>2. \A k \in 1 .. i - 1 : c[k] = d[k]
      <4>1. \A k \in 1 .. i - 1 : k \in 1 .. n /\ k # i
        BY <1>1
      <4> QED
        BY <1>2, <4>1
    <3>3. \A m \in 0 .. Len(c) : m <= Len(d) /\ (\A k \in 1 .. m : c[k] = d[k])
                                   => Upto(c)[m] = Upto(d)[m]
      BY <1>3, UptoSame, Zenon
    <3> QED
      BY <3>1, <3>2, <3>3, Zenon
  <2>2. c[i] # d[i]
    BY <1>1, <1>2
  <2>3. Upto(c)[i] # Upto(d)[i]
    BY <1>1, <1>4, <2>1, <2>2, CrcByteOnce
  <2>4. i + 0 = i
    BY <1>1
  <2> QED
    BY <2>3, <2>4
<1>6. ASSUME NEW k \in Nat, k \in I PROVE k + 1 \in I
  <2> SUFFICES ASSUME i + (k + 1) <= n PROVE Upto(c)[i + (k + 1)] # Upto(d)[i + (k + 1)]
    OBVIOUS
  <2> DEFINE m == i + (k + 1)
  <2>1. m \in 1 .. n /\ m - 1 = i + k /\ i + k <= n /\ m # i
    BY <1>1
  <2>2. Upto(c)[m - 1] # Upto(d)[m - 1]
    BY <1>6, <2>1
  <2> HIDE DEF m
  <2>3. c[m] = d[m]
    BY <1>2, <2>1
  <2>4. Upto(c)[m] # Upto(d)[m]
    BY <1>4, <2>1, <2>2, <2>3, CrcByteOnce
  <2> QED
    BY <2>4 DEF m
<1> HIDE DEF I
<1>7. n - i \in Nat /\ i + (n - i) = n
  BY <1>1
<1>8. n - i \in I
  BY <1>5, <1>6, <1>7, UpInduction
<1>9. Upto(c)[n] # Upto(d)[n]
  BY <1>1, <1>7, <1>8 DEF I
<1>10. RegOf(c) # RegOf(d)
  BY <1>2, <1>3, <1>9 DEF RegOf
<1>11. /\ crc16(c) = Number(RegOf(c)) /\ RegOf(c) \in Reg
       /\ crc16(d) = Number(RegOf(d)) /\ RegOf(d) \in Reg
  BY <1>3, UptoSteps, Zenon
<1> QED
  BY <1>10, <1>11, NumberOnce DEF c

\* It is a u16: two bytes of a frame hold it.
THEOREM CrcIsU16 == \A d \in Seq(Byte) : crc16(d) \in Nat /\ crc16(d) <= 65535
<1> SUFFICES ASSUME NEW d \in Seq(Byte) PROVE crc16(d) \in Nat /\ crc16(d) <= 65535
  OBVIOUS
<1>1. crc16(d) = Number(RegOf(d))
  <2>1. Len(d) \in Nat
    BY LenProperties
  <2> QED
    BY <2>1, UptoSteps, Zenon
<1> QED
  BY <1>1, NumberTyped

-----------------------------------------------------------------------------
(* The division.                                                            *)

\* What is left of p when the term x^n has been dealt with.
Divide(p, n) == IF n \in p THEN Plus(p, Times(Divisor, n - 16)) ELSE p

\* f is the division of the terms of m from x^deg down to x^16.
Divides(m, deg, f) ==
  /\ f[deg] = m
  /\ \A n \in 15 .. deg - 1 : f[n] = Divide(f[n + 1], n + 1)
  /\ \A n \in 15 .. deg : f[n] \subseteq 0 .. n

LEMMA DivideTyped ==
  ASSUME NEW n \in Nat, n >= 16, NEW p, p \subseteq 0 .. n
  PROVE  Divide(p, n) \subseteq 0 .. n - 1
<1>1. CASE n \notin p
  <2>1. \A e \in p : e \in 0 .. n /\ e # n
    BY <1>1
  <2>2. \A e \in p : e \in 0 .. n - 1
    BY <2>1
  <2> QED
    BY <1>1, <2>2 DEF Divide
<1>2. CASE n \in p
  <2>1. \A e \in Divisor : e + (n - 16) \in 0 .. n
    BY DEF Divisor
  <2>2. Times(Divisor, n - 16) \subseteq 0 .. n
    BY <2>1 DEF Times
  <2>3. n \in Times(Divisor, n - 16)
    <3>1. 16 \in Divisor /\ n = 16 + (n - 16)
      BY DEF Divisor
    <3> QED
      BY <3>1 DEF Times
  <2>4. \A e \in Plus(p, Times(Divisor, n - 16)) : e \in 0 .. n /\ e # n
    BY <1>2, <2>2, <2>3 DEF Plus
  <2>5. \A e \in Plus(p, Times(Divisor, n - 16)) : e \in 0 .. n - 1
    BY <2>4
  <2> QED
    BY <1>2, <2>5 DEF Divide
<1> QED
  BY <1>1, <1>2

LEMMA RemainderOf ==
  ASSUME NEW deg \in Nat, deg >= 15, NEW m, m \subseteq 0 .. deg
  PROVE  \E f : Divides(m, deg, f) /\ Remainder(m, deg) = f[15]
<1> DEFINE V == SUBSET Int
           H == [n \in 15 .. deg - 1 |-> [p \in V |-> Divide(p, n + 1)]]
           Part(q, k) == IF k + 1 \in q THEN Plus(q, Times(Divisor, k + 1 - 16)) ELSE q
           Is(f) == f = [n \in 15 .. deg |-> IF n = deg THEN m ELSE Part(f[n + 1], n)]
           F == CHOOSE f : Is(f)
<1>0. \A n \in 15 .. deg : \A p : Part(p, n) = Divide(p, n + 1)
  <2> TAKE n \in 15 .. deg
  <2>1. n + (1 - 16) = (n + 1) - 16
    OBVIOUS
  <2> QED
    BY <2>1, Zenon DEF Divide
<1>1. Downward(V, 15, deg, m, H)
  <2>1. \A n \in Int : \A p \in V : Divide(p, n) \in V
    <3>1. \A n \in Int : Times(Divisor, n - 16) \in V
      BY DEF Times, Divisor
    <3>2. \A p, q \in V : Plus(p, q) \in V
      BY DEF Plus
    <3> QED
      BY <3>1, <3>2 DEF Divide
  <2>2. \A n \in 15 .. deg - 1 : n + 1 \in Int
    OBVIOUS
  <2> HIDE DEF V
  <2>3. H \in [15 .. deg - 1 -> [V -> V]]
    BY <2>1, <2>2
  <2>4. m \in V
    BY DEF V
  <2>5. 15 \in Int /\ deg \in Int /\ 15 <= deg
    OBVIOUS
  <2> HIDE DEF H
  <2> QED
    BY <2>3, <2>4, <2>5, Zenon DEF Downward
<1>2. DownwardHolds(V, 15, deg, m, H)
  <2> HIDE DEF H, V
  <2> QED
    BY <1>1, StepsDown, Zenon
<1>3. PICK f \in [15 .. deg -> V] : f[deg] = m /\ \A n \in 15 .. deg - 1 : f[n] = H[n][f[n + 1]]
  <2> HIDE DEF H, V
  <2> QED
    BY <1>2, Zenon DEF DownwardHolds
<1> HIDE DEF V
<1>4. \A n \in 15 .. deg : f[n] = IF n = deg THEN m ELSE Divide(f[n + 1], n + 1)
  <2> TAKE n \in 15 .. deg
  <2>1. CASE n = deg
    BY <1>3, <2>1
  <2>2. CASE n # deg
    <3>1. n \in 15 .. deg - 1 /\ n + 1 \in 15 .. deg
      BY <2>2
    <3>2. f[n] = H[n][f[n + 1]] /\ f[n + 1] \in V
      BY <1>3, <3>1
    <3>3. H[n][f[n + 1]] = Divide(f[n + 1], n + 1)
      BY <3>1, <3>2
    <3> QED
      BY <2>2, <3>2, <3>3
  <2> QED
    BY <2>1, <2>2
<1>5. Is(f)
  <2> HIDE DEF Part
  <2>1. \A n \in 15 .. deg : f[n] = IF n = deg THEN m ELSE Part(f[n + 1], n)
    BY <1>0, <1>4
  <2> QED
    BY <1>3, <2>1, Zenon
<1>6. Is(F)
  <2>1. \E g : Is(g)
    BY <1>5
  <2> HIDE DEF Is
  <2> QED
    BY <2>1
<1>7. Remainder(m, deg) = F[15]
  BY Zenon DEF Remainder
<1> HIDE DEF F
<1>8. \A n \in 15 .. deg : F[n] = IF n = deg THEN m ELSE Divide(F[n + 1], n + 1)
  <2> HIDE DEF Part
  <2>1. \A n \in 15 .. deg : F[n] = IF n = deg THEN m ELSE Part(F[n + 1], n)
    BY <1>6, Zenon
  <2> QED
    BY <1>0, <2>1
<1>9. F[deg] = m /\ \A n \in 15 .. deg - 1 : F[n] = Divide(F[n + 1], n + 1)
  <2>1. deg \in 15 .. deg /\ \A n \in 15 .. deg - 1 : n \in 15 .. deg /\ n # deg
    OBVIOUS
  <2> QED
    BY <1>8, <2>1, Zenon
<1>10. \A n \in 15 .. deg : F[n] \subseteq 0 .. n
  <2> DEFINE I == {i \in Nat : deg - i \in 15 .. deg => F[deg - i] \subseteq 0 .. deg - i}
  <2>1. 0 \in I
    <3>1. deg - 0 = deg /\ F[deg] \subseteq 0 .. deg
      BY <1>9
    <3> QED
      BY <3>1
  <2>2. ASSUME NEW i \in Nat, i \in I PROVE i + 1 \in I
    <3> SUFFICES ASSUME deg - (i + 1) \in 15 .. deg
                 PROVE  F[deg - (i + 1)] \subseteq 0 .. deg - (i + 1)
      OBVIOUS
    <3> DEFINE n == deg - (i + 1)
    <3>1. n \in 15 .. deg - 1 /\ n + 1 \in Nat /\ n + 1 >= 16 /\ n + 1 = deg - i /\ (n + 1) - 1 = n
          /\ deg - i \in 15 .. deg
      OBVIOUS
    <3>2. F[n + 1] \subseteq 0 .. n + 1
      BY <2>2, <3>1
    <3> HIDE DEF n
    <3>3. Divide(F[n + 1], n + 1) \subseteq 0 .. n
      BY <3>1, <3>2, DivideTyped
    <3>4. F[n] \subseteq 0 .. n
      BY <1>9, <3>1, <3>3
    <3> QED
      BY <3>4 DEF n
  <2> HIDE DEF I
  <2>3. Nat \subseteq I /\ \A n \in 15 .. deg : deg - n \in Nat /\ deg - (deg - n) = n
    BY <2>1, <2>2, UpInduction
  <2>4. \A n \in 15 .. deg : deg - n \in I
    BY <2>3
  <2> QED
    BY <2>3, <2>4 DEF I
<1> QED
  BY <1>7, <1>9, <1>10 DEF Divides

\* Whatever stays below x^16 is not touched.
LEMMA RemainderPlus ==
  ASSUME NEW deg \in Nat, deg >= 15, NEW m, m \subseteq 0 .. deg, NEW q, q \subseteq 0 .. 15
  PROVE  Remainder(Plus(m, q), deg) = Plus(Remainder(m, deg), q)
<1>1. PICK f : Divides(m, deg, f) /\ Remainder(m, deg) = f[15]
  BY RemainderOf
<1>2. Plus(m, q) \subseteq 0 .. deg
  <2>1. \A e \in q : e \in 0 .. deg
    OBVIOUS
  <2> QED
    BY <2>1 DEF Plus
<1>3. PICK g : Divides(Plus(m, q), deg, g) /\ Remainder(Plus(m, q), deg) = g[15]
  BY <1>2, RemainderOf
<1> DEFINE I == {i \in Nat : deg - i \in 15 .. deg => g[deg - i] = Plus(f[deg - i], q)}
<1>4. 0 \in I
  BY <1>1, <1>3 DEF Divides
<1>5. ASSUME NEW i \in Nat, i \in I PROVE i + 1 \in I
  <2> SUFFICES ASSUME deg - (i + 1) \in 15 .. deg
               PROVE  g[deg - (i + 1)] = Plus(f[deg - (i + 1)], q)
    OBVIOUS
  <2> DEFINE n == deg - (i + 1)
  <2>1. n \in 15 .. deg - 1 /\ n + 1 = deg - i /\ deg - i \in 15 .. deg /\ n + 1 >= 16 /\ n + 1 \in Int
    OBVIOUS
  <2>2. g[n + 1] = Plus(f[n + 1], q)
    BY <1>5, <2>1
  <2> HIDE DEF n
  <2>3. f[n] = Divide(f[n + 1], n + 1) /\ g[n] = Divide(g[n + 1], n + 1)
    BY <1>1, <1>3, <2>1 DEF Divides
  <2>4. n + 1 \notin q
    BY <2>1
  <2>5. n + 1 \in f[n + 1] <=> n + 1 \in g[n + 1]
    BY <2>2, <2>4 DEF Plus
  <2>6. \A a, b, c : Plus(Plus(a, b), c) = Plus(Plus(a, c), b)
    BY DEF Plus
  <2>7. g[n] = Plus(f[n], q)
    BY <2>2, <2>3, <2>5, <2>6 DEF Divide
  <2> QED
    BY <2>7 DEF n
<1> HIDE DEF I
<1>6. deg - 15 \in Nat /\ deg - (deg - 15) = 15 /\ 15 \in 15 .. deg
  OBVIOUS
<1>7. deg - 15 \in I
  BY <1>4, <1>5, <1>6, UpInduction
<1>8. g[15] = Plus(f[15], q)
  BY <1>6, <1>7 DEF I
<1> QED
  BY <1>1, <1>3, <1>8

LEMMA TimesIn ==
  ASSUME NEW p, p \subseteq Int, NEW n \in Int, NEW e \in Int
  PROVE  e \in Times(p, n) <=> e - n \in p
<1>1. ASSUME e \in Times(p, n) PROVE e - n \in p
  <2>1. PICK f \in p : e = f + n
    BY <1>1 DEF Times
  <2>2. e - n = f
    BY <2>1
  <2> QED
    BY <2>2
<1>2. ASSUME e - n \in p PROVE e \in Times(p, n)
  <2>1. e = (e - n) + n
    OBVIOUS
  <2> QED
    BY <1>2, <2>1 DEF Times
<1> QED
  BY <1>1, <1>2

LEMMA DivideTimes ==
  ASSUME NEW p, p \subseteq Int, NEW n \in Int
  PROVE  Divide(Times(p, 1), n + 1) = Times(Divide(p, n), 1)
<1> DEFINE A == Times(Divisor, n - 16)
           B == Times(Divisor, (n + 1) - 16)
<1>1. Divisor \subseteq Int /\ 1 \in Int /\ n - 16 \in Int /\ (n + 1) - 16 \in Int /\ n + 1 \in Int
      /\ (n + 1) - 1 = n
  BY DEF Divisor
<1>2. A \subseteq Int /\ B \subseteq Int /\ Times(p, 1) \subseteq Int /\ Times(A, 1) \subseteq Int
  BY <1>1 DEF Times
<1>3. n + 1 \in Times(p, 1) <=> n \in p
  <2>1. n + 1 \in Times(p, 1) <=> (n + 1) - 1 \in p
    BY <1>1, TimesIn, Zenon
  <2> QED
    BY <1>1, <2>1
<1>4. Plus(Times(p, 1), B) = Times(Plus(p, A), 1)
  <2>1. Plus(p, A) \subseteq Int
    BY <1>2 DEF Plus
  <2>2. Times(Plus(p, A), 1) \subseteq Int /\ Plus(Times(p, 1), B) \subseteq Int
    BY <1>2, <2>1 DEF Times, Plus
  <2>3. ASSUME NEW e \in Int
        PROVE  e \in Plus(Times(p, 1), B) <=> e \in Times(Plus(p, A), 1)
    <3>1. e - 1 \in Int /\ e - ((n + 1) - 16) = (e - 1) - (n - 16)
      OBVIOUS
    <3>2. e \in Times(p, 1) <=> e - 1 \in p
      BY <1>1, TimesIn
    <3>3. e \in B <=> e - ((n + 1) - 16) \in Divisor
      BY <1>1, TimesIn
    <3>4. e - 1 \in A <=> (e - 1) - (n - 16) \in Divisor
      BY <1>1, <3>1, TimesIn
    <3>5. e \in Times(Plus(p, A), 1) <=> e - 1 \in Plus(p, A)
      BY <1>1, <2>1, TimesIn
    <3> HIDE DEF A, B
    <3> QED
      BY <3>1, <3>2, <3>3, <3>4, <3>5 DEF Plus
  <2> HIDE DEF A, B
  <2> QED
    BY <2>2, <2>3
<1>5. Divide(p, n) = IF n \in p THEN Plus(p, A) ELSE p
  BY DEF Divide
<1>6. Divide(Times(p, 1), n + 1) = IF n + 1 \in Times(p, 1) THEN Plus(Times(p, 1), B) ELSE Times(p, 1)
  BY Zenon DEF Divide
<1> HIDE DEF A, B
<1> QED
  BY <1>3, <1>4, <1>5, <1>6, Zenon

LEMMA LastShift ==
  ASSUME NEW r, r \subseteq 0 .. 15
  PROVE  Divide(Times(r, 1), 16) = shift(r)
<1> DEFINE T == Times(r, 1)
<1>1. 1 \in Int /\ 16 \in Int /\ 16 - 1 = 15 /\ r \subseteq Int /\ 16 - 16 = 0
  OBVIOUS
<1>2. 16 \in T <=> 15 \in r
  BY <1>1, TimesIn
<1>3. T \subseteq 0 .. 16
  BY DEF Times
<1>4. shl(r, 1) = T \cap 0 .. 15
  BY DEF shl, Times
<1>5. Times(Divisor, 0) = {16, 12, 5, 0}
  <2>1. \A e \in Divisor : e + 0 = e
    BY DEF Divisor
  <2>2. Times(Divisor, 0) = Divisor
    BY <2>1 DEF Times
  <2> QED
    BY <2>2 DEF Divisor
<1> HIDE DEF T
<1>6. CASE 15 \in r
  <2>1. Divide(T, 16) = Plus(T, {16, 12, 5, 0})
    BY <1>1, <1>2, <1>5, <1>6 DEF Divide
  <2>2. shift(r) = Xor(T \cap 0 .. 15, {12, 5, 0})
    BY <1>4, <1>6 DEF shift, Poly
  <2>3. \A e \in T : e = 16 \/ e \in 0 .. 15
    BY <1>3
  <2>4. 16 \notin 0 .. 15 /\ 12 \in 0 .. 15 /\ 5 \in 0 .. 15 /\ 0 \in 0 .. 15 /\ 16 \in T
    BY <1>2, <1>6
  <2>5. Plus(T, {16, 12, 5, 0}) = Xor(T \cap 0 .. 15, {12, 5, 0})
    BY <2>3, <2>4 DEF Plus, Xor
  <2> QED
    BY <2>1, <2>2, <2>5 DEF T
<1>7. CASE 15 \notin r
  <2>1. Divide(T, 16) = T
    BY <1>2, <1>7 DEF Divide
  <2>2. \A e \in T : e \in 0 .. 15
    <3>1. \A e \in T : e \in 0 .. 16 /\ e # 16
      BY <1>2, <1>3, <1>7
    <3> QED
      BY <3>1
  <2>3. shift(r) = T
    BY <1>4, <1>7, <2>2 DEF shift
  <2> QED
    BY <2>1, <2>3 DEF T
<1> QED
  BY <1>6, <1>7

\* One bit more at the low end is one shift of the register.
LEMMA RemainderTimes ==
  ASSUME NEW deg \in Nat, deg >= 15, NEW m, m \subseteq 0 .. deg
  PROVE  Times(m, 1) \subseteq 0 .. deg + 1 /\ Remainder(Times(m, 1), deg + 1) = shift(Remainder(m, deg))
<1>1. PICK f : Divides(m, deg, f) /\ Remainder(m, deg) = f[15]
  BY RemainderOf
<1>2. Times(m, 1) \subseteq 0 .. deg + 1
  BY DEF Times
<1>3. PICK g : Divides(Times(m, 1), deg + 1, g) /\ Remainder(Times(m, 1), deg + 1) = g[15]
  <2>1. deg + 1 \in Nat /\ deg + 1 >= 15
    OBVIOUS
  <2> QED
    BY <1>2, <2>1, RemainderOf
<1>4. /\ f[deg] = m /\ \A n \in 15 .. deg - 1 : f[n] = Divide(f[n + 1], n + 1)
      /\ \A n \in 15 .. deg : f[n] \subseteq 0 .. n
  BY <1>1, Zenon DEF Divides
<1>5. /\ g[deg + 1] = Times(m, 1) /\ \A n \in 15 .. deg : g[n] = Divide(g[n + 1], n + 1)
  <2>1. (deg + 1) - 1 = deg
    OBVIOUS
  <2> QED
    BY <1>3, <2>1 DEF Divides
<1> DEFINE I == {i \in Nat : deg - i \in 15 .. deg => g[(deg - i) + 1] = Times(f[deg - i], 1)}
<1>6. 0 \in I
  <2>1. deg - 0 = deg
    OBVIOUS
  <2> QED
    BY <1>4, <1>5, <2>1
<1>7. ASSUME NEW i \in Nat, i \in I PROVE i + 1 \in I
  <2> SUFFICES ASSUME deg - (i + 1) \in 15 .. deg
               PROVE  g[(deg - (i + 1)) + 1] = Times(f[deg - (i + 1)], 1)
    OBVIOUS
  <2> DEFINE n == deg - (i + 1)
             k == n + 1
  <2>1. /\ n \in 15 .. deg - 1 /\ k = deg - i /\ deg - i \in 15 .. deg /\ k \in 15 .. deg
        /\ n + 1 = k /\ k + 1 \in Int /\ k >= 16 /\ k \in Int
    OBVIOUS
  <2> HIDE DEF k, n
  <2>2. g[k + 1] = Times(f[k], 1)
    BY <1>7, <2>1
  <2>3. f[n] = Divide(f[k], k) /\ g[k] = Divide(g[k + 1], k + 1) /\ f[k] \subseteq 0 .. k
    BY <1>4, <1>5, <2>1
  <2>4. f[k] \subseteq Int
    BY <2>1, <2>3
  <2>5. Divide(Times(f[k], 1), k + 1) = Times(Divide(f[k], k), 1)
    BY <2>1, <2>4, DivideTimes
  <2>6. g[n + 1] = Times(f[n], 1)
    BY <2>1, <2>2, <2>3, <2>5
  <2> QED
    BY <2>6 DEF n
<1> HIDE DEF I
<1>8. deg - 15 \in Nat /\ deg - (deg - 15) = 15 /\ 15 \in 15 .. deg /\ 15 + 1 = 16
  OBVIOUS
<1>9. deg - 15 \in I
  BY <1>6, <1>7, <1>8, UpInduction
<1>10. g[16] = Times(f[15], 1)
  BY <1>8, <1>9 DEF I
<1>11. g[15] = Divide(Times(f[15], 1), 16) /\ f[15] \subseteq 0 .. 15
  BY <1>4, <1>5, <1>8, <1>10
<1>12. Divide(Times(f[15], 1), 16) = shift(f[15])
  BY <1>11, LastShift
<1> QED
  BY <1>1, <1>2, <1>3, <1>11, <1>12

LEMMA TimesNext ==
  ASSUME NEW m, m \subseteq Int, NEW n \in Int
  PROVE  Times(Times(m, n), 1) = Times(m, n + 1)
<1>1. Times(m, n) \subseteq Int
  BY DEF Times
<1>2. Times(Times(m, n), 1) \subseteq Int /\ Times(m, n + 1) \subseteq Int
  BY <1>1 DEF Times
<1>3. ASSUME NEW e \in Int PROVE e \in Times(Times(m, n), 1) <=> e \in Times(m, n + 1)
  <2>1. 1 \in Int /\ n + 1 \in Int /\ e - 1 \in Int /\ (e - 1) - n = e - (n + 1)
    OBVIOUS
  <2>2. e \in Times(Times(m, n), 1) <=> e - 1 \in Times(m, n)
    BY <1>1, <2>1, TimesIn, Zenon
  <2>3. e - 1 \in Times(m, n) <=> (e - 1) - n \in m
    BY <2>1, TimesIn, Zenon
  <2>4. e \in Times(m, n + 1) <=> e - (n + 1) \in m
    BY <2>1, TimesIn, Zenon
  <2> QED
    BY <2>1, <2>2, <2>3, <2>4
<1> QED
  BY <1>2, <1>3

\* Eight bits more are eight shifts.
LEMMA RemainderEight ==
  ASSUME NEW deg \in Nat, deg >= 15, NEW m, m \subseteq 0 .. deg
  PROVE  Remainder(Times(m, 8), deg + 8) = Eight(Remainder(m, deg))
<1> DEFINE T(n) == Times(m, n)
           R(n) == Remainder(Times(m, n), deg + n)
<1>1. m \subseteq Int
  OBVIOUS
<1>2. ASSUME NEW n \in Nat, T(n) \subseteq 0 .. deg + n
      PROVE  T(n + 1) \subseteq 0 .. deg + (n + 1) /\ R(n + 1) = shift(R(n))
  <2> DEFINE D == deg + n
  <2>1. D \in Nat /\ D >= 15 /\ D + 1 = deg + (n + 1) /\ n \in Int
    OBVIOUS
  <2>2. T(n + 1) = Times(T(n), 1)
    BY <1>1, <2>1, TimesNext
  <2> HIDE DEF T, D
  <2>3. T(n) \subseteq 0 .. D
    BY <1>2 DEF D
  <2>4. Times(T(n), 1) \subseteq 0 .. D + 1
        /\ Remainder(Times(T(n), 1), D + 1) = shift(Remainder(T(n), D))
    BY <2>1, <2>3, RemainderTimes
  <2> QED
    BY <2>1, <2>2, <2>4 DEF T, D
<1>3. T(0) = m /\ R(0) = Remainder(m, deg)
  <2>1. T(0) = m
    <3>1. \A e \in m : e + 0 = e
      OBVIOUS
    <3> QED
      BY <3>1 DEF Times
  <2>2. deg + 0 = deg
    OBVIOUS
  <2> QED
    BY <2>1, <2>2
<1>4. T(0) \subseteq 0 .. deg + 0
  <2>1. deg + 0 = deg
    OBVIOUS
  <2> QED
    BY <1>3, <2>1
<1> HIDE DEF T, R
<1>5. T(0 + 1) \subseteq 0 .. deg + (0 + 1) /\ R(0 + 1) = shift(R(0))
  BY <1>2, <1>4
<1>6. T(1 + 1) \subseteq 0 .. deg + (1 + 1) /\ R(1 + 1) = shift(R(1))
  BY <1>2, <1>5
<1>7. T(2 + 1) \subseteq 0 .. deg + (2 + 1) /\ R(2 + 1) = shift(R(2))
  BY <1>2, <1>6
<1>8. T(3 + 1) \subseteq 0 .. deg + (3 + 1) /\ R(3 + 1) = shift(R(3))
  BY <1>2, <1>7
<1>9. T(4 + 1) \subseteq 0 .. deg + (4 + 1) /\ R(4 + 1) = shift(R(4))
  BY <1>2, <1>8
<1>10. T(5 + 1) \subseteq 0 .. deg + (5 + 1) /\ R(5 + 1) = shift(R(5))
  BY <1>2, <1>9
<1>11. T(6 + 1) \subseteq 0 .. deg + (6 + 1) /\ R(6 + 1) = shift(R(6))
  BY <1>2, <1>10
<1>12. R(7 + 1) = shift(R(7))
  BY <1>2, <1>11
<1>13. R(8) = Eight(R(0))
  BY <1>5, <1>6, <1>7, <1>8, <1>9, <1>10, <1>11, <1>12 DEF Eight
<1> QED
  BY <1>3, <1>13 DEF R

-----------------------------------------------------------------------------
(* The message.                                                             *)

\* The data alone has the term x^e.
Has(d, e) == \E k \in 1 .. Len(d) : e - (8 * (Len(d) - k) + 16) \in Bits(d[k])

LEMMA MessageIn ==
  ASSUME NEW d \in Seq(Byte)
  PROVE  /\ Message(d) \subseteq 0 .. 8 * Len(d) + 15
         /\ \A e \in Int : e \in Message(d) <=> ~ (Has(d, e) <=> e - 8 * Len(d) \in 0 .. 15)
         /\ \A e \in Int : Has(d, e) => e >= 16
<1> DEFINE L == Len(d)
           Term(k) == Times(Bits(d[k]), 8 * (L - k) + 16)
           Body == UNION {Term(k) : k \in 1 .. L}
           Start == {8 * L + e : e \in 0 .. 15}
<1>0. L \in Nat
  BY LenProperties
<1> HIDE DEF L
<1>1. ASSUME NEW k \in 1 .. L
      PROVE  /\ Term(k) \subseteq 16 .. 8 * L + 15
             /\ \A e \in Int : e \in Term(k) <=> e - (8 * (L - k) + 16) \in Bits(d[k])
  <2>1. 8 * (L - k) + 16 \in Int /\ 8 * (L - k) + 16 >= 16 /\ 8 * (L - k) + 23 <= 8 * L + 15
    BY <1>0
  <2>2. Bits(d[k]) \subseteq 0 .. 7
    BY BitsTyped
  <2>3. ASSUME NEW e \in Term(k) PROVE e \in 16 .. 8 * L + 15
    <3>1. PICK f \in Bits(d[k]) : e = f + (8 * (L - k) + 16)
      BY DEF Times
    <3>2. f \in 0 .. 7
      BY <2>2
    <3> QED
      BY <1>0, <2>1, <3>1, <3>2
  <2>4. \A e \in Int : e \in Term(k) <=> e - (8 * (L - k) + 16) \in Bits(d[k])
    BY <2>1, <2>2, TimesIn
  <2> QED
    BY <2>3, <2>4
<1>2. Message(d) = Plus(Body, Start)
  BY DEF Message, L
<1> HIDE DEF Term
<1>3. \A e \in Body : e \in 16 .. 8 * L + 15
  BY <1>1
<1>4. \A e \in Int : e \in Body <=> Has(d, e)
  BY <1>1 DEF Has, L
<1>5. \A e \in Int : e \in Start <=> e - 8 * L \in 0 .. 15
  <2> TAKE e \in Int
  <2>1. e = 8 * L + (e - 8 * L)
    BY <1>0
  <2> QED
    BY <1>0, <2>1
<1>6. ASSUME NEW e \in Start PROVE e \in 0 .. 8 * L + 15
  <2>1. PICK n \in 0 .. 15 : e = 8 * L + n
    OBVIOUS
  <2> QED
    BY <1>0, <2>1
<1> HIDE DEF Body, Start
<1>7. \A e \in Plus(Body, Start) : e \in 0 .. 8 * L + 15
  <2>1. \A e \in 16 .. 8 * L + 15 : e \in 0 .. 8 * L + 15
    OBVIOUS
  <2> QED
    BY <1>3, <1>6, <2>1 DEF Plus
<1>8. \A e \in Int : e \in Plus(Body, Start) <=> ~ (e \in Body <=> e \in Start)
  BY DEF Plus
<1>9. \A e \in Int : Has(d, e) => e >= 16
  BY <1>0, <1>3, <1>4
<1> QED
  BY <1>2, <1>4, <1>5, <1>7, <1>8, <1>9 DEF L

LEMMA MessageAppend ==
  ASSUME NEW d \in Seq(Byte), NEW b \in Byte
  PROVE  Message(Append(d, b)) = Times(Plus(Message(d), Times(Bits(b), 8)), 8)
<1> DEFINE L == Len(d)
           c == Append(d, b)
           Q == Plus(Message(d), Times(Bits(b), 8))
<1>1. c \in Seq(Byte) /\ Len(c) = L + 1 /\ c[L + 1] = b /\ L \in Nat /\ \A k \in 1 .. L : c[k] = d[k]
  BY LenProperties, AppendProperties
<1>2. Bits(b) \subseteq 0 .. 7
  BY BitsTyped
<1>3. Message(d) \subseteq Int /\ Message(c) \subseteq Int
  <2>1. Message(d) \subseteq 0 .. 8 * Len(d) + 15 /\ Message(c) \subseteq 0 .. 8 * Len(c) + 15
    BY <1>1, MessageIn
  <2> QED
    BY <2>1
<1>4. Q \subseteq Int /\ Times(Q, 8) \subseteq Int
  <2>1. Times(Bits(b), 8) \subseteq Int
    BY <1>2 DEF Times
  <2>2. Q \subseteq Int
    <3>1. \A p, q : Plus(p, q) \subseteq p \cup q
      BY Zenon DEF Plus
    <3>2. Q \subseteq Message(d) \cup Times(Bits(b), 8)
      BY <3>1, Zenon
    <3> QED
      BY <1>3, <2>1, <3>2, Zenon
  <2> HIDE DEF Q
  <2>3. Times(Q, 8) \subseteq Int
    BY <2>2 DEF Times
  <2> QED
    BY <2>2, <2>3
<1>5. ASSUME NEW e \in Int PROVE e \in Message(c) <=> e \in Times(Q, 8)
  <2>1. 8 \in Int /\ e - 8 \in Int /\ (e - 8) - 8 = e - 16
    OBVIOUS
  <2>2. e \in Times(Q, 8) <=> e - 8 \in Q
    BY <1>4, <2>1, TimesIn
  <2>3. e - 8 \in Times(Bits(b), 8) <=> e - 16 \in Bits(b)
    <3>1. Bits(b) \subseteq Int
      BY <1>2
    <3>2. e - 8 \in Times(Bits(b), 8) <=> (e - 8) - 8 \in Bits(b)
      BY <2>1, <3>1, TimesIn, Zenon
    <3> QED
      BY <2>1, <3>2
  <2>4. e - 8 \in Q <=> ~ (e - 8 \in Message(d) <=> e - 16 \in Bits(b))
    BY <2>3 DEF Plus
  <2>5. e - 8 \in Message(d) <=> ~ (Has(d, e - 8) <=> (e - 8) - 8 * L \in 0 .. 15)
    BY <2>1, MessageIn
  <2>6. e \in Message(c) <=> ~ (Has(c, e) <=> e - 8 * (L + 1) \in 0 .. 15)
    BY <1>1, MessageIn
  <2>7. (e - 8) - 8 * L = e - 8 * (L + 1)
    BY <1>1
  <2>8. Has(c, e) <=> Has(d, e - 8) \/ e - 16 \in Bits(b)
    <3> HIDE DEF c, L
    <3>1. Has(c, e) <=> \E k \in 1 .. L + 1 : e - (8 * (L + 1 - k) + 16) \in Bits(c[k])
      BY <1>1 DEF Has
    <3>2. Has(d, e - 8) <=> \E k \in 1 .. L : (e - 8) - (8 * (L - k) + 16) \in Bits(d[k])
      BY DEF Has, L
    <3>3. \A k \in 1 .. L : (e - 8) - (8 * (L - k) + 16) = e - (8 * (L + 1 - k) + 16) /\ c[k] = d[k]
      BY <1>1
    <3>4. e - (8 * (L + 1 - (L + 1)) + 16) = e - 16 /\ c[L + 1] = b
      BY <1>1
    <3>5. 1 .. L + 1 = (1 .. L) \cup {L + 1}
      BY <1>1
    <3>6. (\E k \in 1 .. L + 1 : e - (8 * (L + 1 - k) + 16) \in Bits(c[k]))
          <=> (\E k \in 1 .. L : e - (8 * (L + 1 - k) + 16) \in Bits(c[k]))
              \/ e - (8 * (L + 1 - (L + 1)) + 16) \in Bits(c[L + 1])
      BY <3>5, Zenon
    <3>7. (\E k \in 1 .. L : e - (8 * (L + 1 - k) + 16) \in Bits(c[k]))
          <=> (\E k \in 1 .. L : (e - 8) - (8 * (L - k) + 16) \in Bits(d[k]))
      BY <3>3
    <3> QED
      BY <3>1, <3>2, <3>4, <3>6, <3>7
  <2>9. ~ (Has(d, e - 8) /\ e - 16 \in Bits(b))
    <3>1. Has(d, e - 8) => e - 8 >= 16
      BY <2>1, MessageIn
    <3>2. e - 16 \in Bits(b) => e - 16 <= 7
      BY <1>2
    <3> QED
      BY <3>1, <3>2
  <2> HIDE DEF Q
  <2> QED
    BY <2>2, <2>4, <2>5, <2>6, <2>7, <2>8, <2>9
<1> QED
  BY <1>3, <1>4, <1>5

-----------------------------------------------------------------------------
(* The register is the remainder.                                           *)

Divided(d) == Remainder(Message(d), 8 * Len(d) + 16)

LEMMA DividedTyped ==
  ASSUME NEW d \in Seq(Byte)
  PROVE  8 * Len(d) + 16 \in Nat /\ Message(d) \subseteq 0 .. 8 * Len(d) + 16 /\ Divided(d) \in Reg
<1>1. Len(d) \in Nat
  BY LenProperties
<1>2. 8 * Len(d) + 16 \in Nat /\ 8 * Len(d) + 16 >= 15
  BY <1>1
<1>3. Message(d) \subseteq 0 .. 8 * Len(d) + 16
  <2>1. Message(d) \subseteq 0 .. 8 * Len(d) + 15
    BY MessageIn
  <2>2. \A e \in 0 .. 8 * Len(d) + 15 : e \in 0 .. 8 * Len(d) + 16
    BY <1>1
  <2> QED
    BY <2>1, <2>2
<1>4. PICK f : Divides(Message(d), 8 * Len(d) + 16, f) /\ Divided(d) = f[15]
  BY <1>2, <1>3, RemainderOf DEF Divided
<1>5. f[15] \subseteq 0 .. 15
  BY <1>2, <1>4 DEF Divides
<1> QED
  BY <1>2, <1>3, <1>4, <1>5 DEF Reg

LEMMA DividedNone == Divided(<<>>) = 0 .. 15
<1>1. <<>> \in Seq(Byte) /\ Len(<<>>) = 0 /\ 8 * Len(<<>>) + 16 = 16
  OBVIOUS
<1>2. Message(<<>>) = 0 .. 15
  <2>1. Message(<<>>) \subseteq 0 .. 15
    <3>1. Message(<<>>) \subseteq 0 .. 8 * Len(<<>>) + 15
      BY <1>1, MessageIn, Zenon
    <3> QED
      BY <1>1, <3>1
  <2>2. \A e \in 0 .. 15 : e \in Message(<<>>)
    <3> TAKE e \in 0 .. 15
    <3>1. e \in Int /\ ~ Has(<<>>, e) /\ e - 8 * Len(<<>>) \in 0 .. 15
      BY <1>1 DEF Has
    <3> QED
      BY <1>1, <3>1, MessageIn
  <2> QED
    BY <2>1, <2>2
<1>3. PICK f : Divides(0 .. 15, 16, f) /\ Divided(<<>>) = f[15]
  <2>1. 16 \in Nat /\ 16 >= 15 /\ 0 .. 15 \subseteq 0 .. 16
    OBVIOUS
  <2>2. \E f : Divides(0 .. 15, 16, f) /\ Remainder(0 .. 15, 16) = f[15]
    BY <2>1, RemainderOf
  <2> QED
    BY <1>1, <1>2, <2>2 DEF Divided
<1>4. f[16] = 0 .. 15 /\ f[15] = Divide(f[15 + 1], 15 + 1)
  BY <1>3 DEF Divides
<1>5. 15 + 1 = 16 /\ 16 \notin 0 .. 15
  OBVIOUS
<1> QED
  BY <1>3, <1>4, <1>5 DEF Divide

\* Feeding a byte to crc_byte is a step of the division.
LEMMA DividedAppend ==
  ASSUME NEW d \in Seq(Byte), NEW b \in Byte
  PROVE  Divided(Append(d, b)) = crc_byte(Divided(d), b)
<1> DEFINE deg == 8 * Len(d) + 16
           q == Times(Bits(b), 8)
           m == Message(d)
<1>1. deg \in Nat /\ deg >= 15 /\ m \subseteq 0 .. deg /\ Divided(d) \in Reg
  <2>1. Len(d) \in Nat
    BY LenProperties
  <2> QED
    BY <2>1, DividedTyped
<1>2. q \subseteq 8 .. 15 /\ q = shl(Bits(b), 8)
  <2>1. Bits(b) \subseteq 0 .. 7
    BY BitsTyped
  <2>2. \A e \in Bits(b) : e + 8 \in 8 .. 15 /\ e + 8 \in 0 .. 15
    BY <2>1
  <2> QED
    BY <2>2 DEF Times, shl
<1>3. 8 * Len(Append(d, b)) + 16 = deg + 8
  <2>1. Len(Append(d, b)) = Len(d) + 1 /\ Len(d) \in Nat
    BY LenProperties, AppendProperties
  <2> QED
    BY <2>1
<1>4. Divided(Append(d, b)) = Remainder(Times(Plus(m, q), 8), deg + 8)
  BY <1>3, MessageAppend, Zenon DEF Divided
<1>5. Divided(d) = Remainder(m, deg)
  BY DEF Divided
<1> HIDE DEF deg, q, m
<1>6. \A e \in q : e \in 0 .. 15 /\ e \in 0 .. deg
  BY <1>1, <1>2 DEF deg
<1>7. Plus(m, q) \subseteq 0 .. deg
  BY <1>1, <1>6 DEF Plus
<1>8. Remainder(Times(Plus(m, q), 8), deg + 8) = Eight(Remainder(Plus(m, q), deg))
  BY <1>1, <1>7, RemainderEight
<1>9. Remainder(Plus(m, q), deg) = Plus(Remainder(m, deg), q)
  BY <1>1, <1>6, RemainderPlus
<1>10. Plus(Remainder(m, deg), q) = Xor(Divided(d), shl(Bits(b), 8))
  BY <1>2, <1>5 DEF Plus, Xor
<1> QED
  BY <1>1, <1>4, <1>8, <1>9, <1>10, CrcByte, Zenon

\* What makes the step: the remainder of the old data gives that of the new by crc_byte.
IInv == data \in Seq(Byte) /\ crc = Divided(data) /\ crc = RegOf(data)

\* At every step, the register is the remainder of the division of all the bytes fed, and
\* crc16 of those bytes is its number: the u16 the codec sends and compares.
THEOREM AlwaysCrc == Spec => []IsCrc
<1>1. Init => IInv
  <2> SUFFICES ASSUME Init PROVE IInv
    OBVIOUS
  <2>1. data = <<>> /\ crc = 0 .. 15 /\ data \in Seq(Byte) /\ Len(data) = 0
    BY DEF Init
  <2>2. RegOf(data) = 0 .. 15
    <3>1. Len(data) \in Nat
      BY <2>1
    <3> QED
      BY <2>1, <3>1, UptoSteps DEF RegOf
  <2> QED
    BY <2>1, <2>2, DividedNone DEF IInv
<1>2. IInv /\ [Next]_vars => IInv'
  <2> SUFFICES ASSUME IInv, [Next]_vars PROVE IInv'
    OBVIOUS
  <2>1. CASE UNCHANGED vars
    BY <2>1 DEF IInv, vars
  <2>2. ASSUME NEW byte \in Bytes, Feed(byte) PROVE IInv'
    <3>1. byte \in Byte
      BY ConstAssumption DEF Byte
    <3>2. data' = Append(data, byte) /\ crc' = crc_byte(crc, byte)
      BY <2>2 DEF Feed
    <3>3. data \in Seq(Byte) /\ crc = Divided(data) /\ crc = RegOf(data)
      BY DEF IInv
    <3>4. data' \in Seq(Byte)
      BY <3>1, <3>2, <3>3, AppendProperties
    <3>5. Divided(Append(data, byte)) = crc_byte(Divided(data), byte)
      BY <3>1, <3>3, DividedAppend
    <3>6. RegOf(Append(data, byte)) = crc_byte(RegOf(data), byte)
      BY <3>1, <3>3, RegAppend
    <3>7. crc' = Divided(data') /\ crc' = RegOf(data')
      BY <3>2, <3>3, <3>5, <3>6, Zenon
    <3> QED
      BY <3>4, <3>7 DEF IInv
  <2> QED
    BY <2>1, <2>2 DEF Next
<1>3. IInv => IsCrc
  <2> SUFFICES ASSUME IInv PROVE IsCrc
    OBVIOUS
  <2>1. data \in Seq(Byte) /\ crc = Divided(data) /\ crc = RegOf(data)
    BY DEF IInv
  <2>2. Len(data) \in Nat
    BY <2>1, LenProperties
  <2>3. crc16(data) = Number(RegOf(data))
    BY <2>2, UptoSteps, Zenon
  <2> QED
    BY <2>1, <2>3, Zenon DEF IsCrc, Divided
<1> QED
  BY <1>1, <1>2, <1>3, PTL DEF Spec
=============================================================================
