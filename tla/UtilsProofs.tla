----------------------------- MODULE UtilsProofs -----------------------------
(***************************************************************************)
(* Theorem about module Utils: the table-driven crc32() computes the       *)
(* CRC-32 of IEEE 802.3, for packets of any length.  The register of the   *)
(* reference is at every byte the complement of the crc of the code.       *)
(***************************************************************************)
EXTENDS Utils, Minima

Positions == 0..31

(* Bit b of the 16-bit number n, for the provers to compute.               *)
Bit(n, b) ==
  \/ b = 0 /\ n % 2 = 1
  \/ b = 1 /\ (n \div 2) % 2 = 1
  \/ b = 2 /\ (n \div 4) % 2 = 1
  \/ b = 3 /\ (n \div 8) % 2 = 1
  \/ b = 4 /\ (n \div 16) % 2 = 1
  \/ b = 5 /\ (n \div 32) % 2 = 1
  \/ b = 6 /\ (n \div 64) % 2 = 1
  \/ b = 7 /\ (n \div 128) % 2 = 1
  \/ b = 8 /\ (n \div 256) % 2 = 1
  \/ b = 9 /\ (n \div 512) % 2 = 1
  \/ b = 10 /\ (n \div 1024) % 2 = 1
  \/ b = 11 /\ (n \div 2048) % 2 = 1
  \/ b = 12 /\ (n \div 4096) % 2 = 1
  \/ b = 13 /\ (n \div 8192) % 2 = 1
  \/ b = 14 /\ (n \div 16384) % 2 = 1
  \/ b = 15 /\ (n \div 32768) % 2 = 1

LEMMA Powers ==
  /\ 2^0 = 1 /\ 2^1 = 2 /\ 2^2 = 4 /\ 2^3 = 8
  /\ 2^4 = 16 /\ 2^5 = 32 /\ 2^6 = 64 /\ 2^7 = 128
  /\ 2^8 = 256 /\ 2^9 = 512 /\ 2^10 = 1024 /\ 2^11 = 2048
  /\ 2^12 = 4096 /\ 2^13 = 8192 /\ 2^14 = 16384 /\ 2^15 = 32768
OBVIOUS

LEMMA BitOf ==
  ASSUME NEW n \in Nat, NEW b \in 0..15
  PROVE  (n \div 2^b) % 2 = 1 <=> Bit(n, b)
<1>0. CASE b = 0
  BY <1>0, Powers DEF Bit
<1>1. CASE b = 1
  BY <1>1, Powers DEF Bit
<1>2. CASE b = 2
  BY <1>2, Powers DEF Bit
<1>3. CASE b = 3
  BY <1>3, Powers DEF Bit
<1>4. CASE b = 4
  BY <1>4, Powers DEF Bit
<1>5. CASE b = 5
  BY <1>5, Powers DEF Bit
<1>6. CASE b = 6
  BY <1>6, Powers DEF Bit
<1>7. CASE b = 7
  BY <1>7, Powers DEF Bit
<1>8. CASE b = 8
  BY <1>8, Powers DEF Bit
<1>9. CASE b = 9
  BY <1>9, Powers DEF Bit
<1>10. CASE b = 10
  BY <1>10, Powers DEF Bit
<1>11. CASE b = 11
  BY <1>11, Powers DEF Bit
<1>12. CASE b = 12
  BY <1>12, Powers DEF Bit
<1>13. CASE b = 13
  BY <1>13, Powers DEF Bit
<1>14. CASE b = 14
  BY <1>14, Powers DEF Bit
<1>15. CASE b = 15
  BY <1>15, Powers DEF Bit
<1> QED BY <1>0, <1>1, <1>2, <1>3, <1>4, <1>5, <1>6, <1>7, <1>8,
           <1>9, <1>10, <1>11, <1>12, <1>13, <1>14, <1>15

LEMMA InBits ==
  ASSUME NEW n \in Nat, NEW width \in 1..16
  PROVE  /\ Bits(n, width) \subseteq 0..(width - 1)
         /\ \A b \in 0..(width - 1) : b \in Bits(n, width) <=> Bit(n, b)
<1>1. ASSUME NEW b \in 0..(width - 1)
      PROVE  b \in Bits(n, width) <=> Bit(n, b)
  <2>1. b \in 0..15
    OBVIOUS
  <2>2. (n \div 2^b) % 2 = 1 <=> Bit(n, b)
    BY <2>1, BitOf
  <2> QED BY <2>2 DEF Bits
<1> QED BY <1>1 DEF Bits

LEMMA InWord ==
  ASSUME NEW high \in Nat, NEW low \in Nat
  PROVE  /\ Word(high, low) \subseteq Positions
         /\ \A x \in Positions :
              x \in Word(high, low) <=>
                IF x < 16 THEN Bit(low, x) ELSE Bit(high, x - 16)
<1>1. /\ Bits(low, 16) \subseteq 0..15 /\ Bits(high, 16) \subseteq 0..15
      /\ \A b \in 0..15 : b \in Bits(low, 16) <=> Bit(low, b)
      /\ \A b \in 0..15 : b \in Bits(high, 16) <=> Bit(high, b)
  BY InBits
<1>2. ASSUME NEW x \in Positions, x < 16
      PROVE  x \in Word(high, low) <=> Bit(low, x)
  BY <1>1, <1>2 DEF Word, Positions
<1>3. ASSUME NEW x \in Positions, ~(x < 16)
      PROVE  x \in Word(high, low) <=> Bit(high, x - 16)
  <2>1. x - 16 \in 0..15 /\ (\A b \in 0..15 : x = b + 16 <=> b = x - 16)
    BY <1>3 DEF Positions
  <2>2. x \in Word(high, low) <=> x - 16 \in Bits(high, 16)
    BY <1>1, <1>3, <2>1 DEF Word
  <2> QED BY <1>1, <2>1, <2>2
<1>4. Word(high, low) \subseteq Positions
  BY <1>1 DEF Word, Positions
<1> QED BY <1>2, <1>3, <1>4

-----------------------------------------------------------------------------
(* The register of the reference, shifted.                                 *)

PolyBit(x) == IF x \in 0..15 THEN Bit(33568, x) ELSE x \in 16..31 /\ Bit(60856, x - 16)

LEMMA InPoly ==
  /\ Poly \subseteq Positions
  /\ \A x \in Nat : x \in Poly <=> PolyBit(x)
<1>1. Poly \subseteq Positions
  BY InWord DEF Poly
<1>2. ASSUME NEW x \in Positions PROVE x \in Poly <=> PolyBit(x)
  <2>1. x \in Poly <=> IF x < 16 THEN Bit(33568, x) ELSE Bit(60856, x - 16)
    BY InWord DEF Poly
  <2> QED BY <2>1 DEF Positions, PolyBit
<1>3. ASSUME NEW x \in Nat \ Positions PROVE x \notin Poly /\ ~PolyBit(x)
  BY <1>1 DEF Positions, PolyBit
<1> QED BY <1>1, <1>2, <1>3

(* The four bits that are shifted out, each through the polynomial.        *)
Feedback(x, reg) ==
  ~ (((0 \in reg /\ x + 3 \in Poly) <=> (1 \in reg /\ x + 2 \in Poly))
     <=> ((2 \in reg /\ x + 1 \in Poly) <=> (3 \in reg /\ x \in Poly)))

LEMMA InShift ==
  ASSUME NEW reg \in SUBSET Positions
  PROVE  /\ Shift(reg) \in SUBSET Positions
         /\ \A x \in Nat : x \in Shift(reg) <=>
              ~ (x + 1 \in reg <=> (0 \in reg /\ x \in Poly))
<1>1. /\ ShiftRight(reg, 1) \in SUBSET Positions
      /\ \A x \in Nat : x \in ShiftRight(reg, 1) <=> x + 1 \in reg
  BY DEF ShiftRight, Positions
<1> QED BY <1>1, InPoly DEF Shift, Xor

(* Four shifts at once.  The polynomial has none of the bits 0 to 3, so    *)
(* the bits that leave are those of the register.                          *)
LEMMA InShift4 ==
  ASSUME NEW reg \in SUBSET Positions
  PROVE  /\ Shift4(reg) \in SUBSET Positions
         /\ \A x \in Nat : x \in Shift4(reg) <=>
              ~ (x + 4 \in reg <=> Feedback(x, reg))
<1> DEFINE r1 == Shift(reg)
           r2 == Shift(r1)
           r3 == Shift(r2)
           r4 == Shift(r3)
<1>1. /\ r1 \in SUBSET Positions
      /\ \A x \in Nat : x \in r1 <=> ~ (x + 1 \in reg <=> (0 \in reg /\ x \in Poly))
  BY InShift
<1> HIDE DEF r1
<1>2. /\ r2 \in SUBSET Positions
      /\ \A x \in Nat : x \in r2 <=> ~ (x + 1 \in r1 <=> (0 \in r1 /\ x \in Poly))
  BY <1>1, InShift
<1> HIDE DEF r2
<1>3. /\ r3 \in SUBSET Positions
      /\ \A x \in Nat : x \in r3 <=> ~ (x + 1 \in r2 <=> (0 \in r2 /\ x \in Poly))
  BY <1>2, InShift
<1> HIDE DEF r3
<1>4. /\ r4 \in SUBSET Positions
      /\ \A x \in Nat : x \in r4 <=> ~ (x + 1 \in r3 <=> (0 \in r3 /\ x \in Poly))
  BY <1>3, InShift
<1>5. Shift4(reg) = r4
  BY DEF Shift4, r1, r2, r3
<1> HIDE DEF r4
<1>6. 0 \notin Poly /\ 1 \notin Poly /\ 2 \notin Poly
  BY InPoly DEF PolyBit, Bit
<1>7. (0 \in r1 <=> 1 \in reg) /\ (1 \in r1 <=> 2 \in reg) /\ (2 \in r1 <=> 3 \in reg)
  BY <1>1, <1>6
<1>8. (0 \in r2 <=> 2 \in reg) /\ (1 \in r2 <=> 3 \in reg)
  BY <1>2, <1>6, <1>7
<1>9. 0 \in r3 <=> 3 \in reg
  BY <1>3, <1>6, <1>8
<1>10. ASSUME NEW x \in Nat
       PROVE  x \in r4 <=> ~ (x + 4 \in reg <=> Feedback(x, reg))
  <2>1. x + 3 \in r1 <=> ~ (x + 4 \in reg <=> (0 \in reg /\ x + 3 \in Poly))
    BY <1>1
  <2>2. x + 2 \in r2 <=> ~ (x + 3 \in r1 <=> (1 \in reg /\ x + 2 \in Poly))
    BY <1>2, <1>7
  <2>3. x + 1 \in r3 <=> ~ (x + 2 \in r2 <=> (2 \in reg /\ x + 1 \in Poly))
    BY <1>3, <1>8
  <2>4. x \in r4 <=> ~ (x + 1 \in r3 <=> (3 \in reg /\ x \in Poly))
    BY <1>4, <1>9
  <2> QED BY <2>1, <2>2, <2>3, <2>4 DEF Feedback
<1> QED BY <1>4, <1>5, <1>10

-----------------------------------------------------------------------------
(* The table.                                                              *)

(* Entry n holds what a nibble of the complement of n, shifted out, feeds  *)
(* back, and the complement of the four zeros that are shifted in.         *)
LEMMA TableEntry ==
  ASSUME NEW n \in 0..15, NEW x \in Positions
  PROVE  x \in Table[n] <=> (Feedback(x, (0..3) \ Bits(n, 4)) <=> x <= 27)
<1> DEFINE tap(k) == k \in (0..3) \ Bits(n, 4)
<1>1. /\ tap(0) <=> ~Bit(n, 0)
      /\ tap(1) <=> ~Bit(n, 1)
      /\ tap(2) <=> ~Bit(n, 2)
      /\ tap(3) <=> ~Bit(n, 3)
  BY InBits
<1>2. Feedback(x, (0..3) \ Bits(n, 4)) <=>
        ~ (((tap(0) /\ PolyBit(x + 3)) <=> (tap(1) /\ PolyBit(x + 2)))
           <=> ((tap(2) /\ PolyBit(x + 1)) <=> (tap(3) /\ PolyBit(x))))
  <2>1. /\ x + 3 \in Poly <=> PolyBit(x + 3)
        /\ x + 2 \in Poly <=> PolyBit(x + 2)
        /\ x + 1 \in Poly <=> PolyBit(x + 1)
        /\ x \in Poly <=> PolyBit(x)
    BY InPoly DEF Positions
  <2> QED BY <2>1 DEF Feedback
<1> HIDE DEF tap
<1>3. ASSUME NEW high \in Nat, NEW low \in Nat, crc_table[n + 1] = <<high, low>>
      PROVE  x \in Table[n] <=> IF x < 16 THEN Bit(low, x) ELSE Bit(high, x - 16)
  <2>1. Table[n] = Word(high, low)
    BY <1>3 DEF Table
  <2> QED BY <2>1, InWord
<1> USE DEF Bit, PolyBit, Positions
<1>4. CASE n = 0
  <2>1. crc_table[n + 1] = <<19901, 61980>>
    BY <1>4 DEF crc_table
  <2> QED BY <1>1, <1>2, <1>3, <1>4, <2>1
<1>5. CASE n = 1
  <2>1. crc_table[n + 1] = <<20490, 57976>>
    BY <1>5 DEF crc_table
  <2> QED BY <1>1, <1>2, <1>3, <1>5, <2>1
<1>6. CASE n = 2
  <2>1. crc_table[n + 1] = <<30419, 53972>>
    BY <1>6 DEF crc_table
  <2> QED BY <1>1, <1>2, <1>3, <1>6, <2>1
<1>7. CASE n = 3
  <2>1. crc_table[n + 1] = <<27492, 49840>>
    BY <1>7 DEF crc_table
  <2> QED BY <1>1, <1>2, <1>3, <1>7, <2>1
<1>8. CASE n = 4
  <2>1. crc_table[n + 1] = <<15201, 45964>>
    BY <1>8 DEF crc_table
  <2> QED BY <1>1, <1>2, <1>3, <1>8, <2>1
<1>9. CASE n = 5
  <2>1. crc_table[n + 1] = <<9942, 41960>>
    BY <1>9 DEF crc_table
  <2> QED BY <1>1, <1>2, <1>3, <1>9, <2>1
<1>10. CASE n = 6
  <2>1. crc_table[n + 1] = <<15, 37700>>
    BY <1>10 DEF crc_table
  <2> QED BY <1>1, <1>2, <1>3, <1>10, <2>1
<1>11. CASE n = 7
  <2>1. crc_table[n + 1] = <<7608, 33568>>
    BY <1>11 DEF crc_table
  <2> QED BY <1>1, <1>2, <1>3, <1>11, <2>1
<1>12. CASE n = 8
  <2>1. crc_table[n + 1] = <<40965, 28988>>
    BY <1>12 DEF crc_table
  <2> QED BY <1>1, <1>2, <1>3, <1>12, <2>1
<1>13. CASE n = 9
  <2>1. crc_table[n + 1] = <<48562, 24920>>
    BY <1>13 DEF crc_table
  <2> QED BY <1>1, <1>2, <1>3, <1>13, <2>1
<1>14. CASE n = 10
  <2>1. crc_table[n + 1] = <<39787, 20980>>
    BY <1>14 DEF crc_table
  <2> QED BY <1>1, <1>2, <1>3, <1>14, <2>1
<1>15. CASE n = 11
  <2>1. crc_table[n + 1] = <<34524, 16784>>
    BY <1>15 DEF crc_table
  <2> QED BY <1>1, <1>2, <1>3, <1>15, <2>1
<1>16. CASE n = 12
  <2>1. crc_table[n + 1] = <<55001, 12460>>
    BY <1>16 DEF crc_table
  <2> QED BY <1>1, <1>2, <1>3, <1>16, <2>1
<1>17. CASE n = 13
  <2>1. crc_table[n + 1] = <<52078, 8392>>
    BY <1>17 DEF crc_table
  <2> QED BY <1>1, <1>2, <1>3, <1>17, <2>1
<1>18. CASE n = 14
  <2>1. crc_table[n + 1] = <<60855, 4196>>
    BY <1>18 DEF crc_table
  <2> QED BY <1>1, <1>2, <1>3, <1>18, <2>1
<1>19. CASE n = 15
  <2>1. crc_table[n + 1] = <<61440, 0>>
    BY <1>19 DEF crc_table
  <2> QED BY <1>1, <1>2, <1>3, <1>19, <2>1
<1> QED BY <1>4, <1>5, <1>6, <1>7, <1>8, <1>9, <1>10, <1>11,
           <1>12, <1>13, <1>14, <1>15, <1>16, <1>17, <1>18, <1>19

LEMMA TableOfWords ==
  \A n \in 0..15 : Table[n] \in SUBSET Positions
<1> SUFFICES ASSUME NEW n \in 0..15 PROVE Table[n] \in SUBSET Positions
  OBVIOUS
<1>1. ASSUME NEW high \in Nat, NEW low \in Nat, crc_table[n + 1] = <<high, low>>
      PROVE  Table[n] \in SUBSET Positions
  BY <1>1, InWord DEF Table
<1>2. \E high, low \in Nat : crc_table[n + 1] = <<high, low>>
  BY DEF crc_table
<1> QED BY <1>1, <1>2

(* Every set of the lowest four bits is a number below 16.                 *)
LEMMA NumberOf ==
  ASSUME NEW a \in SUBSET (0..3)
  PROVE  Number(a) \in 0..15 /\ Bits(Number(a), 4) = a
<1> DEFINE val(k) == IF k \in a THEN 2^k ELSE 0
           n == val(0) + val(1) + val(2) + val(3)
<1>1. /\ val(0) \in {0, 1} /\ val(1) \in {0, 2}
      /\ val(2) \in {0, 4} /\ val(3) \in {0, 8}
      /\ 0 \in a <=> val(0) = 1
      /\ 1 \in a <=> val(1) = 2
      /\ 2 \in a <=> val(2) = 4
      /\ 3 \in a <=> val(3) = 8
  BY Powers
<1> HIDE DEF val
<1>2. n \in 0..15
  BY <1>1
<1>3. /\ 0 \in a <=> Bit(n, 0)
      /\ 1 \in a <=> Bit(n, 1)
      /\ 2 \in a <=> Bit(n, 2)
      /\ 3 \in a <=> Bit(n, 3)
  BY <1>1 DEF Bit
<1> HIDE DEF n
<1>4. Bits(n, 4) \subseteq 0..3 /\ \A b \in 0..3 : b \in Bits(n, 4) <=> Bit(n, b)
  BY <1>2, InBits
<1>5. \A b \in 0..3 : b \in Bits(n, 4) <=> b \in a
  <2>1. 0..3 = {0, 1, 2, 3}
    OBVIOUS
  <2> QED BY <1>3, <1>4, <2>1
<1>6. Bits(n, 4) = a
  BY <1>4, <1>5
<1> QED BY <1>2, <1>6 DEF Number

-----------------------------------------------------------------------------
(* The complement of the crc of the code is the register of the reference. *)

Complement(w) == Positions \ w

(* One nibble of the packet.                                               *)
LEMMA NibbleShifts ==
  ASSUME NEW crc \in SUBSET Positions, NEW d \in SUBSET (0..7)
  PROVE  /\ Nibble(crc, d) \in SUBSET Positions
         /\ Complement(Nibble(crc, d)) = Shift4(Xor(Complement(crc), d \cap 0..3))
<1> DEFINE a == Xor(crc, d) \cap 0..3
           reg == Xor(Complement(crc), d \cap 0..3)
           n == Number(a)
<1>1. n \in 0..15 /\ Bits(n, 4) = a
  BY NumberOf
<1>2. /\ reg \in SUBSET Positions
      /\ \A k \in 0..3 : k \in reg <=> k \notin a
      /\ \A x \in Positions : x + 4 \in reg <=> x <= 27 /\ x + 4 \notin crc
  BY DEF Xor, Complement, Positions
<1> HIDE DEF a, reg, n
<1>3. Nibble(crc, d) = Xor(ShiftRight(crc, 4), Table[n])
  BY DEF Nibble, n, a
<1>4. \A x \in Positions :
        x \in ShiftRight(crc, 4) <=> x <= 27 /\ x + 4 \in crc
  BY DEF ShiftRight, Positions
<1>5. ShiftRight(crc, 4) \in SUBSET Positions /\ Table[n] \in SUBSET Positions
  BY <1>1, TableOfWords DEF ShiftRight, Positions
<1>6. ASSUME NEW x \in Positions
      PROVE  x \in Table[n] <=> (Feedback(x, reg) <=> x <= 27)
  <2>1. x \in Table[n] <=> (Feedback(x, (0..3) \ a) <=> x <= 27)
    BY <1>1, TableEntry
  <2>2. Feedback(x, (0..3) \ a) <=> Feedback(x, reg)
    BY <1>2 DEF Feedback
  <2> QED BY <2>1, <2>2
<1>7. ASSUME NEW x \in Positions
      PROVE  x \notin Nibble(crc, d) <=> x \in Shift4(reg)
  <2>1. x \in Shift4(reg) <=> ~ (x + 4 \in reg <=> Feedback(x, reg))
    BY <1>2, InShift4 DEF Positions
  <2>2. x \in Nibble(crc, d) <=> ~ (x \in ShiftRight(crc, 4) <=> x \in Table[n])
    BY <1>3 DEF Xor
  <2> QED BY <1>2, <1>4, <1>6, <2>1, <2>2
<1>8. Nibble(crc, d) \in SUBSET Positions /\ Shift4(reg) \in SUBSET Positions
  BY <1>2, <1>3, <1>5, InShift4 DEF Xor
<1> QED BY <1>7, <1>8 DEF Complement, reg

(* The bits of a word that are not shifted out are only moved.             *)
LEMMA HighBitsMove ==
  ASSUME NEW reg \in SUBSET Positions, NEW d \in SUBSET (0..7)
  PROVE  /\ ShiftRight(d, 4) \in SUBSET (0..3)
         /\ Xor(reg, d) \in SUBSET Positions
         /\ Shift4(Xor(reg, d)) = Xor(Shift4(Xor(reg, d \cap 0..3)), ShiftRight(d, 4))
<1> DEFINE all == Xor(reg, d)
           low == Xor(reg, d \cap 0..3)
<1>1. /\ all \in SUBSET Positions /\ low \in SUBSET Positions
      /\ \A k \in 0..3 : k \in all <=> k \in low
      /\ \A x \in Nat : x + 4 \in all <=> ~ (x + 4 \in low <=> x + 4 \in d)
  BY DEF Xor, Positions
<1>2. /\ ShiftRight(d, 4) \in SUBSET (0..3)
      /\ \A x \in Nat : x \in ShiftRight(d, 4) <=> x + 4 \in d
  BY DEF ShiftRight
<1> HIDE DEF all, low
<1>3. ASSUME NEW x \in Nat
      PROVE  x \in Shift4(all) <=> ~ (x \in Shift4(low) <=> x \in ShiftRight(d, 4))
  <2>1. /\ x \in Shift4(all) <=> ~ (x + 4 \in all <=> Feedback(x, all))
        /\ x \in Shift4(low) <=> ~ (x + 4 \in low <=> Feedback(x, low))
    BY <1>1, InShift4
  <2>2. Feedback(x, all) <=> Feedback(x, low)
    BY <1>1 DEF Feedback
  <2> QED BY <1>1, <1>2, <2>1, <2>2
<1>4. Shift4(all) \in SUBSET Nat /\ Shift4(low) \in SUBSET Nat
  BY <1>1, InShift4 DEF Positions
<1>5. Shift4(all) = Xor(Shift4(low), ShiftRight(d, 4))
  BY <1>2, <1>3, <1>4 DEF Xor
<1> QED BY <1>1, <1>2, <1>5 DEF all, low

LEMMA RegisterShifts ==
  ASSUME NEW reg \in SUBSET Positions, NEW byte \in Nat
  PROVE  Shift8(Xor(reg, Bits(byte, 8))) \in SUBSET Positions
<1>1. Bits(byte, 8) \in SUBSET (0..7)
  BY InBits
<1>2. Xor(reg, Bits(byte, 8)) \in SUBSET Positions
  BY <1>1, HighBitsMove
<1> QED BY <1>2, InShift4 DEF Shift8

(* One byte of the packet.                                                 *)
LEMMA ByteShifts ==
  ASSUME NEW crc \in SUBSET Positions, NEW byte \in Nat
  PROVE  /\ CrcByte(crc, byte) \in SUBSET Positions
         /\ Complement(CrcByte(crc, byte)) = Shift8(Xor(Complement(crc), Bits(byte, 8)))
<1> DEFINE d == Bits(byte, 8)
           e == ShiftRight(d, 4)
           c == Nibble(crc, d)
<1>1. d \in SUBSET (0..7)
  BY InBits
<1> HIDE DEF d
<1>2. /\ c \in SUBSET Positions
      /\ Complement(c) = Shift4(Xor(Complement(crc), d \cap 0..3))
  BY <1>1, NibbleShifts
<1>3. /\ e \in SUBSET (0..3)
      /\ Shift4(Xor(Complement(crc), d)) = Xor(Complement(c), e)
  <2>1. Complement(crc) \in SUBSET Positions
    BY DEF Complement
  <2>2. /\ e \in SUBSET (0..3)
        /\ Shift4(Xor(Complement(crc), d)) =
             Xor(Shift4(Xor(Complement(crc), d \cap 0..3)), e)
    BY <1>1, <2>1, HighBitsMove
  <2> QED BY <1>2, <2>2
<1> HIDE DEF c, e
<1>4. /\ Nibble(c, e) \in SUBSET Positions
      /\ Complement(Nibble(c, e)) = Shift4(Xor(Complement(c), e))
  <2>1. \A k \in e : k \in 0..3 /\ k \in 0..7
    BY <1>3
  <2>2. e \in SUBSET (0..7) /\ e \cap 0..3 = e
    BY <2>1
  <2> QED BY <1>2, <2>2, NibbleShifts
<1>5. CrcByte(crc, byte) = Nibble(c, e)
  BY DEF CrcByte, c, d, e
<1>6. Shift8(Xor(Complement(crc), d)) = Shift4(Xor(Complement(c), e))
  BY <1>3 DEF Shift8
<1> QED BY <1>4, <1>5, <1>6 DEF d

-----------------------------------------------------------------------------
(* Packets of any length.                                                  *)

(* A recursion over 0..N has a solution.                                   *)
IsFold(f, A, start, N, step) ==
  /\ f \in [0..N -> A]
  /\ f[0] = start
  /\ \A n \in 1..N : f[n] = step[<<f[n - 1], n>>]

LEMMA FoldExists ==
  ASSUME NEW A, NEW start \in A, NEW N \in Nat, NEW step \in [A \X (1..N) -> A]
  PROVE  \E f : IsFold(f, A, start, N, step)
<1> DEFINE Solves(f, k) ==
             f[0] = start /\ \A n \in 1..k : f[n] = step[<<f[n - 1], n>>]
           Has(k) == \E f \in [0..k -> A] : Solves(f, k)
           Bad == {k \in 0..N : ~Has(k)}
<1>1. SUFFICES ASSUME Bad # {} PROVE FALSE
  <2>1. N \notin Bad => Has(N)
    OBVIOUS
  <2> QED BY <2>1 DEF IsFold
<1>2. PICK m \in Bad : \A k \in Bad : m <= k
  <2>1. Bad \in SUBSET Nat
    OBVIOUS
  <2> HIDE DEF Bad
  <2> QED BY <1>1, <2>1, Least
<1>3. CASE m = 0
  <2> DEFINE f == [n \in 0..0 |-> start]
  <2>1. f \in [0..0 -> A] /\ Solves(f, 0)
    OBVIOUS
  <2> QED BY <1>2, <1>3, <2>1
<1>4. CASE m # 0
  <2>1. m \in 1..N /\ m - 1 \in 0..N /\ m - 1 \notin Bad
    BY <1>2, <1>4
  <2>2. PICK f \in [0..(m - 1) -> A] : Solves(f, m - 1)
    BY <2>1
  <2> DEFINE g == [n \in 0..m |-> IF n = m THEN step[<<f[m - 1], m>>] ELSE f[n]]
  <2>3. f[m - 1] \in A
    BY <2>1, <2>2
  <2>4. g \in [0..m -> A]
    BY <2>1, <2>2, <2>3
  <2>5. ASSUME NEW n \in 1..m PROVE g[n] = step[<<g[n - 1], n>>]
    <3>1. g[n - 1] = f[n - 1]
      BY <2>1
    <3>2. CASE n = m
      <4>1. g[m] = step[<<f[m - 1], m>>]
        BY <2>1
      <4> QED BY <3>1, <3>2, <4>1
    <3>3. CASE n # m
      <4>1. n \in 1..(m - 1)
        BY <2>1, <3>3
      <4> QED BY <2>1, <2>2, <3>1, <3>3, <4>1
    <3> QED BY <3>2, <3>3
  <2>6. g[0] = start
    BY <2>1, <2>2
  <2> QED BY <1>2, <2>4, <2>5, <2>6
<1> QED BY <1>3, <1>4

(* utils.hpp 59-65: the table-driven code computes the CRC-32 of IEEE      *)
(* 802.3 of any sequence of bytes.                                         *)
THEOREM CrcOfBytes ==
  ASSUME NEW bytes \in Seq(0..255)
  PROVE  crc32(bytes) = Crc32(bytes)
<1> DEFINE N == Len(bytes)
           CrcStep(c, n) == CrcByte(c, bytes[n])
           RegStep(r, n) == Shift8(Xor(r, Bits(bytes[n], 8)))
           crc == CHOOSE f :
                    f = [n \in 0..N |-> IF n = 0 THEN {} ELSE CrcStep(f[n - 1], n)]
           reg == CHOOSE f :
                    f = [n \in 0..N |-> IF n = 0 THEN 0..31 ELSE RegStep(f[n - 1], n)]
<1>1. crc32(bytes) = crc[N] /\ Crc32(bytes) = (0..31) \ reg[N]
  BY DEF crc32, Crc32
<1>2. N \in Nat /\ \A n \in 1..N : bytes[n] \in Nat
  <2>1. ASSUME NEW S, NEW s \in Seq(S)
        PROVE  Len(s) \in Nat /\ \A n \in 1..Len(s) : s[n] \in S
    OBVIOUS
  <2>2. N \in Nat /\ \A n \in 1..N : bytes[n] \in 0..255
    BY <2>1, Zenon
  <2>3. ASSUME NEW b \in 0..255 PROVE b \in Nat
    OBVIOUS
  <2> HIDE DEF N
  <2> QED BY <2>2, <2>3
<1>3. \A c \in SUBSET Positions, n \in 1..N :
        /\ CrcStep(c, n) \in SUBSET Positions
        /\ Complement(CrcStep(c, n)) = RegStep(Complement(c), n)
  BY <1>2, ByteShifts
<1>4. \A r \in SUBSET Positions, n \in 1..N : RegStep(r, n) \in SUBSET Positions
  BY <1>2, RegisterShifts
<1> HIDE DEF N, CrcStep, RegStep
<1>5. crc = [n \in 0..N |-> IF n = 0 THEN {} ELSE CrcStep(crc[n - 1], n)]
  <2> DEFINE step == [p \in (SUBSET Positions) \X (1..N) |-> CrcStep(p[1], p[2])]
  <2>1. step \in [(SUBSET Positions) \X (1..N) -> SUBSET Positions]
    BY <1>3
  <2>2. \A c \in SUBSET Positions, n \in 1..N : step[<<c, n>>] = CrcStep(c, n)
    OBVIOUS
  <2> HIDE DEF step
  <2> DEFINE Words == SUBSET Positions
  <2>3. PICK f : IsFold(f, Words, {}, N, step)
    <3>1. {} \in Words
      BY DEF Positions
    <3>2. step \in [Words \X (1..N) -> Words] /\ N \in Nat
      BY <1>2, <2>1
    <3> HIDE DEF Words
    <3> QED BY <3>1, <3>2, FoldExists
  <2>4. ASSUME NEW n \in 1..N PROVE f[n] = CrcStep(f[n - 1], n)
    <3>1. n - 1 \in 0..N
      BY <1>2
    <3>2. f[n - 1] \in SUBSET Positions
      BY <2>3, <3>1 DEF IsFold
    <3> QED BY <2>2, <2>3, <3>2 DEF IsFold
  <2>5. f = [n \in 0..N |-> IF n = 0 THEN {} ELSE CrcStep(f[n - 1], n)]
    BY <1>2, <2>3, <2>4 DEF IsFold
  <2> QED BY <2>5
<1>6. reg = [n \in 0..N |-> IF n = 0 THEN 0..31 ELSE RegStep(reg[n - 1], n)]
  <2> DEFINE step == [p \in (SUBSET Positions) \X (1..N) |-> RegStep(p[1], p[2])]
  <2>1. step \in [(SUBSET Positions) \X (1..N) -> SUBSET Positions]
    BY <1>4
  <2>2. \A r \in SUBSET Positions, n \in 1..N : step[<<r, n>>] = RegStep(r, n)
    OBVIOUS
  <2> HIDE DEF step
  <2> DEFINE Words == SUBSET Positions
  <2>3. PICK f : IsFold(f, Words, 0..31, N, step)
    <3>1. 0..31 \in Words
      BY DEF Positions
    <3>2. step \in [Words \X (1..N) -> Words] /\ N \in Nat
      BY <1>2, <2>1
    <3> HIDE DEF Words
    <3> QED BY <3>1, <3>2, FoldExists
  <2>4. ASSUME NEW n \in 1..N PROVE f[n] = RegStep(f[n - 1], n)
    <3>1. n - 1 \in 0..N
      BY <1>2
    <3>2. f[n - 1] \in SUBSET Positions
      BY <2>3, <3>1 DEF IsFold
    <3> QED BY <2>2, <2>3, <3>2 DEF IsFold
  <2>5. f = [n \in 0..N |-> IF n = 0 THEN 0..31 ELSE RegStep(f[n - 1], n)]
    BY <1>2, <2>3, <2>4 DEF IsFold
  <2> QED BY <2>5
<1> HIDE DEF crc, reg
<1> DEFINE Agree(n) == crc[n] \in SUBSET Positions /\ Complement(crc[n]) = reg[n]
           Bad == {n \in 0..N : ~Agree(n)}
<1>7. Agree(0)
  BY <1>2, <1>5, <1>6 DEF Complement, Positions
<1>8. ASSUME NEW n \in 1..N, Agree(n - 1) PROVE Agree(n)
  <2>1. n \in 0..N /\ n # 0
    BY <1>2
  <2>2. crc[n] = CrcStep(crc[n - 1], n)
    BY <1>5, <2>1
  <2>3. reg[n] = RegStep(reg[n - 1], n)
    BY <1>6, <2>1
  <2> QED BY <1>3, <1>8, <2>2, <2>3
<1>9. Bad = {}
  <2>1. SUFFICES ASSUME Bad # {} PROVE FALSE
    OBVIOUS
  <2>2. PICK m \in Bad : \A k \in Bad : m <= k
    <3>1. Bad \in SUBSET Nat
      BY <1>2
    <3> HIDE DEF Bad
    <3> QED BY <2>1, <3>1, Least
  <2> HIDE DEF Agree
  <2>3. m \in 1..N /\ m - 1 \in 0..N
    BY <1>2, <1>7, <2>2
  <2>4. Agree(m - 1)
    BY <2>2, <2>3
  <2> QED BY <1>8, <2>2, <2>3, <2>4
<1>10. Agree(N)
  <2> HIDE DEF Agree
  <2> QED BY <1>2, <1>9
<1> QED BY <1>1, <1>10 DEF Complement, Positions

(* No bytes: the loop of crc32() does not run.                             *)
LEMMA CrcOfNothing == crc32(<< >>) = {}
<1> DEFINE crc == CHOOSE f : f = [n \in 0..0 |-> IF n = 0 THEN {}
                                                 ELSE CrcByte(f[n - 1], << >>[n])]
<1>1. crc32(<< >>) = crc[0]
  BY DEF crc32
<1>2. \E f : f = [n \in 0..0 |-> IF n = 0 THEN {} ELSE CrcByte(f[n - 1], << >>[n])]
  <2> WITNESS [n \in 0..0 |-> {}]
  <2> QED OBVIOUS
<1>3. crc = [n \in 0..0 |-> IF n = 0 THEN {} ELSE CrcByte(crc[n - 1], << >>[n])]
  BY <1>2
<1> HIDE DEF crc
<1> QED BY <1>1, <1>3
=============================================================================
