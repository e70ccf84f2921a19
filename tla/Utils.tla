-------------------------------- MODULE Utils --------------------------------
(***************************************************************************)
(* utils::crc32() of src/viface.cpp, which the examples print of every     *)
(* packet.  A 32-bit word is the set of the positions of its 1 bits, so    *)
(* that no integer of the checker overflows.                               *)
(***************************************************************************)
EXTENDS Integers, Sequences

Xor(a, b) == (a \ b) \cup (b \ a)
ShiftRight(a, n) == {b - n : b \in a \cap n..31}

Bits(n, width) == {b \in 0..(width - 1) : (n \div 2^b) % 2 = 1}
Number(a) == CHOOSE n \in 0..15 : Bits(n, 4) = a
(* The word whose halves are the 16-bit numbers high and low.              *)
Word(high, low) == Bits(low, 16) \cup {b + 16 : b \in Bits(high, 16)}

crc_table == <<
  <<19901, 61980>>, <<20490, 57976>>, <<30419, 53972>>, <<27492, 49840>>,
  <<15201, 45964>>, <<9942, 41960>>,  <<15, 37700>>,    <<7608, 33568>>,
  <<40965, 28988>>, <<48562, 24920>>, <<39787, 20980>>, <<34524, 16784>>,
  <<55001, 12460>>, <<52078, 8392>>,  <<60855, 4196>>,  <<61440, 0>> >>
Table == [n \in 0..15 |-> Word(crc_table[n + 1][1], crc_table[n + 1][2])]

(* One nibble: the low four bits of d.                                     *)
Nibble(crc, d) == Xor(ShiftRight(crc, 4), Table[Number(Xor(crc, d) \cap 0..3)])

(* One byte, the low nibble first.                                         *)
CrcByte(crc, byte) ==
  LET d == Bits(byte, 8) IN Nibble(Nibble(crc, d), ShiftRight(d, 4))

(* Mutant: the high nibble of a byte goes first.                           *)
crc32HighFirst(bytes) ==
  LET crc[n \in 0..Len(bytes)] ==
        IF n = 0 THEN {}
        ELSE LET d == Bits(bytes[n], 8)
             IN Nibble(Nibble(crc[n - 1], ShiftRight(d, 4)), d)
  IN crc[Len(bytes)]

crc32(bytes) ==
  LET crc[n \in 0..Len(bytes)] ==
        IF n = 0 THEN {} ELSE CrcByte(crc[n - 1], bytes[n])
  IN crc[Len(bytes)]

(* The reference, CRC-32 of IEEE 802.3, bit by bit: a register of ones,    *)
(* the reflected polynomial EDB88320, the complement at the end.           *)
Poly == Word(60856, 33568)
Shift(reg) ==
  IF 0 \in reg THEN Xor(ShiftRight(reg, 1), Poly) ELSE ShiftRight(reg, 1)
Shift4(reg) == Shift(Shift(Shift(Shift(reg))))
Shift8(reg) == Shift4(Shift4(reg))
Crc32(bytes) ==
  LET reg[n \in 0..Len(bytes)] ==
        IF n = 0 THEN 0..31 ELSE Shift8(Xor(reg[n - 1], Bits(bytes[n], 8)))
  IN (0..31) \ reg[Len(bytes)]
=============================================================================
