------------------------------- MODULE Crc64 -------------------------------
(***************************************************************************)
(* The checksum of Crc64.cc: of a block of bytes, table driven and a word  *)
(* at a time, for both byte orders, and of two blocks from the checksums   *)
(* of each.  A register is the set of its bits that are set.  The widths   *)
(* and the polynomial are parameters: the code has bytes of 2^3 bits and   *)
(* words of 8 bytes.                                                       *)
(***************************************************************************)
EXTENDS Naturals, Sequences, SequencesExt, FiniteSetsExt

CONSTANTS
    ByteSquares,    \* a byte has 2^ByteSquares bits
    WordBytes,      \* bytes of a word, which is as wide as the checksum
    Poly            \* POLY, reversed

Repeat(Op(_), n, x) == FoldLeft(LAMBDA y, i : Op(y), x, [i \in 1 .. n |-> i])

Twice(n) == n + n
ByteBits == Repeat(Twice, ByteSquares, 1)
Dim == ByteBits * WordBytes
Byte == SUBSET (0 .. ByteBits - 1)
Register == SUBSET (0 .. Dim - 1)

ASSUME WidthsAssumption == ByteSquares \in Nat /\ WordBytes \in Nat \ {0}
ASSUME PolyAssumption == Poly \in Register

Xor(x, y) == SymDiff(x, y)
Not(x) == (0 .. Dim - 1) \ x
ShiftRight(x, n) == {b - n : b \in {c \in x : c >= n}}
ShiftLeft(x, n) == {b + n : b \in x} \cap 0 .. Dim - 1
ByteAt(x, i) == ShiftRight(x, i * ByteBits) \cap 0 .. ByteBits - 1
XorAll(words) == FoldLeft(Xor, {}, words)

\* rev8(): the bytes of a word the other way round.
Reversed(x) == {(WordBytes - 1 - b \div ByteBits) * ByteBits + (b % ByteBits) : b \in x}

-----------------------------------------------------------------------------
(* The tables: the checksum of a byte, and of a byte before k zero bytes.  *)

BitStep(crc) == IF 0 \in crc THEN Xor(Poly, ShiftRight(crc, 1)) ELSE ShiftRight(crc, 1)
ByteTable == [n \in Byte |-> Repeat(BitStep, ByteBits, n)]
ByteStep(crc) == Xor(ByteTable[ByteAt(crc, 0)], ShiftRight(crc, ByteBits))

Table == [k \in 0 .. WordBytes - 1 |-> [n \in Byte |-> Repeat(ByteStep, k, ByteTable[n])]]
BigTable == [k \in 0 .. WordBytes - 1 |-> [n \in Byte |-> Reversed(Table[k][n])]]

-----------------------------------------------------------------------------
(* A block: bytes up to the next word, whole words, and the bytes left.    *)

WordOf(bytes) == UNION {{b + (i - 1) * ByteBits : b \in bytes[i]} : i \in DOMAIN bytes}
WordsOf(bytes) == [i \in 1 .. Len(bytes) \div WordBytes |->
                    WordOf(SubSeq(bytes, (i - 1) * WordBytes + 1, i * WordBytes))]

Pieces(buf, address) ==
    LET toWord == (WordBytes - address) % WordBytes
        lead   == IF Len(buf) < toWord THEN Len(buf) ELSE toWord
        last   == lead + ((Len(buf) - lead) \div WordBytes) * WordBytes
    IN  [lead |-> SubSeq(buf, 1, lead), words |-> WordsOf(SubSeq(buf, lead + 1, last)), rest |-> SubSeq(buf, last + 1, Len(buf))]

LittleByte(crc, byte) == ByteStep(Xor(crc, byte))
LittleWord(crc, word) ==
    LET x == Xor(crc, word) IN XorAll([i \in 1 .. WordBytes |-> Table[WordBytes - i][ByteAt(x, i - 1)]])
CrcLittle(crc, buf, address) ==
    LET p == Pieces(buf, address)
    IN  Not(FoldLeft(LittleByte, FoldLeft(LittleWord, FoldLeft(LittleByte, Not(crc), p.lead), p.words), p.rest))

\* The registers are reversed, so the first byte is the high one.
BigByte(crc, byte) == Xor(BigTable[0][Xor(ByteAt(crc, WordBytes - 1), byte)], ShiftLeft(crc, ByteBits))
BigWord(crc, word) ==
    LET x == Xor(crc, Reversed(word)) IN XorAll([i \in 1 .. WordBytes |-> BigTable[i - 1][ByteAt(x, i - 1)]])
CrcBig(crc, buf, address) ==
    LET p == Pieces(buf, address)
    IN  Not(Reversed(FoldLeft(BigByte, FoldLeft(BigWord, FoldLeft(BigByte, Not(Reversed(crc)), p.lead), p.words), p.rest)))

CalcCRC(crc, buf, address, little) == IF little THEN CrcLittle(crc, buf, address) ELSE CrcBig(crc, buf, address)

-----------------------------------------------------------------------------
(* Two blocks: len2 zero bytes are put behind the first checksum by powers *)
(* of the matrix that puts one.                                            *)

Times(mat, vec) == XorAll([i \in 1 .. Dim |-> IF i - 1 \in vec THEN mat[i - 1] ELSE {}])
Square(mat) == [n \in 0 .. Dim - 1 |-> Times(mat, mat[n])]
ZeroBit == [n \in 0 .. Dim - 1 |-> IF n = 0 THEN Poly ELSE {n - 1}]
ZeroByte == Repeat(Square, ByteSquares, ZeroBit)

\* The bits of len2 from the lowest one; as many rounds as len2 are enough to have it zero.
ZerosStep(z) ==
    IF z.len2 = 0 THEN z
    ELSE [mat |-> Square(z.mat), crc1 |-> IF z.len2 % 2 = 1 THEN Times(z.mat, z.crc1) ELSE z.crc1, len2 |-> z.len2 \div 2]
PutZeros(mat, crc1, len2) == Repeat(ZerosStep, len2, [mat |-> mat, crc1 |-> crc1, len2 |-> len2]).crc1

\* A plausible bug: the matrix for a bit is applied where that for a byte is due.
CombineCRC_Bits(crc1, crc2, len2) == IF len2 = 0 THEN crc1 ELSE Xor(PutZeros(ZeroBit, crc1, len2), crc2)

CombineCRC(crc1, crc2, len2) == IF len2 = 0 THEN crc1 ELSE Xor(PutZeros(ZeroByte, crc1, len2), crc2)

-----------------------------------------------------------------------------
\* What all this is to compute: the register of the polynomial, all ones at the start and complemented at the end, is fed the
\* bits of the block one after the other.
Feed(crc, byte) == Repeat(BitStep, ByteBits, Xor(crc, byte))
Crc(buf) == Not(FoldLeft(Feed, Not({}), buf))
=============================================================================
