------------------------ MODULE FileChecksum_proofs ------------------------
(***************************************************************************)
(* Proofs about Crc64 and FileChecksum for every polynomial, every width   *)
(* of a byte and of a word, and blocks and files of every length: the      *)
(* table driven checksum, a word at a time, of both byte orders is that of *)
(* the bits one after the other; two checksums are combined into that of   *)
(* both blocks; and those of the parts into that of the file.              *)
(***************************************************************************)
EXTENDS FileChecksum, PartPlan_proofs, FiniteSetTheorems

(* What is folded, over what.                                              *)

TwiceOp(n, i) == Twice(n)
BitOp(crc, i) == BitStep(crc)
ByteOp(crc, i) == ByteStep(crc)
SquareOp(mat, i) == Square(mat)
ZerosOp(z, i) == ZerosStep(z)
Matrix == [0 .. Dim - 1 -> Register]
Zeroing == [mat : Matrix, crc1 : Register, len2 : Nat]

Widths == INSTANCE Folding WITH Op <- TwiceOp, Values <- Nat \ {0}, Elements <- Nat
Bits == INSTANCE Folding WITH Op <- BitOp, Values <- Register, Elements <- Nat
Bytes8 == INSTANCE Folding WITH Op <- ByteOp, Values <- Register, Elements <- Nat
Xors == INSTANCE Folding WITH Op <- Xor, Values <- Register, Elements <- Register
Feeds == INSTANCE Folding WITH Op <- Feed, Values <- Register, Elements <- Byte
Squares == INSTANCE Folding WITH Op <- SquareOp, Values <- Matrix, Elements <- Nat
Zeros == INSTANCE Folding WITH Op <- ZerosOp, Values <- Zeroing, Elements <- Nat
LittleBytes == INSTANCE Folding WITH Op <- LittleByte, Values <- Register, Elements <- Byte
BigBytes == INSTANCE Folding WITH Op <- BigByte, Values <- Register, Elements <- Byte
LittleWords == INSTANCE Folding WITH Op <- LittleWord, Values <- Register, Elements <- Register
BigWords == INSTANCE Folding WITH Op <- BigWord, Values <- Register, Elements <- Register

Width(n) == Repeat(Twice, n, 1)

LEMMA WidthDoubles ==
    ASSUME NEW n \in Nat
    PROVE  Width(0) = 1 /\ Width(n) \in Nat \ {0} /\ Width(n + 1) = Width(n) + Width(n)
<1>1. Widths!IsClosed
  BY DEF Widths!IsClosed, TwiceOp, Twice
<1>2. \A m : Width(m) = Widths!Folded(1, [i \in 1 .. m |-> i])
  BY DEF Width, Repeat, FoldLeft, MapThenFoldSet, Max, TwiceOp,
         Widths!Folded, Widths!MapThenFoldSet, Widths!Greatest
<1>3. 1 \in Nat \ {0}
  OBVIOUS
<1>4. /\ Width(0) = 1
      /\ Width(n) \in Nat \ {0}
      /\ Width(n + 1) = TwiceOp(Width(n), n + 1)
  BY <1>1, <1>2, <1>3, Widths!FoldOfNumbers
<1> QED BY <1>4 DEF TwiceOp, Twice

LEMMA WidthsAre ==
    /\ ByteBits \in Nat \ {0} /\ WordBytes \in Nat \ {0}
    /\ Dim \in Nat \ {0} /\ ByteBits <= Dim
<1>1. ByteBits \in Nat \ {0}
  BY WidthsAssumption, WidthDoubles DEF ByteBits, Width
<1> HIDE DEF ByteBits
<1>2. Dim \in Nat \ {0} /\ ByteBits <= Dim
  BY <1>1, WidthsAssumption, Z3 DEF Dim
<1> QED BY <1>1, <1>2, WidthsAssumption

-----------------------------------------------------------------------------
(* Registers: exclusive or, and shifts.                                    *)

LEMMA XorIs ==
    ASSUME NEW x, NEW y, NEW b
    PROVE  b \in Xor(x, y) <=> ~(b \in x <=> b \in y)
BY DEF Xor, SymDiff

LEMMA XorSame ==
    ASSUME NEW x, NEW y, NEW z, \A b : b \in z <=> ~(b \in x <=> b \in y)
    PROVE  z = Xor(x, y)
BY DEF Xor, SymDiff

LEMMA XorLaws ==
    ASSUME NEW x, NEW y, NEW z
    PROVE  /\ Xor(x, y) = Xor(y, x)
           /\ Xor(Xor(x, y), z) = Xor(x, Xor(y, z))
           /\ Xor(x, x) = {} /\ Xor({}, x) = x /\ Xor(x, {}) = x
BY DEF Xor, SymDiff

LEMMA XorOfRegisters ==
    ASSUME NEW x \in Register, NEW y \in Register
    PROVE  Xor(x, y) \in Register
BY DEF Xor, SymDiff, Register

\* Two pairs, combined crosswise.
LEMMA XorCrosswise ==
    ASSUME NEW w, NEW x, NEW y, NEW z
    PROVE  Xor(Xor(w, x), Xor(y, z)) = Xor(Xor(w, y), Xor(x, z))
<1> SUFFICES ASSUME NEW b
             PROVE  b \in Xor(Xor(w, x), Xor(y, z)) <=> b \in Xor(Xor(w, y), Xor(x, z))
  OBVIOUS
<1> QED BY XorIs

LEMMA ShiftIs ==
    ASSUME NEW x, x \subseteq Nat, NEW n \in Nat
    PROVE  /\ ShiftRight(x, n) \subseteq Nat
           /\ \A b \in Nat : b \in ShiftRight(x, n) <=> b + n \in x
<1>1. ShiftRight(x, n) \subseteq Nat
  BY DEF ShiftRight
<1>2. ASSUME NEW b \in Nat, b \in ShiftRight(x, n) PROVE b + n \in x
  <2>1. PICK c \in x : c >= n /\ b = c - n
    BY <1>2 DEF ShiftRight
  <2>2. c \in Nat /\ b + n = c
    BY <2>1
  <2> QED BY <2>2
<1>3. ASSUME NEW b \in Nat, b + n \in x PROVE b \in ShiftRight(x, n)
  <2>1. b + n >= n /\ b = (b + n) - n
    OBVIOUS
  <2> QED BY <1>3, <2>1 DEF ShiftRight
<1> QED BY <1>1, <1>2, <1>3

LEMMA RegisterIs ==
    ASSUME NEW x \in Register
    PROVE  /\ x \subseteq Nat
           /\ \A b \in x : b \in 0 .. Dim - 1
BY WidthsAre DEF Register

LEMMA ShiftOfRegister ==
    ASSUME NEW x \in Register, NEW n \in Nat
    PROVE  ShiftRight(x, n) \in Register
<1>1. x \subseteq Nat /\ \A b \in x : b \in 0 .. Dim - 1
  BY RegisterIs
<1>2. ASSUME NEW b \in ShiftRight(x, n) PROVE b \in 0 .. Dim - 1
  <2>1. b \in Nat /\ b + n \in x
    BY <1>1, <1>2, ShiftIs
  <2>2. b + n \in 0 .. Dim - 1
    BY <1>1, <2>1
  <2> QED BY <2>1, <2>2, WidthsAre
<1> QED BY <1>2 DEF Register

LEMMA ShiftOfXor ==
    ASSUME NEW x \in Register, NEW y \in Register, NEW n \in Nat
    PROVE  ShiftRight(Xor(x, y), n) = Xor(ShiftRight(x, n), ShiftRight(y, n))
<1> DEFINE l == ShiftRight(Xor(x, y), n)
           r == Xor(ShiftRight(x, n), ShiftRight(y, n))
<1>1. x \subseteq Nat /\ y \subseteq Nat /\ Xor(x, y) \subseteq Nat
  BY XorOfRegisters, RegisterIs
<1>2. l \subseteq Nat /\ r \subseteq Nat
  <2>1. ShiftRight(x, n) \subseteq Nat /\ ShiftRight(y, n) \subseteq Nat /\ l \subseteq Nat
    BY <1>1, ShiftIs
  <2> QED BY <2>1, XorIs
<1>3. ASSUME NEW b \in Nat PROVE b \in l <=> b \in r
  <2>1. b \in l <=> b + n \in Xor(x, y)
    BY <1>1, ShiftIs
  <2>2. (b \in ShiftRight(x, n) <=> b + n \in x) /\ (b \in ShiftRight(y, n) <=> b + n \in y)
    BY <1>1, ShiftIs
  <2>3. b + n \in Xor(x, y) <=> ~(b + n \in x <=> b + n \in y)
    BY XorIs
  <2>4. b \in r <=> ~(b \in ShiftRight(x, n) <=> b \in ShiftRight(y, n))
    BY XorIs
  <2> QED BY <2>1, <2>2, <2>3, <2>4
<1> HIDE DEF l, r
<1>4. l = r
  BY <1>2, <1>3
<1> QED BY <1>4 DEF l, r

LEMMA ShiftTwice ==
    ASSUME NEW x \in Register, NEW m \in Nat, NEW n \in Nat
    PROVE  ShiftRight(ShiftRight(x, m), n) = ShiftRight(x, m + n)
<1> DEFINE y == ShiftRight(x, m)
           l == ShiftRight(y, n)
           r == ShiftRight(x, m + n)
<1>0. x \subseteq Nat
  BY RegisterIs
<1>a. y \subseteq Nat
  BY <1>0, ShiftIs
<1>b. m + n \in Nat
  OBVIOUS
<1>c. \A c \in Nat : c \in y <=> c + m \in x
  BY <1>0, ShiftIs
<1> HIDE DEF y
<1>1. x \subseteq Nat /\ y \subseteq Nat /\ m + n \in Nat
  BY <1>0, <1>a, <1>b
<1>2. l \subseteq Nat /\ r \subseteq Nat
  BY <1>1, ShiftIs
<1>3. ASSUME NEW b \in Nat PROVE b \in l <=> b \in r
  <2>1. b \in l <=> b + n \in y
    BY <1>1, ShiftIs
  <2>2. b + n \in Nat /\ (b + n) + m = b + (m + n)
    OBVIOUS
  <2>3. b + n \in y <=> (b + n) + m \in x
    BY <1>c, <2>2
  <2>4. b \in r <=> b + (m + n) \in x
    BY <1>1, ShiftIs
  <2> QED BY <2>1, <2>2, <2>3, <2>4
<1> HIDE DEF l, r
<1>4. l = r
  BY <1>2, <1>3
<1> QED BY <1>4 DEF l, r, y

LEMMA ShiftOfNone ==
    ASSUME NEW x \in Register
    PROVE  ShiftRight(x, 0) = x /\ ShiftRight({}, 1) = {}
<1>1. x \subseteq Nat
  BY RegisterIs
<1>2. ShiftRight(x, 0) \subseteq Nat /\ \A b \in Nat : b \in ShiftRight(x, 0) <=> b + 0 \in x
  BY <1>1, ShiftIs
<1>3. \A b \in Nat : b + 0 = b
  OBVIOUS
<1>4. ShiftRight(x, 0) = x
  BY <1>1, <1>2, <1>3
<1>5. ShiftRight({}, 1) = {}
  BY DEF ShiftRight
<1> QED BY <1>4, <1>5

-----------------------------------------------------------------------------
(* Steps of one bit.                                                       *)

LEMMA BitStepOfXor ==
    ASSUME NEW x \in Register, NEW y \in Register
    PROVE  BitStep(Xor(x, y)) = Xor(BitStep(x), BitStep(y))
<1> DEFINE p == ShiftRight(x, 1)
           q == ShiftRight(y, 1)
<1>1. ShiftRight(Xor(x, y), 1) = Xor(p, q)
  BY ShiftOfXor
<1>2. 0 \in Xor(x, y) <=> ~(0 \in x <=> 0 \in y)
  BY XorIs
<1> HIDE DEF p, q
<1>3. BitStep(Xor(x, y)) = IF 0 \in Xor(x, y) THEN Xor(Poly, Xor(p, q)) ELSE Xor(p, q)
  BY <1>1 DEF BitStep
<1>4. /\ BitStep(x) = IF 0 \in x THEN Xor(Poly, p) ELSE p
      /\ BitStep(y) = IF 0 \in y THEN Xor(Poly, q) ELSE q
  BY DEF BitStep, p, q
<1>5. /\ Xor(Xor(Poly, p), Xor(Poly, q)) = Xor(p, q)
      /\ Xor(Xor(Poly, p), q) = Xor(Poly, Xor(p, q))
      /\ Xor(p, Xor(Poly, q)) = Xor(Poly, Xor(p, q))
  BY DEF Xor, SymDiff
<1> QED BY <1>2, <1>3, <1>4, <1>5

LEMMA BitStepOfRegister ==
    ASSUME NEW x \in Register
    PROVE  BitStep(x) \in Register
<1>1. ShiftRight(x, 1) \in Register
  BY ShiftOfRegister
<1>2. Xor(Poly, ShiftRight(x, 1)) \in Register
  BY <1>1, PolyAssumption, XorOfRegisters
<1> QED BY <1>1, <1>2 DEF BitStep

(* So many of them.                                                        *)
Steps(n, x) == Repeat(BitStep, n, x)

LEMMA StepByStep ==
    ASSUME NEW n \in Nat, NEW x \in Register
    PROVE  Steps(0, x) = x /\ Steps(n, x) \in Register /\ Steps(n + 1, x) = BitStep(Steps(n, x))
<1>1. Bits!IsClosed
  BY BitStepOfRegister DEF Bits!IsClosed, BitOp
<1>2. \A m : Steps(m, x) = Bits!Folded(x, [i \in 1 .. m |-> i])
  BY DEF Steps, Repeat, FoldLeft, MapThenFoldSet, Max, BitOp,
         Bits!Folded, Bits!MapThenFoldSet, Bits!Greatest
<1>3. /\ Steps(0, x) = x
      /\ Steps(n, x) \in Register
      /\ Steps(n + 1, x) = BitOp(Steps(n, x), n + 1)
  BY <1>1, <1>2, Bits!FoldOfNumbers
<1> QED BY <1>3 DEF BitOp

LEMMA StepsOfXor ==
    ASSUME NEW n \in Nat, NEW x \in Register, NEW y \in Register
    PROVE  Steps(n, Xor(x, y)) = Xor(Steps(n, x), Steps(n, y))
<1> DEFINE K == {k \in 0 .. n : Steps(k, Xor(x, y)) = Xor(Steps(k, x), Steps(k, y))}
<1>1. Xor(x, y) \in Register
  BY XorOfRegisters
<1>2. 0 \in K
  BY <1>1, StepByStep
<1>3. ASSUME NEW k \in 1 .. n, k - 1 \in K PROVE k \in K
  <2>1. k - 1 \in Nat /\ (k - 1) + 1 = k
    OBVIOUS
  <2>2. /\ Steps(k, Xor(x, y)) = BitStep(Steps(k - 1, Xor(x, y)))
        /\ Steps(k, x) = BitStep(Steps(k - 1, x)) /\ Steps(k - 1, x) \in Register
        /\ Steps(k, y) = BitStep(Steps(k - 1, y)) /\ Steps(k - 1, y) \in Register
    BY <1>1, <2>1, StepByStep
  <2> QED BY <1>3, <2>2, BitStepOfXor
<1>4. \A k \in 0 .. n : k \in K
  <2> HIDE DEF K
  <2> QED BY <1>2, <1>3, Bits!GoesOn
<1> QED BY <1>4

LEMMA StepsAfterSteps ==
    ASSUME NEW m \in Nat, NEW n \in Nat, NEW x \in Register
    PROVE  Steps(n, Steps(m, x)) = Steps(m + n, x)
<1> DEFINE K == {k \in 0 .. n : Steps(k, Steps(m, x)) = Steps(m + k, x)}
<1>1. Steps(m, x) \in Register
  BY StepByStep
<1>2. 0 \in K
  BY <1>1, StepByStep, m + 0 = m
<1>3. ASSUME NEW k \in 1 .. n, k - 1 \in K PROVE k \in K
  <2>1. k - 1 \in Nat /\ (k - 1) + 1 = k /\ m + (k - 1) \in Nat /\ (m + (k - 1)) + 1 = m + k
    OBVIOUS
  <2>2. /\ Steps(k, Steps(m, x)) = BitStep(Steps(k - 1, Steps(m, x)))
        /\ Steps(m + k, x) = BitStep(Steps(m + (k - 1), x))
    BY <1>1, <2>1, StepByStep
  <2> QED BY <1>3, <2>2
<1>4. \A k \in 0 .. n : k \in K
  <2> HIDE DEF K
  <2> QED BY <1>2, <1>3, Bits!GoesOn
<1> QED BY <1>4

\* As long as only zeros come out, a step is a shift.
LEMMA StepsAreShifts ==
    ASSUME NEW n \in Nat, NEW x \in Register, \A b \in x : b >= n
    PROVE  Steps(n, x) = ShiftRight(x, n)
<1> DEFINE K == {k \in 0 .. n : Steps(k, x) = ShiftRight(x, k)}
<1>0. x \subseteq Nat
  BY RegisterIs
<1>1. 0 \in K
  BY StepByStep, ShiftOfNone
<1>2. ASSUME NEW k \in 1 .. n, k - 1 \in K PROVE k \in K
  <2>1. k - 1 \in Nat /\ (k - 1) + 1 = k /\ 0 + (k - 1) = k - 1 /\ ~(k - 1 >= n)
    OBVIOUS
  <2>2. Steps(k, x) = BitStep(ShiftRight(x, k - 1))
    BY <1>2, <2>1, StepByStep
  <2>3. 0 \notin ShiftRight(x, k - 1)
    BY <1>0, <2>1, ShiftIs
  <2>4. Steps(k, x) = ShiftRight(ShiftRight(x, k - 1), 1)
    BY <2>2, <2>3 DEF BitStep
  <2>5. ShiftRight(ShiftRight(x, k - 1), 1) = ShiftRight(x, (k - 1) + 1)
    BY <2>1, ShiftTwice
  <2> QED BY <2>1, <2>4, <2>5
<1>3. \A k \in 0 .. n : k \in K
  <2> HIDE DEF K
  <2> QED BY <1>1, <1>2, Bits!GoesOn
<1> QED BY <1>3

LEMMA StepsOfNone ==
    ASSUME NEW n \in Nat
    PROVE  {} \in Register /\ Steps(n, {}) = {}
<1>1. {} \in Register /\ Xor({}, {}) = {}
  BY XorLaws DEF Register
<1>2. Steps(n, Xor({}, {})) = Xor(Steps(n, {}), Steps(n, {}))
  BY <1>1, StepsOfXor
<1> QED BY <1>1, <1>2, XorLaws

\* Steps look at the lowest bits only, and the others move down.
LEMMA StepsOfLowBits ==
    ASSUME NEW n \in Nat, NEW x \in Register
    PROVE  /\ x \cap 0 .. n - 1 \in Register
           /\ Steps(n, x) = Xor(Steps(n, x \cap 0 .. n - 1), ShiftRight(x, n))
<1> DEFINE low == x \cap 0 .. n - 1
           high == {b \in x : b >= n}
<1>1. x \subseteq Nat /\ high \subseteq Nat
  BY RegisterIs
<1>2. low \in Register /\ high \in Register
  BY DEF Register
<1>3. x = Xor(low, high)
  <2>1. \A b \in x : b \in Nat /\ (b \in 0 .. n - 1 <=> ~(b >= n))
    BY <1>1
  <2>2. \A b : b \in x <=> ~(b \in low <=> b \in high)
    BY <2>1
  <2> HIDE DEF low, high
  <2> QED BY <2>2, XorIs
<1>4. ShiftRight(high, n) = ShiftRight(x, n)
  BY DEF ShiftRight
<1>5. \A b \in high : b >= n
  OBVIOUS
<1> HIDE DEF low, high
<1>6. Steps(n, high) = ShiftRight(x, n)
  BY <1>2, <1>4, <1>5, StepsAreShifts
<1>7. Steps(n, Xor(low, high)) = Xor(Steps(n, low), Steps(n, high))
  BY <1>2, StepsOfXor
<1>8. low \in Register /\ Steps(n, x) = Xor(Steps(n, low), ShiftRight(x, n))
  BY <1>2, <1>3, <1>6, <1>7
<1> QED BY <1>8 DEF low

-----------------------------------------------------------------------------
(* Steps of a byte, and the tables.                                        *)

(* Where byte k begins.                                                    *)
At(k) == k * ByteBits

LEMMA AtIs ==
    /\ At(0) = 0 /\ At(1) = ByteBits /\ At(WordBytes) = Dim
    /\ \A k \in Nat : At(k) \in Nat /\ At(k + 1) = At(k) + ByteBits
    /\ \A k, m \in Nat : k <= m => At(k) <= At(m)
    /\ \A k, m \in Nat : At(k + m) = At(k) + At(m)
<1> DEFINE n == ByteBits
<1>1. n \in Nat \ {0} /\ WordBytes \in Nat \ {0}
  BY WidthsAre
<1> HIDE DEF n
<1>2. 0 * n = 0 /\ 1 * n = n
  BY <1>1
<1>3. n * WordBytes = WordBytes * n
  BY <1>1, Z3
<1>4. \A k \in Nat : k * n \in Nat /\ (k + 1) * n = k * n + n
  BY <1>1, Z3
<1>5. \A k, m \in Nat : k <= m => k * n <= m * n
  BY <1>1, Z3
<1>6. \A k, m \in Nat : (k + m) * n = k * n + m * n
  BY <1>1, Z3
<1> QED BY <1>2, <1>3, <1>4, <1>5, <1>6 DEF At, Dim, n

LEMMA ByteIsRegister == Byte \subseteq Register
BY WidthsAre DEF Byte, Register

LEMMA ByteAtIs ==
    ASSUME NEW x \in Register, NEW i \in Nat
    PROVE  /\ ByteAt(x, i) \in Byte
           /\ \A b \in Nat : b \in ByteAt(x, i) <=> b + At(i) \in x /\ b < ByteBits
<1>1. x \subseteq Nat /\ At(i) \in Nat /\ ByteBits \in Nat
  BY RegisterIs, AtIs, WidthsAre
<1>2. ByteAt(x, i) = ShiftRight(x, At(i)) \cap 0 .. ByteBits - 1
  BY DEF ByteAt, At
<1>3. ByteAt(x, i) \in Byte
  BY <1>2 DEF Byte
<1>4. \A b \in Nat : b \in ShiftRight(x, At(i)) <=> b + At(i) \in x
  BY <1>1, ShiftIs
<1>5. \A b \in Nat : b \in 0 .. ByteBits - 1 <=> b < ByteBits
  BY <1>1
<1> QED BY <1>2, <1>3, <1>4, <1>5

LEMMA ByteTableIs ==
    ASSUME NEW b \in Byte
    PROVE  ByteTable[b] = Steps(ByteBits, b)
BY DEF ByteTable, Steps

LEMMA ByteStepIs ==
    ASSUME NEW x \in Register
    PROVE  ByteStep(x) = Steps(ByteBits, x)
<1>1. ByteBits \in Nat
  BY WidthsAre
<1>2. ByteAt(x, 0) \in Byte
  BY ByteAtIs
<1>3. ByteAt(x, 0) = x \cap 0 .. ByteBits - 1
  <2>1. ShiftRight(x, 0 * ByteBits) = x
    BY <1>1, ShiftOfNone, 0 * ByteBits = 0
  <2> QED BY <2>1 DEF ByteAt
<1>4. Steps(ByteBits, x) = Xor(Steps(ByteBits, x \cap 0 .. ByteBits - 1), ShiftRight(x, ByteBits))
  BY <1>1, StepsOfLowBits
<1>5. ByteTable[ByteAt(x, 0)] = Steps(ByteBits, ByteAt(x, 0))
  BY <1>2, ByteTableIs
<1> QED BY <1>3, <1>4, <1>5 DEF ByteStep

LEMMA ByteStepsAre ==
    ASSUME NEW n \in Nat, NEW x \in Register
    PROVE  Repeat(ByteStep, n, x) = Steps(At(n), x)
<1> DEFINE F(m) == Repeat(ByteStep, m, x)
           K == {k \in 0 .. n : F(k) = Steps(At(k), x)}
<1>1. Bytes8!IsClosed
  BY ByteStepIs, StepByStep, WidthsAre DEF Bytes8!IsClosed, ByteOp
<1>2. \A m : F(m) = Bytes8!Folded(x, [i \in 1 .. m |-> i])
  BY DEF Repeat, FoldLeft, MapThenFoldSet, Max, ByteOp,
         Bytes8!Folded, Bytes8!MapThenFoldSet, Bytes8!Greatest
<1>3. \A m \in Nat : F(0) = x /\ F(m) \in Register /\ F(m + 1) = ByteStep(F(m))
  <2> SUFFICES ASSUME NEW m \in Nat PROVE F(0) = x /\ F(m) \in Register /\ F(m + 1) = ByteOp(F(m), m + 1)
    BY DEF ByteOp
  <2> HIDE DEF F
  <2> QED BY <1>1, <1>2, Bytes8!FoldOfNumbers
<1> HIDE DEF F
<1>4. 0 \in K
  BY <1>3, AtIs, StepByStep
<1>5. ASSUME NEW k \in 1 .. n, k - 1 \in K PROVE k \in K
  <2>1. k - 1 \in Nat /\ (k - 1) + 1 = k
    OBVIOUS
  <2>2. F(k) = Steps(ByteBits, F(k - 1)) /\ F(k - 1) = Steps(At(k - 1), x)
    BY <1>3, <1>5, <2>1, ByteStepIs
  <2>3. Steps(ByteBits, Steps(At(k - 1), x)) = Steps(At(k - 1) + ByteBits, x)
    <3>1. ByteBits \in Nat /\ At(k - 1) \in Nat
      BY <2>1, AtIs, WidthsAre
    <3> QED BY <3>1, StepsAfterSteps
  <2>4. At(k) = At(k - 1) + ByteBits
    BY <2>1, AtIs
  <2> QED BY <2>2, <2>3, <2>4
<1>6. \A k \in 0 .. n : k \in K
  <2> HIDE DEF K
  <2> QED BY <1>4, <1>5, Bits!GoesOn
<1> QED BY <1>6 DEF F

LEMMA TableIs ==
    ASSUME NEW k \in 0 .. WordBytes - 1, NEW b \in Byte
    PROVE  Table[k][b] = Steps(At(k + 1), b) /\ Table[k][b] \in Register
<1>1. k \in Nat /\ b \in Register /\ ByteBits \in Nat
  BY ByteIsRegister, WidthsAre
<1>2. ByteTable[b] = Steps(ByteBits, b) /\ Steps(ByteBits, b) \in Register
  BY <1>1, ByteTableIs, StepByStep
<1>3. Table[k][b] = Repeat(ByteStep, k, ByteTable[b])
  BY DEF Table
<1>4. Repeat(ByteStep, k, Steps(ByteBits, b)) = Steps(At(k), Steps(ByteBits, b))
  BY <1>1, <1>2, ByteStepsAre
<1>5. Steps(At(k), Steps(ByteBits, b)) = Steps(ByteBits + At(k), b)
  BY <1>1, AtIs, StepsAfterSteps
<1>6. ByteBits + At(k) = At(k + 1) /\ At(k + 1) \in Nat
  BY <1>1, AtIs
<1>7. Table[k][b] = Steps(At(k + 1), b)
  BY <1>2, <1>3, <1>4, <1>5, <1>6
<1> QED BY <1>1, <1>6, <1>7, StepByStep

-----------------------------------------------------------------------------
(* A word at a time.                                                       *)

(* The bits of a register below place k, and those of its byte i.          *)
Below(x, k) == {b \in x : b < k}
ByteIn(x, i) == {b \in x : At(i - 1) <= b /\ b < At(i)}

LEMMA BelowIs ==
    ASSUME NEW x \in Register
    PROVE  /\ Below(x, At(0)) = {} /\ Below(x, Dim) = x
           /\ \A k : Below(x, k) \in Register
           /\ \A i \in Nat \ {0} : /\ ByteIn(x, i) \in Register
                                   /\ Below(x, At(i)) = Xor(Below(x, At(i - 1)), ByteIn(x, i))
<1>1. x \subseteq Nat /\ \A b \in x : b \in 0 .. Dim - 1
  BY RegisterIs
<1>2. At(0) = 0 /\ Dim \in Nat
  BY AtIs, WidthsAre
<1>3. Below(x, At(0)) = {} /\ Below(x, Dim) = x
  <2>1. \A b \in x : ~(b < 0) /\ b < Dim
    BY <1>1, <1>2
  <2> QED BY <2>1, <1>2 DEF Below
<1>4. \A k : Below(x, k) \in Register
  BY DEF Below, Register
<1>5. ASSUME NEW i \in Nat \ {0}
      PROVE  ByteIn(x, i) \in Register /\ Below(x, At(i)) = Xor(Below(x, At(i - 1)), ByteIn(x, i))
  <2>1. i - 1 \in Nat /\ i \in Nat /\ i - 1 <= i
    OBVIOUS
  <2>2. At(i - 1) \in Nat /\ At(i) \in Nat /\ At(i - 1) <= At(i)
    BY <2>1, AtIs
  <2>3. ByteIn(x, i) \in Register
    BY DEF ByteIn, Register
  <2>4. \A b \in x : b < At(i) <=> ~(b < At(i - 1) <=> At(i - 1) <= b /\ b < At(i))
    BY <1>1, <2>2
  <2>5. \A b : b \in Below(x, At(i)) <=> ~(b \in Below(x, At(i - 1)) <=> b \in ByteIn(x, i))
    BY <2>4 DEF Below, ByteIn
  <2>6. Below(x, At(i)) = Xor(Below(x, At(i - 1)), ByteIn(x, i))
    BY <2>5, XorSame
  <2> QED BY <2>3, <2>6
<1> QED BY <1>3, <1>4, <1>5

\* A byte comes to the bottom with so many steps.
LEMMA ByteComesDown ==
    ASSUME NEW x \in Register, NEW i \in Nat \ {0}
    PROVE  Steps(At(i - 1), ByteIn(x, i)) = ByteAt(x, i - 1)
<1> DEFINE y == ByteIn(x, i)
           n == At(i - 1)
<1>1. i - 1 \in Nat /\ (i - 1) + 1 = i
  OBVIOUS
<1>2. n \in Nat /\ At(i) = n + ByteBits /\ ByteBits \in Nat
  BY <1>1, AtIs, WidthsAre
<1>3. y \in Register /\ y \subseteq Nat
  BY BelowIs, RegisterIs
<1>4. \A b \in y : b >= n
  <2>1. \A b \in y : n <= b
    BY DEF ByteIn
  <2> QED BY <2>1, <1>2, <1>3
<1>5. \A b : b \in y <=> b \in x /\ n <= b /\ b < n + ByteBits
  BY <1>2 DEF ByteIn
<1>6. \A b \in Nat : b \in ByteAt(x, i - 1) <=> b + n \in x /\ b < ByteBits
  BY <1>1, ByteAtIs
<1>7. ByteAt(x, i - 1) \subseteq Nat
  BY <1>1, <1>2, ByteAtIs DEF Byte
<1> HIDE DEF y, n
<1>8. Steps(n, y) = ShiftRight(y, n)
  BY <1>2, <1>3, <1>4, StepsAreShifts
<1>9. ShiftRight(y, n) \subseteq Nat /\ \A b \in Nat : b \in ShiftRight(y, n) <=> b + n \in y
  BY <1>2, <1>3, ShiftIs
<1>10. \A b \in Nat : b \in ShiftRight(y, n) <=> b \in ByteAt(x, i - 1)
  <2> SUFFICES ASSUME NEW b \in Nat PROVE b + n \in y <=> b \in ByteAt(x, i - 1)
    BY <1>9
  <2>1. n <= b + n /\ (b + n < n + ByteBits <=> b < ByteBits)
    BY <1>2
  <2> QED BY <1>5, <1>6, <2>1
<1>11. ShiftRight(y, n) = ByteAt(x, i - 1)
  BY <1>7, <1>9, <1>10
<1> QED BY <1>8, <1>11 DEF y, n

\* What the tables have for a byte of a word is where the steps of the whole word take it.
LEMMA TableOfWord ==
    ASSUME NEW x \in Register, NEW i \in 1 .. WordBytes
    PROVE  /\ Table[WordBytes - i][ByteAt(x, i - 1)] = Steps(Dim, ByteIn(x, i))
           /\ Table[WordBytes - i][ByteAt(x, i - 1)] \in Register
<1> DEFINE k == WordBytes - i
<1>1. /\ WordBytes \in Nat /\ i \in Nat \ {0} /\ i - 1 \in Nat /\ k + 1 \in Nat
      /\ k \in 0 .. WordBytes - 1 /\ (i - 1) + (k + 1) = WordBytes
  BY WidthsAre
<1>2. ByteAt(x, i - 1) \in Byte /\ ByteIn(x, i) \in Register
  BY <1>1, ByteAtIs, BelowIs
<1> HIDE DEF k
<1>3. /\ Table[k][ByteAt(x, i - 1)] = Steps(At(k + 1), ByteAt(x, i - 1))
      /\ Table[k][ByteAt(x, i - 1)] \in Register
  BY <1>1, <1>2, TableIs
<1>4. ByteAt(x, i - 1) = Steps(At(i - 1), ByteIn(x, i))
  BY <1>1, ByteComesDown
<1>5. At(i - 1) \in Nat /\ At(k + 1) \in Nat /\ At(i - 1) + At(k + 1) = Dim
  <2>1. At((i - 1) + (k + 1)) = At(i - 1) + At(k + 1)
    BY <1>1, AtIs
  <2> QED BY <1>1, <2>1, AtIs
<1>6. Steps(At(k + 1), Steps(At(i - 1), ByteIn(x, i))) = Steps(Dim, ByteIn(x, i))
  BY <1>2, <1>5, StepsAfterSteps
<1> QED BY <1>3, <1>4, <1>6 DEF k

LEMMA XorsIs ==
    ASSUME NEW s \in Seq(Register), NEW r, r[0] = {}, \A k \in 1 .. Len(s) : r[k] = Xor(r[k - 1], s[k])
    PROVE  XorAll(s) = r[Len(s)]
<1>1. Xors!IsClosed
  BY XorOfRegisters DEF Xors!IsClosed
<1>2. {} \in Register
  BY DEF Register
<1>3. XorAll(s) = Xors!Folded({}, s)
  BY DEF XorAll, FoldLeft, MapThenFoldSet, Max,
         Xors!Folded, Xors!MapThenFoldSet, Xors!Greatest
<1>4. Xors!Leads(r, {}, s)
  BY DEF Xors!Leads
<1> QED BY <1>1, <1>2, <1>3, <1>4, Xors!FoldIs

LEMMA LittleWordIs ==
    ASSUME NEW crc \in Register, NEW word \in Register
    PROVE  LittleWord(crc, word) = Steps(Dim, Xor(crc, word))
<1> DEFINE x == Xor(crc, word)
           s == [i \in 1 .. WordBytes |-> Table[WordBytes - i][ByteAt(x, i - 1)]]
           r == [k \in 0 .. WordBytes |-> Steps(Dim, Below(x, At(k)))]
<1>1. x \in Register /\ WordBytes \in Nat \ {0} /\ Dim \in Nat
  BY XorOfRegisters, WidthsAre
<1>2. LittleWord(crc, word) = XorAll(s)
  BY DEF LittleWord
<1> HIDE DEF x
<1>3. s \in Seq(Register) /\ Len(s) = WordBytes
  <2>1. s \in [1 .. WordBytes -> Register]
    BY <1>1, TableOfWord
  <2> HIDE DEF s
  <2>2. WordBytes \in Nat
    BY <1>1
  <2> QED BY <2>1, <2>2
<1>4. r[0] = {}
  <2>1. 0 \in 0 .. WordBytes /\ r[0] = Steps(Dim, Below(x, At(0)))
    BY <1>1
  <2> QED BY <2>1, <1>1, BelowIs, StepsOfNone
<1>5. ASSUME NEW k \in 1 .. WordBytes PROVE r[k] = Xor(r[k - 1], s[k])
  <2>1. k \in 0 .. WordBytes /\ k - 1 \in 0 .. WordBytes /\ k \in Nat \ {0}
    BY <1>1
  <2>2. r[k] = Steps(Dim, Below(x, At(k))) /\ r[k - 1] = Steps(Dim, Below(x, At(k - 1)))
    BY <2>1
  <2>3. s[k] = Steps(Dim, ByteIn(x, k))
    BY <1>1, TableOfWord
  <2>4. /\ Below(x, At(k)) = Xor(Below(x, At(k - 1)), ByteIn(x, k))
        /\ Below(x, At(k - 1)) \in Register /\ ByteIn(x, k) \in Register
    BY <1>1, <2>1, BelowIs
  <2>5. Steps(Dim, Xor(Below(x, At(k - 1)), ByteIn(x, k))) = Xor(Steps(Dim, Below(x, At(k - 1))), Steps(Dim, ByteIn(x, k)))
    BY <1>1, <2>4, StepsOfXor
  <2> QED BY <2>2, <2>3, <2>4, <2>5
<1>6. r[WordBytes] = Steps(Dim, x)
  <2>1. WordBytes \in 0 .. WordBytes /\ r[WordBytes] = Steps(Dim, Below(x, At(WordBytes)))
    BY <1>1
  <2> QED BY <2>1, <1>1, AtIs, BelowIs
<1> HIDE DEF s, r
<1>7. XorAll(s) = r[Len(s)]
  BY <1>3, <1>4, <1>5, XorsIs
<1> QED BY <1>2, <1>3, <1>6, <1>7 DEF x

-----------------------------------------------------------------------------
(* The bits of a block one after the other.                                *)

LEMMA FeedIs ==
    ASSUME NEW crc \in Register, NEW byte \in Byte
    PROVE  /\ Feed(crc, byte) = Steps(ByteBits, Xor(crc, byte))
           /\ Feed(crc, byte) \in Register
           /\ LittleByte(crc, byte) = Feed(crc, byte)
<1>1. byte \in Register /\ ByteBits \in Nat
  BY ByteIsRegister, WidthsAre
<1>2. Xor(crc, byte) \in Register
  BY <1>1, XorOfRegisters
<1>3. Feed(crc, byte) = Steps(ByteBits, Xor(crc, byte))
  BY DEF Feed, Steps
<1>4. LittleByte(crc, byte) = Steps(ByteBits, Xor(crc, byte))
  BY <1>2, ByteStepIs DEF LittleByte
<1>5. Steps(ByteBits, Xor(crc, byte)) \in Register
  BY <1>1, <1>2, StepByStep
<1> QED BY <1>3, <1>4, <1>5

LEMMA FeedsAreClosed == Feeds!IsClosed /\ LittleBytes!IsClosed
BY FeedIs DEF Feeds!IsClosed, LittleBytes!IsClosed

(* What feeding the bytes of a block leads to.                             *)
Fed(r, x, buf) ==
    /\ r \in [0 .. Len(buf) -> Register]
    /\ r[0] = x
    /\ \A k \in 1 .. Len(buf) : r[k] = Feed(r[k - 1], buf[k])

LEMMA FedExists ==
    ASSUME NEW x \in Register, NEW buf \in Seq(Byte)
    PROVE  \E r : Fed(r, x, buf)
<1>1. PICK r \in [0 .. Len(buf) -> Register] : Feeds!Leads(r, x, buf)
  BY FeedsAreClosed, Feeds!FoldRuns
<1> QED BY <1>1 DEF Fed, Feeds!Leads

LEMMA WordOfBytes ==
    ASSUME NEW bytes \in Seq(Byte), Len(bytes) = WordBytes
    PROVE  /\ WordOf(bytes) \in Register
           /\ \A i \in 1 .. WordBytes : ByteAt(WordOf(bytes), i - 1) = bytes[i]
<1> DEFINE w == WordOf(bytes)
<1>0. WordBytes \in Nat /\ ByteBits \in Nat /\ DOMAIN bytes = 1 .. WordBytes
  BY WidthsAre
<1>1. \A i \in 1 .. WordBytes : bytes[i] \subseteq Nat /\ \A b \in bytes[i] : b < ByteBits
  <2> SUFFICES ASSUME NEW i \in 1 .. WordBytes PROVE bytes[i] \subseteq Nat /\ \A b \in bytes[i] : b < ByteBits
    OBVIOUS
  <2>1. bytes[i] \in SUBSET (0 .. ByteBits - 1)
    BY <1>0 DEF Byte
  <2> QED BY <2>1, <1>0
<1>2. \A c : c \in w <=> \E i \in 1 .. WordBytes : \E b \in bytes[i] : c = b + At(i - 1)
  <2>1. w = UNION {{b + (i - 1) * ByteBits : b \in bytes[i]} : i \in 1 .. WordBytes}
    BY <1>0 DEF WordOf
  <2> QED BY <2>1 DEF At
<1> HIDE DEF w
<1>3. \A i \in 1 .. WordBytes : i - 1 \in Nat /\ At(i - 1) \in Nat /\ At(i) = At(i - 1) + ByteBits /\ At(i) <= Dim
  <2> SUFFICES ASSUME NEW i \in 1 .. WordBytes
               PROVE  i - 1 \in Nat /\ At(i - 1) \in Nat /\ At(i) = At(i - 1) + ByteBits /\ At(i) <= Dim
    OBVIOUS
  <2>1. i - 1 \in Nat /\ (i - 1) + 1 = i /\ i \in Nat /\ i <= WordBytes
    BY <1>0
  <2> QED BY <2>1, <1>0, AtIs
<1>4. ASSUME NEW c \in w PROVE c \in 0 .. Dim - 1
  <2>1. PICK i \in 1 .. WordBytes : \E b \in bytes[i] : c = b + At(i - 1)
    BY <1>2
  <2>2. PICK b \in bytes[i] : c = b + At(i - 1)
    BY <2>1
  <2>3. b \in Nat /\ b < ByteBits
    BY <1>1
  <2>4. Dim \in Nat /\ At(i - 1) \in Nat /\ At(i - 1) + ByteBits <= Dim
    BY <1>3, WidthsAre
  <2> QED BY <2>2, <2>3, <2>4, <1>0
<1>5. w \in Register
  BY <1>4 DEF Register
<1>6. ASSUME NEW i \in 1 .. WordBytes, NEW j \in 1 .. WordBytes, NEW a \in bytes[i], NEW b \in Nat, b < ByteBits,
             b + At(j - 1) = a + At(i - 1)
      PROVE  i = j
  <2>1. a \in Nat /\ a < ByteBits
    BY <1>1
  <2>2. /\ At(i - 1) \in Nat /\ At(j - 1) \in Nat
        /\ At(i) = At(i - 1) + ByteBits /\ At(j) = At(j - 1) + ByteBits
    BY <1>3
  <2>3. i <= j - 1 => At(i) <= At(j - 1)
    <3>1. i \in Nat /\ j - 1 \in Nat
      BY <1>0
    <3> QED BY <3>1, AtIs
  <2>4. j <= i - 1 => At(j) <= At(i - 1)
    <3>1. j \in Nat /\ i - 1 \in Nat
      BY <1>0
    <3> QED BY <3>1, AtIs
  <2>5. ~(i <= j - 1)
    BY <2>1, <2>2, <2>3, <1>6, <1>0
  <2>6. ~(j <= i - 1)
    BY <2>1, <2>2, <2>4, <1>6, <1>0
  <2> QED BY <2>5, <2>6, <1>0
<1>7. ASSUME NEW j \in 1 .. WordBytes PROVE ByteAt(w, j - 1) = bytes[j]
  <2>1. ByteAt(w, j - 1) \subseteq Nat
    BY <1>0, <1>3, <1>5, ByteAtIs DEF Byte
  <2>2. \A b \in Nat : b \in ByteAt(w, j - 1) <=> b + At(j - 1) \in w /\ b < ByteBits
    BY <1>3, <1>5, ByteAtIs
  <2>3. \A b \in bytes[j] : b \in Nat /\ b \in ByteAt(w, j - 1)
    BY <1>1, <1>2, <2>2
  <2>4. ASSUME NEW b \in Nat, b \in ByteAt(w, j - 1) PROVE b \in bytes[j]
    <3>1. b + At(j - 1) \in w /\ b < ByteBits
      BY <2>2, <2>4
    <3>2. PICK i \in 1 .. WordBytes : \E a \in bytes[i] : b + At(j - 1) = a + At(i - 1)
      BY <3>1, <1>2
    <3>3. PICK a \in bytes[i] : b + At(j - 1) = a + At(i - 1)
      BY <3>2
    <3>4. i = j
      BY <3>1, <3>3, <1>6
    <3>5. a \in Nat /\ At(j - 1) \in Nat
      BY <1>1, <1>3
    <3>6. b = a
      BY <3>3, <3>4, <3>5
    <3> QED BY <3>4, <3>6
  <2> QED BY <2>1, <2>3, <2>4
<1> QED BY <1>5, <1>7 DEF w

\* A word is fed as its bytes are.
LEMMA WordIsFed ==
    ASSUME NEW crc \in Register, NEW bytes \in Seq(Byte), Len(bytes) = WordBytes
    PROVE  /\ Feeds!Folded(crc, bytes) = LittleWord(crc, WordOf(bytes))
           /\ WordOf(bytes) \in Register
<1> DEFINE w == WordOf(bytes)
           r == [k \in 0 .. WordBytes |-> Steps(At(k), Xor(crc, Below(w, At(k))))]
<1>1. w \in Register /\ \A i \in 1 .. WordBytes : ByteAt(w, i - 1) = bytes[i]
  BY WordOfBytes
<1> HIDE DEF w
<1>2. WordBytes \in Nat \ {0} /\ Dim \in Nat /\ ByteBits \in Nat
  BY WidthsAre
<1>3. r[0] = crc
  <2>1. 0 \in 0 .. WordBytes /\ At(0) = 0 /\ Below(w, At(0)) = {}
    BY <1>1, <1>2, AtIs, BelowIs
  <2>2. r[0] = Steps(0, Xor(crc, {}))
    BY <2>1
  <2> QED BY <2>2, XorLaws, StepByStep
<1>4. ASSUME NEW k \in 1 .. WordBytes PROVE r[k] = Feed(r[k - 1], bytes[k])
  <2> DEFINE n == At(k - 1)
             low == Xor(crc, Below(w, n))
             b == ByteIn(w, k)
  <2>1. k \in 0 .. WordBytes /\ k - 1 \in 0 .. WordBytes /\ k \in Nat \ {0} /\ k - 1 \in Nat /\ (k - 1) + 1 = k
    BY <1>2
  <2>2. n \in Nat /\ At(k) = n + ByteBits
    BY <2>1, AtIs
  <2>3. /\ b \in Register /\ Below(w, n) \in Register
        /\ Below(w, At(k)) = Xor(Below(w, n), b)
    BY <2>1, <1>1, BelowIs
  <2>4. Steps(n, b) = bytes[k] /\ bytes[k] \in Byte
    BY <2>1, <1>1, ByteComesDown
  <2>5. r[k] = Steps(At(k), Xor(crc, Below(w, At(k)))) /\ r[k - 1] = Steps(n, low)
    BY <2>1
  <2>6. low \in Register /\ Xor(low, b) = Xor(crc, Below(w, At(k)))
    BY <2>3, XorLaws, XorOfRegisters
  <2> HIDE DEF n, low, b, r
  <2>7. Steps(n, low) \in Register /\ Xor(low, b) \in Register
    BY <2>2, <2>3, <2>6, StepByStep, XorOfRegisters
  <2>8. Feed(r[k - 1], bytes[k]) = Steps(ByteBits, Xor(Steps(n, low), Steps(n, b)))
    BY <2>4, <2>5, <2>7, FeedIs
  <2>9. Xor(Steps(n, low), Steps(n, b)) = Steps(n, Xor(low, b))
    BY <2>2, <2>3, <2>6, StepsOfXor
  <2>10. Steps(ByteBits, Steps(n, Xor(low, b))) = Steps(n + ByteBits, Xor(low, b))
    BY <2>2, <2>7, <1>2, StepsAfterSteps
  <2> QED BY <2>2, <2>5, <2>6, <2>8, <2>9, <2>10
<1>5. r[WordBytes] = Steps(Dim, Xor(crc, w))
  <2>1. WordBytes \in 0 .. WordBytes /\ At(WordBytes) = Dim /\ Below(w, Dim) = w
    BY <1>1, <1>2, AtIs, BelowIs
  <2> QED BY <2>1
<1> HIDE DEF r
<1>6. Feeds!Leads(r, crc, bytes)
  BY <1>3, <1>4 DEF Feeds!Leads
<1>7. Feeds!Folded(crc, bytes) = r[Len(bytes)]
  BY <1>6, FeedsAreClosed, Feeds!FoldIs
<1>8. LittleWord(crc, w) = Steps(Dim, Xor(crc, w))
  BY <1>1, LittleWordIs
<1> QED BY <1>1, <1>5, <1>7, <1>8 DEF w

-----------------------------------------------------------------------------
(* A block in pieces.                                                      *)

LEMMA WordCount ==
    ASSUME NEW n \in Nat, NEW w \in Nat \ {0}
    PROVE  /\ n \div w \in Nat /\ (n \div w) * w \in Nat /\ (n \div w) * w <= n
           /\ n * w \in Nat /\ (n * w) \div w = n
           /\ \A m \in 1 .. n : /\ (m - 1) * w \in Nat /\ m * w = (m - 1) * w + w
                                /\ m * w <= n * w
BY Z3

LEMMA PieceOfPiece ==
    ASSUME NEW T, NEW s \in Seq(T), NEW i \in Nat, NEW j \in Nat, i <= j, j <= Len(s),
           NEW k \in Nat, NEW m \in Nat, k <= m, i + m <= j
    PROVE  SubSeq(SubSeq(s, i + 1, j), k + 1, m) = SubSeq(s, i + k + 1, i + m)
<1> DEFINE p == SubSeq(s, i + 1, j)
           l == SubSeq(p, k + 1, m)
           r == SubSeq(s, i + k + 1, i + m)
<1>1. p \in Seq(T) /\ Len(p) = j - i /\ \A a \in 1 .. j - i : p[a] = s[i + a]
  OBVIOUS
<1> HIDE DEF p
<1>2. l \in Seq(T) /\ Len(l) = m - k /\ \A a \in 1 .. m - k : l[a] = p[k + a]
  BY <1>1
<1>3. r \in Seq(T) /\ Len(r) = m - k /\ \A a \in 1 .. m - k : r[a] = s[(i + k) + a]
  OBVIOUS
<1> HIDE DEF l, r
<1>4. \A a \in 1 .. m - k : l[a] = r[a]
  <2> SUFFICES ASSUME NEW a \in 1 .. m - k PROVE l[a] = r[a]
    OBVIOUS
  <2>1. k + a \in 1 .. j - i /\ i + (k + a) = (i + k) + a
    OBVIOUS
  <2> QED BY <1>1, <1>2, <1>3, <2>1
<1>5. l = r
  BY <1>2, <1>3, <1>4
<1> QED BY <1>5 DEF l, r, p

(* The bytes before place "lead" singly, n words, and the others singly.   *)
InPieces(p, buf, lead, n) ==
    /\ lead + n * WordBytes <= Len(buf)
    /\ p.lead = SubSeq(buf, 1, lead)
    /\ p.words \in Seq(Register) /\ Len(p.words) = n
    /\ \A m \in 1 .. n :
          p.words[m] = WordOf(SubSeq(buf, lead + (m - 1) * WordBytes + 1, lead + m * WordBytes))
    /\ p.rest = SubSeq(buf, lead + n * WordBytes + 1, Len(buf))

LEMMA PiecesAre ==
    ASSUME NEW buf \in Seq(Byte), NEW address \in 0 .. WordBytes - 1
    PROVE  \E lead \in Nat, n \in Nat : InPieces(Pieces(buf, address), buf, lead, n)
<1> DEFINE toWord == (WordBytes - address) % WordBytes
           lead == IF Len(buf) < toWord THEN Len(buf) ELSE toWord
           n == (Len(buf) - lead) \div WordBytes
           last == lead + n * WordBytes
           mid == SubSeq(buf, lead + 1, last)
           words == WordsOf(mid)
<1>0. WordBytes \in Nat \ {0} /\ Len(buf) \in Nat
  BY WidthsAre
<1>1. Pieces(buf, address) = [lead |-> SubSeq(buf, 1, lead), words |-> words, rest |-> SubSeq(buf, last + 1, Len(buf))]
  BY DEF Pieces
<1>2. lead \in Nat /\ lead <= Len(buf)
  <2>1. toWord \in Nat
    BY <1>0
  <2> HIDE DEF toWord
  <2> QED BY <1>0, <2>1
<1> HIDE DEF lead
<1>3. n \in Nat /\ n * WordBytes \in Nat /\ n * WordBytes <= Len(buf) - lead
  <2>1. Len(buf) - lead \in Nat
    BY <1>0, <1>2
  <2> QED BY <1>0, <2>1, WordCount
<1> HIDE DEF n
<1>4. last \in Nat /\ lead <= last /\ last <= Len(buf) /\ last - lead = n * WordBytes
  <2> DEFINE d == n * WordBytes
  <2>1. d \in Nat /\ d <= Len(buf) - lead
    BY <1>3
  <2> HIDE DEF d
  <2>2. lead + d \in Nat /\ lead <= lead + d /\ lead + d <= Len(buf) /\ (lead + d) - lead = d
    BY <1>0, <1>2, <2>1
  <2> QED BY <2>2 DEF d
<1> HIDE DEF last
<1>5. mid \in Seq(Byte) /\ Len(mid) = n * WordBytes
  <2>1. mid \in Seq(Byte) /\ Len(mid) = last - lead
    BY <1>2, <1>4
  <2> QED BY <2>1, <1>4
<1>6. Len(mid) \div WordBytes = n /\ \A m \in 1 .. n :
         /\ (m - 1) * WordBytes \in Nat /\ m * WordBytes = (m - 1) * WordBytes + WordBytes
         /\ m * WordBytes <= n * WordBytes
  <2>1. (n * WordBytes) \div WordBytes = n /\ \A m \in 1 .. n :
           /\ (m - 1) * WordBytes \in Nat /\ m * WordBytes = (m - 1) * WordBytes + WordBytes
           /\ m * WordBytes <= n * WordBytes
    BY <1>0, <1>3, WordCount
  <2> HIDE DEF mid
  <2> QED BY <1>5, <2>1
<1> HIDE DEF mid
<1>7. words = [m \in 1 .. n |-> WordOf(SubSeq(mid, (m - 1) * WordBytes + 1, m * WordBytes))]
  BY <1>6 DEF WordsOf
<1> HIDE DEF words
<1>8. ASSUME NEW m \in 1 .. n
      PROVE  LET piece == SubSeq(buf, lead + (m - 1) * WordBytes + 1, lead + m * WordBytes)
             IN  /\ SubSeq(mid, (m - 1) * WordBytes + 1, m * WordBytes) = piece
                 /\ piece \in Seq(Byte) /\ Len(piece) = WordBytes
  <2> DEFINE i == (m - 1) * WordBytes
             j == m * WordBytes
  <2>1. i \in Nat /\ j = i + WordBytes /\ lead + j <= last
    <3>1. i \in Nat /\ j = i + WordBytes /\ j <= n * WordBytes
      BY <1>6
    <3> DEFINE d == n * WordBytes
    <3>2. last - lead = d /\ j <= d /\ d \in Nat
      BY <1>3, <1>4, <3>1
    <3> HIDE DEF i, j, d
    <3> QED BY <3>1, <3>2, <1>0, <1>2, <1>4
  <2> HIDE DEF i, j
  <2>2. j \in Nat /\ i <= j
    BY <2>1, <1>0
  <2>3. SubSeq(mid, i + 1, j) = SubSeq(buf, lead + i + 1, lead + j)
    BY <2>1, <2>2, <1>2, <1>4, PieceOfPiece DEF mid
  <2>4. SubSeq(buf, lead + i + 1, lead + j) \in Seq(Byte) /\ Len(SubSeq(buf, lead + i + 1, lead + j)) = WordBytes
    <3>1. lead + i + 1 \in 1 .. Len(buf) + 1 /\ lead + j \in Nat /\ lead + j <= Len(buf) /\ (lead + j) - (lead + i + 1) + 1 = WordBytes
      BY <2>1, <2>2, <1>0, <1>2, <1>4
    <3> QED BY <3>1, <1>0
  <2> QED BY <2>3, <2>4 DEF i, j
<1>9. words \in Seq(Register) /\ Len(words) = n
      /\ \A m \in 1 .. n : words[m] = WordOf(SubSeq(buf, lead + (m - 1) * WordBytes + 1, lead + m * WordBytes))
  <2>1. \A m \in 1 .. n : words[m] = WordOf(SubSeq(buf, lead + (m - 1) * WordBytes + 1, lead + m * WordBytes))
    BY <1>7, <1>8
  <2>2. \A m \in 1 .. n : words[m] \in Register
    BY <1>8, <2>1, WordOfBytes
  <2>3. words \in [1 .. n -> Register]
    BY <1>7, <2>2
  <2>4. words \in Seq(Register) /\ Len(words) = n
    BY <1>3, <2>3
  <2> QED BY <2>1, <2>4
<1>10. InPieces(Pieces(buf, address), buf, lead, n)
  <2> DEFINE p == Pieces(buf, address)
             a == SubSeq(buf, 1, lead)
             c == SubSeq(buf, last + 1, Len(buf))
  <2>0. p = [lead |-> a, words |-> words, rest |-> c]
    BY <1>1
  <2> HIDE DEF p, a, c
  <2>a. p.lead = a /\ p.words = words /\ p.rest = c
    BY <2>0
  <2>1. p.lead = SubSeq(buf, 1, lead) /\ p.words = words /\ p.rest = SubSeq(buf, last + 1, Len(buf))
    BY <2>a DEF a, c
  <2> HIDE DEF p
  <2>2. InPieces(p, buf, lead, n)
    BY <1>4, <1>9, <2>1 DEF InPieces, last
  <2> QED BY <2>2 DEF p
<1> QED BY <1>2, <1>3, <1>10

(* What a block is fed to, from the checksum of what was before it.        *)
AllFed(crc, buf) == Not(Feeds!Folded(Not(crc), buf))

LEMMA NotIs ==
    ASSUME NEW x \in Register
    PROVE  Not(x) \in Register /\ Not(Not(x)) = x
BY DEF Not, Register

LEMMA LittleWordsAreClosed == LittleWords!IsClosed
<1> SUFFICES ASSUME NEW crc \in Register, NEW word \in Register PROVE LittleWord(crc, word) \in Register
  BY DEF LittleWords!IsClosed
<1>1. Xor(crc, word) \in Register /\ Dim \in Nat
  BY XorOfRegisters, WidthsAre
<1> QED BY <1>1, LittleWordIs, StepByStep

(* The values between the words.                                           *)
Between(r, lead, n) == [m \in 0 .. n |-> r[lead + m * WordBytes]]

LEMMA WordsAreFed ==
    ASSUME NEW x \in Register, NEW buf \in Seq(Byte), NEW r, Fed(r, x, buf),
           NEW p, NEW lead \in Nat, NEW n \in Nat, InPieces(p, buf, lead, n)
    PROVE  LET q    == Between(r, lead, n)
               last == lead + n * WordBytes
           IN  /\ lead \in 0 .. Len(buf) /\ last \in 0 .. Len(buf)
               /\ q[0] = r[lead] /\ q[n] = r[last]
               /\ \A m \in 1 .. n : /\ q[m - 1] \in Register /\ p.words[m] \in Register
                                    /\ q[m] = LittleWord(q[m - 1], p.words[m])
<1> DEFINE q == Between(r, lead, n)
           last == lead + n * WordBytes
<1>1. r \in [0 .. Len(buf) -> Register] /\ Feeds!Leads(r, x, buf)
  BY DEF Fed, Feeds!Leads
<1>2. /\ WordBytes \in Nat \ {0} /\ Len(buf) \in Nat
      /\ n * WordBytes \in Nat /\ last \in Nat /\ lead <= last /\ last <= Len(buf)
  <2>1. WordBytes \in Nat \ {0} /\ n * WordBytes \in Nat
    BY WidthsAre, WordCount
  <2>2. last <= Len(buf)
    BY DEF InPieces
  <2> QED BY <2>1, <2>2
<1>3. q[0] = r[lead] /\ q[n] = r[last]
  <2>1. 0 \in 0 .. n /\ n \in 0 .. n /\ lead + 0 * WordBytes = lead
    BY <1>2
  <2> QED BY <2>1 DEF Between
<1>4. ASSUME NEW m \in 1 .. n
      PROVE  /\ q[m - 1] \in Register /\ p.words[m] \in Register
             /\ q[m] = LittleWord(q[m - 1], p.words[m])
  <2> DEFINE i == lead + (m - 1) * WordBytes
             j == lead + m * WordBytes
             piece == SubSeq(buf, i + 1, j)
  <2>1. i \in 0 .. Len(buf) /\ j \in i .. Len(buf) /\ j = i + WordBytes
    <3> DEFINE a == (m - 1) * WordBytes
               b == m * WordBytes
               c == n * WordBytes
    <3>1. a \in Nat /\ b = a + WordBytes /\ b <= c
      BY <1>2, WordCount
    <3>2. c \in Nat /\ lead + c <= Len(buf)
      BY <1>2
    <3> HIDE DEF a, b, c
    <3>3. lead + a \in 0 .. Len(buf) /\ lead + b \in lead + a .. Len(buf) /\ lead + b = lead + a + WordBytes
      BY <1>2, <3>1, <3>2
    <3> QED BY <3>3 DEF a, b
  <2>2. m \in 0 .. n /\ m - 1 \in 0 .. n
    OBVIOUS
  <2>3. q[m] = r[j] /\ q[m - 1] = r[i]
    BY <2>2 DEF Between
  <2>4. p.words[m] = WordOf(piece)
    BY DEF InPieces
  <2> HIDE DEF i, j, q
  <2>5. piece \in Seq(Byte) /\ Len(piece) = WordBytes
    BY <1>2, <2>1
  <2>6. r[i] \in Register
    BY <1>1, <2>1
  <2>7. Feeds!Folded(r[i], piece) = r[j]
    BY <1>1, <2>1, FeedsAreClosed, Feeds!FoldOfPiece
  <2>8. Feeds!Folded(r[i], piece) = LittleWord(r[i], WordOf(piece)) /\ WordOf(piece) \in Register
    BY <2>5, <2>6, WordIsFed
  <2> QED BY <2>3, <2>4, <2>6, <2>7, <2>8
<1>5. lead \in 0 .. Len(buf) /\ last \in 0 .. Len(buf)
  BY <1>2
<1> QED BY <1>3, <1>4, <1>5

\* However a block lies in memory, its checksum is what feeding all of its bytes leads to.
LEMMA CrcLittleIs ==
    ASSUME NEW crc \in Register, NEW buf \in Seq(Byte), NEW address \in 0 .. WordBytes - 1
    PROVE  CrcLittle(crc, buf, address) = AllFed(crc, buf)
<1> DEFINE p == Pieces(buf, address)
           x == Not(crc)
<1>1. PICK lead \in Nat, n \in Nat : InPieces(p, buf, lead, n)
  BY PiecesAre
<1>2. x \in Register
  BY NotIs
<1>3. CrcLittle(crc, buf, address) =
        Not(LittleBytes!Folded(LittleWords!Folded(LittleBytes!Folded(x, p.lead), p.words), p.rest))
  BY DEF CrcLittle, FoldLeft, MapThenFoldSet, Max,
         LittleBytes!Folded, LittleBytes!MapThenFoldSet, LittleBytes!Greatest,
         LittleWords!Folded, LittleWords!MapThenFoldSet, LittleWords!Greatest
<1> HIDE DEF p, x
<1>4. PICK r : Fed(r, x, buf)
  BY <1>2, FedExists
<1>5. r \in [0 .. Len(buf) -> Register] /\ r[0] = x /\ Feeds!Leads(r, x, buf) /\ LittleBytes!Leads(r, x, buf)
  <2>1. \A k \in 1 .. Len(buf) : r[k] = LittleByte(r[k - 1], buf[k])
    <3> SUFFICES ASSUME NEW k \in 1 .. Len(buf) PROVE r[k] = LittleByte(r[k - 1], buf[k])
      OBVIOUS
    <3>1. k - 1 \in 0 .. Len(buf) /\ buf[k] \in Byte
      OBVIOUS
    <3>2. r[k - 1] \in Register /\ r[k] = Feed(r[k - 1], buf[k])
      BY <1>4, <3>1 DEF Fed
    <3> QED BY <3>1, <3>2, FeedIs
  <2> QED BY <1>4, <2>1 DEF Fed, Feeds!Leads, LittleBytes!Leads
<1> DEFINE q == Between(r, lead, n)
           last == lead + n * WordBytes
<1>6. /\ lead \in 0 .. Len(buf) /\ last \in 0 .. Len(buf)
      /\ q[0] = r[lead] /\ q[n] = r[last]
      /\ \A m \in 1 .. n : q[m] = LittleWord(q[m - 1], p.words[m])
  BY <1>1, <1>2, <1>4, WordsAreFed
<1>7. /\ p.lead = SubSeq(buf, 0 + 1, lead) /\ p.rest = SubSeq(buf, last + 1, Len(buf))
      /\ p.words \in Seq(Register) /\ Len(p.words) = n
  BY <1>1 DEF InPieces
<1> HIDE DEF q, last
<1>8. LittleBytes!Folded(x, p.lead) = r[lead]
  <2>1. 0 \in 0 .. Len(buf) /\ lead \in 0 .. Len(buf)
    BY <1>6
  <2>2. LittleBytes!Folded(r[0], SubSeq(buf, 0 + 1, lead)) = r[lead]
    BY <1>2, <1>5, <2>1, FeedsAreClosed, LittleBytes!FoldOfPiece
  <2> QED BY <1>5, <1>7, <2>2
<1>9. LittleWords!Folded(r[lead], p.words) = r[last]
  <2>1. LittleWords!Leads(q, r[lead], p.words)
    BY <1>6, <1>7 DEF LittleWords!Leads
  <2>2. r[lead] \in Register
    BY <1>5, <1>6
  <2>3. LittleWords!Folded(r[lead], p.words) = q[Len(p.words)]
    BY <1>7, <2>1, <2>2, LittleWordsAreClosed, LittleWords!FoldIs
  <2> QED BY <1>6, <1>7, <2>3
<1>10. LittleBytes!Folded(r[last], p.rest) = r[Len(buf)]
  <2>1. Len(buf) \in last .. Len(buf)
    BY <1>6
  <2>2. LittleBytes!Folded(r[last], SubSeq(buf, last + 1, Len(buf))) = r[Len(buf)]
    BY <1>2, <1>5, <1>6, <2>1, FeedsAreClosed, LittleBytes!FoldOfPiece
  <2> QED BY <1>7, <2>2
<1>11. Feeds!Folded(x, buf) = r[Len(buf)]
  BY <1>2, <1>5, FeedsAreClosed, Feeds!FoldIs
<1> QED BY <1>3, <1>8, <1>9, <1>10, <1>11 DEF AllFed, x

-----------------------------------------------------------------------------
(* Two blocks.                                                             *)

LEMMA SameSequence ==
    ASSUME NEW T, NEW s \in Seq(T), NEW t \in Seq(T), Len(s) = Len(t), \A k \in 1 .. Len(t) : s[k] = t[k]
    PROVE  s = t
OBVIOUS

LEMMA ConcatPieces ==
    ASSUME NEW T, NEW a \in Seq(T), NEW b \in Seq(T)
    PROVE  /\ a \o b \in Seq(T) /\ Len(a \o b) = Len(a) + Len(b)
           /\ SubSeq(a \o b, 0 + 1, Len(a)) = a
           /\ SubSeq(a \o b, Len(a) + 1, Len(a \o b)) = b
<1> DEFINE s == a \o b
<1>1. s \in Seq(T) /\ Len(s) = Len(a) + Len(b)
  OBVIOUS
<1>2. (\A k \in 1 .. Len(a) : s[k] = a[k]) /\ \A k \in 1 .. Len(b) : s[Len(a) + k] = b[k]
  OBVIOUS
<1> HIDE DEF s
<1>3. SubSeq(s, 1, Len(a)) \in Seq(T) /\ Len(SubSeq(s, 1, Len(a))) = Len(a)
      /\ \A k \in 1 .. Len(a) : SubSeq(s, 1, Len(a))[k] = a[k]
  BY <1>1, <1>2
<1>4. SubSeq(s, 1, Len(a)) = a
  BY <1>3
<1>5. SubSeq(s, Len(a) + 1, Len(s)) \in Seq(T) /\ Len(SubSeq(s, Len(a) + 1, Len(s))) = Len(b)
      /\ \A k \in 1 .. Len(b) : SubSeq(s, Len(a) + 1, Len(s))[k] = b[k]
  BY <1>1, <1>2
<1>6. SubSeq(s, Len(a) + 1, Len(s)) = b
  BY <1>5, SameSequence
<1> QED BY <1>1, <1>4, <1>6 DEF s

LEMMA AllFedOfTwo ==
    ASSUME NEW crc \in Register, NEW a \in Seq(Byte), NEW b \in Seq(Byte)
    PROVE  /\ AllFed(crc, a) \in Register
           /\ AllFed(AllFed(crc, a), b) = AllFed(crc, a \o b)
<1> DEFINE s == a \o b
           x == Not(crc)
<1>1. /\ s \in Seq(Byte) /\ Len(s) = Len(a) + Len(b)
      /\ SubSeq(s, 0 + 1, Len(a)) = a /\ SubSeq(s, Len(a) + 1, Len(s)) = b
  BY ConcatPieces
<1>2. x \in Register
  BY NotIs
<1> HIDE DEF s, x
<1>3. PICK r : Fed(r, x, s)
  BY <1>1, <1>2, FedExists
<1>4. r \in [0 .. Len(s) -> Register] /\ r[0] = x /\ Feeds!Leads(r, x, s)
  BY <1>3 DEF Fed, Feeds!Leads
<1>5. 0 \in 0 .. Len(s) /\ Len(a) \in 0 .. Len(s) /\ Len(s) \in Len(a) .. Len(s)
  BY <1>1
<1>6. Feeds!Folded(r[0], SubSeq(s, 0 + 1, Len(a))) = r[Len(a)]
  BY <1>1, <1>2, <1>4, <1>5, FeedsAreClosed, Feeds!FoldOfPiece
<1>7. Feeds!Folded(r[Len(a)], SubSeq(s, Len(a) + 1, Len(s))) = r[Len(s)]
  BY <1>1, <1>2, <1>4, <1>5, FeedsAreClosed, Feeds!FoldOfPiece
<1>8. Feeds!Folded(x, s) = r[Len(s)]
  BY <1>1, <1>2, <1>4, FeedsAreClosed, Feeds!FoldIs
<1>9. r[Len(a)] \in Register
  BY <1>4, <1>5
<1>10. AllFed(crc, a) = Not(r[Len(a)]) /\ AllFed(crc, s) = Not(r[Len(s)])
  BY <1>1, <1>4, <1>6, <1>8 DEF AllFed, x
<1>11. Not(AllFed(crc, a)) = r[Len(a)] /\ AllFed(crc, a) \in Register
  BY <1>9, <1>10, NotIs
<1> QED BY <1>1, <1>4, <1>7, <1>10, <1>11 DEF AllFed, s

LEMMA CrcIs ==
    ASSUME NEW buf \in Seq(Byte)
    PROVE  {} \in Register /\ Crc(buf) = AllFed({}, buf) /\ Crc(buf) \in Register
<1>1. {} \in Register
  BY DEF Register
<1>2. Crc(buf) = AllFed({}, buf)
  BY DEF Crc, AllFed, FoldLeft, MapThenFoldSet, Max,
         Feeds!Folded, Feeds!MapThenFoldSet, Feeds!Greatest
<1> QED BY <1>1, <1>2, AllFedOfTwo

\* The first block counts for as many steps as the second has bits.
LEMMA CrcOfTwo ==
    ASSUME NEW a \in Seq(Byte), NEW b \in Seq(Byte)
    PROVE  Crc(a \o b) = Xor(Steps(At(Len(b)), Crc(a)), Crc(b))
<1> DEFINE c == Crc(a)
           ones == Not({})
<1>1. c \in Register /\ ones \in Register /\ {} \in Register /\ Not(c) \in Register
  BY CrcIs, NotIs
<1>2. \A x \in Register : Not(x) = Xor(x, ones)
  BY DEF Not, Xor, SymDiff, Register
<1>3. Crc(a \o b) = Not(Feeds!Folded(Not(c), b)) /\ Crc(b) = Not(Feeds!Folded(ones, b))
  <2>1. a \o b \in Seq(Byte)
    BY ConcatPieces
  <2>2. Crc(a \o b) = AllFed({}, a \o b) /\ c = AllFed({}, a) /\ Crc(b) = AllFed({}, b)
    BY <2>1, CrcIs
  <2>3. AllFed(AllFed({}, a), b) = AllFed({}, a \o b)
    BY <1>1, AllFedOfTwo
  <2> QED BY <2>2, <2>3 DEF AllFed
<1> HIDE DEF c, ones
<1>4. PICK q : Fed(q, ones, b)
  BY <1>1, FedExists
<1>5. PICK r : Fed(r, Not(c), b)
  BY <1>1, FedExists
<1> DEFINE n == Len(b)
           K == {k \in 0 .. n : r[k] = Xor(Steps(At(k), c), q[k])}
<1>6. n \in Nat
  OBVIOUS
<1>7. 0 \in K
  <2>1. r[0] = Xor(c, ones) /\ q[0] = ones
    BY <1>1, <1>2, <1>4, <1>5 DEF Fed
  <2>2. Steps(At(0), c) = c
    BY <1>1, AtIs, StepByStep
  <2> QED BY <1>6, <2>1, <2>2
<1>8. ASSUME NEW k \in 1 .. n, k - 1 \in K PROVE k \in K
  <2> DEFINE i == At(k - 1)
             d == b[k]
  <2>1. k - 1 \in Nat /\ (k - 1) + 1 = k /\ k - 1 \in 0 .. n /\ k \in 0 .. n
    OBVIOUS
  <2>2. i \in Nat /\ At(k) = i + ByteBits /\ ByteBits \in Nat
    BY <2>1, AtIs, WidthsAre
  <2>3. d \in Byte /\ d \in Register
    BY ByteIsRegister
  <2>4. /\ q[k - 1] \in Register /\ r[k - 1] \in Register
        /\ q[k] = Feed(q[k - 1], d) /\ r[k] = Feed(r[k - 1], d)
    BY <1>4, <1>5, <2>1 DEF Fed
  <2>5. r[k - 1] = Xor(Steps(i, c), q[k - 1])
    BY <1>8
  <2> HIDE DEF i, d, n
  <2>6. Steps(i, c) \in Register /\ Xor(q[k - 1], d) \in Register
    BY <1>1, <2>2, <2>3, <2>4, StepByStep, XorOfRegisters
  <2>7. r[k] = Steps(ByteBits, Xor(Xor(Steps(i, c), q[k - 1]), d))
    BY <2>3, <2>4, <2>5, FeedIs
  <2>8. Xor(Xor(Steps(i, c), q[k - 1]), d) = Xor(Steps(i, c), Xor(q[k - 1], d))
    BY XorLaws
  <2>9. r[k] = Xor(Steps(ByteBits, Steps(i, c)), Steps(ByteBits, Xor(q[k - 1], d)))
    BY <2>2, <2>6, <2>7, <2>8, StepsOfXor
  <2>10. Steps(ByteBits, Steps(i, c)) = Steps(i + ByteBits, c)
    BY <1>1, <2>2, StepsAfterSteps
  <2>11. q[k] = Steps(ByteBits, Xor(q[k - 1], d))
    BY <2>3, <2>4, FeedIs
  <2> QED BY <2>1, <2>2, <2>9, <2>10, <2>11
<1>9. \A k \in 0 .. n : k \in K
  <2> HIDE DEF K, n
  <2> QED BY <1>6, <1>7, <1>8, Bits!GoesOn
<1>10. r[n] = Xor(Steps(At(n), c), q[n])
  <2>1. n \in 0 .. n
    BY <1>6
  <2> QED BY <1>9, <2>1
<1>11. Feeds!Folded(Not(c), b) = r[n] /\ Feeds!Folded(ones, b) = q[n]
  <2>1. Feeds!Leads(r, Not(c), b) /\ Feeds!Leads(q, ones, b)
    BY <1>4, <1>5 DEF Fed, Feeds!Leads
  <2> QED BY <1>1, <2>1, FeedsAreClosed, Feeds!FoldIs
<1>12. q[n] \in Register /\ r[n] \in Register
  BY <1>4, <1>5, <1>6 DEF Fed
<1> HIDE DEF n
<1>13. Not(r[n]) = Xor(Steps(At(n), c), Not(q[n]))
  <2>1. Not(r[n]) = Xor(r[n], ones) /\ Not(q[n]) = Xor(q[n], ones)
    BY <1>2, <1>12
  <2> QED BY <1>10, <2>1, XorLaws
<1> QED BY <1>3, <1>11, <1>13 DEF n, c

-----------------------------------------------------------------------------
(* Matrices.                                                               *)

(* Column i of the matrix is where n steps take bit i.                     *)
Represents(mat, n) == mat \in Matrix /\ \A i \in 0 .. Dim - 1 : mat[i] = Steps(n, {i})

LEMMA XorAllOfRegisters ==
    ASSUME NEW s \in Seq(Register)
    PROVE  XorAll(s) \in Register
<1>1. Xors!IsClosed /\ {} \in Register
  BY XorOfRegisters DEF Xors!IsClosed, Register
<1>2. XorAll(s) = Xors!Folded({}, s)
  BY DEF XorAll, FoldLeft, MapThenFoldSet, Max,
         Xors!Folded, Xors!MapThenFoldSet, Xors!Greatest
<1> QED BY <1>1, <1>2, Xors!FoldIsValue

Columns(mat, vec) == [i \in 1 .. Dim |-> IF i - 1 \in vec THEN mat[i - 1] ELSE {}]

LEMMA ColumnsAre ==
    ASSUME NEW mat \in Matrix, NEW vec
    PROVE  /\ Columns(mat, vec) \in Seq(Register) /\ Len(Columns(mat, vec)) = Dim
           /\ Times(mat, vec) = XorAll(Columns(mat, vec))
           /\ Times(mat, vec) \in Register
<1>1. Dim \in Nat /\ {} \in Register
  BY WidthsAre DEF Register
<1>2. \A i \in 1 .. Dim : mat[i - 1] \in Register
  BY <1>1 DEF Matrix
<1>3. Columns(mat, vec) \in [1 .. Dim -> Register]
  BY <1>1, <1>2 DEF Columns
<1>4. Columns(mat, vec) \in Seq(Register) /\ Len(Columns(mat, vec)) = Dim
  BY <1>1, <1>3
<1>5. Times(mat, vec) = XorAll(Columns(mat, vec))
  BY DEF Times, Columns
<1> QED BY <1>4, <1>5, XorAllOfRegisters

\* Multiplying a register by the matrix is so many steps.
LEMMA TimesIs ==
    ASSUME NEW n \in Nat, NEW mat, Represents(mat, n), NEW x \in Register
    PROVE  Times(mat, x) = Steps(n, x)
<1> DEFINE s == Columns(mat, x)
           r == [k \in 0 .. Dim |-> Steps(n, Below(x, k))]
<1>1. mat \in Matrix /\ Dim \in Nat
  BY WidthsAre DEF Represents
<1>2. s \in Seq(Register) /\ Len(s) = Dim /\ Times(mat, x) = XorAll(s)
  BY <1>1, ColumnsAre
<1>3. x \subseteq Nat
  BY RegisterIs
<1>4. r[0] = {}
  <2>1. Below(x, 0) = {} /\ 0 \in 0 .. Dim
    BY <1>1, AtIs, BelowIs
  <2> QED BY <2>1, StepsOfNone
<1>5. ASSUME NEW k \in 1 .. Dim PROVE r[k] = Xor(r[k - 1], s[k])
  <2> DEFINE bit == x \cap {k - 1}
  <2>1. k \in 0 .. Dim /\ k - 1 \in 0 .. Dim /\ k - 1 \in 0 .. Dim - 1
    BY <1>1
  <2>2. Below(x, k - 1) \in Register /\ bit \in Register
    BY BelowIs DEF Register
  <2>3. Below(x, k) = Xor(Below(x, k - 1), bit)
    <3>1. \A b \in x : b < k <=> ~(b < k - 1 <=> b = k - 1)
      BY <1>3
    <3>2. \A b : b \in Below(x, k) <=> ~(b \in Below(x, k - 1) <=> b \in bit)
      BY <3>1 DEF Below
    <3> HIDE DEF bit
    <3> QED BY <3>2, XorSame
  <2>4. s[k] = Steps(n, bit)
    <3>1. s[k] = IF k - 1 \in x THEN mat[k - 1] ELSE {}
      BY DEF Columns
    <3>2. CASE k - 1 \in x
      <4>1. bit = {k - 1}
        BY <3>2
      <4>2. mat[k - 1] = Steps(n, {k - 1})
        BY <2>1 DEF Represents
      <4> QED BY <3>1, <3>2, <4>1, <4>2
    <3>3. CASE k - 1 \notin x
      <4>1. bit = {}
        BY <3>3
      <4> QED BY <3>1, <3>3, <4>1, StepsOfNone
    <3> QED BY <3>2, <3>3
  <2>5. r[k] = Steps(n, Below(x, k)) /\ r[k - 1] = Steps(n, Below(x, k - 1))
    BY <2>1
  <2> HIDE DEF bit, s, r
  <2>6. Steps(n, Xor(Below(x, k - 1), bit)) = Xor(Steps(n, Below(x, k - 1)), Steps(n, bit))
    BY <2>2, StepsOfXor
  <2> QED BY <2>3, <2>4, <2>5, <2>6
<1>6. r[Dim] = Steps(n, x)
  <2>1. Below(x, Dim) = x /\ Dim \in 0 .. Dim
    BY <1>1, BelowIs
  <2> QED BY <2>1
<1> HIDE DEF s, r
<1>7. XorAll(s) = r[Len(s)]
  BY <1>2, <1>4, <1>5, XorsIs
<1> QED BY <1>2, <1>6, <1>7

LEMMA SquareIs ==
    ASSUME NEW n \in Nat, NEW mat, Represents(mat, n)
    PROVE  Represents(Square(mat), n + n)
<1>1. mat \in Matrix /\ Dim \in Nat
  BY WidthsAre DEF Represents
<1>2. Square(mat) \in Matrix
  BY <1>1, ColumnsAre DEF Square, Matrix
<1>3. ASSUME NEW i \in 0 .. Dim - 1 PROVE Square(mat)[i] = Steps(n + n, {i})
  <2>1. {i} \in Register
    BY DEF Register
  <2>2. Square(mat)[i] = Times(mat, Steps(n, {i}))
    BY DEF Square, Represents
  <2>3. Steps(n, {i}) \in Register
    BY <2>1, StepByStep
  <2> QED BY <2>1, <2>2, <2>3, TimesIs, StepsAfterSteps
<1> QED BY <1>2, <1>3 DEF Represents

LEMMA ZeroBitIs == Represents(ZeroBit, 1)
<1>1. Dim \in Nat \ {0} /\ {} \in Register
  BY WidthsAre DEF Register
<1>2. ASSUME NEW i \in 0 .. Dim - 1
      PROVE  ZeroBit[i] \in Register /\ ZeroBit[i] = Steps(1, {i})
  <2>1. {i} \in Register /\ i \in Nat
    BY <1>1 DEF Register
  <2>2. Steps(0, {i}) = {i} /\ Steps(0 + 1, {i}) = BitStep(Steps(0, {i}))
    BY <2>1, StepByStep
  <2>3. Steps(1, {i}) = BitStep({i}) /\ BitStep({i}) \in Register
    BY <2>1, <2>2, BitStepOfRegister
  <2>4. CASE i = 0
    <3>1. ShiftRight({0}, 1) = {}
      BY DEF ShiftRight
    <3>2. BitStep({0}) = Poly
      BY <3>1, XorLaws DEF BitStep
    <3> QED BY <2>3, <2>4, <3>2 DEF ZeroBit
  <2>5. CASE i # 0
    <3>1. ShiftRight({i}, 1) = {i - 1}
      <4>1. i >= 1
        BY <2>1, <2>5
      <4> QED BY <4>1 DEF ShiftRight
    <3>2. BitStep({i}) = {i - 1}
      BY <2>5, <3>1 DEF BitStep
    <3> QED BY <2>3, <2>5, <3>2 DEF ZeroBit
  <2> QED BY <2>4, <2>5
<1>3. ZeroBit \in Matrix
  <2>1. ZeroBit = [i \in 0 .. Dim - 1 |-> ZeroBit[i]]
    BY DEF ZeroBit
  <2> QED BY <1>2, <2>1 DEF Matrix
<1> QED BY <1>2, <1>3 DEF Represents

LEMMA ZeroByteIs == Represents(ZeroByte, ByteBits)
<1> DEFINE F(m) == Repeat(Square, m, ZeroBit)
           K == {k \in 0 .. ByteSquares : Represents(F(k), Width(k))}
<1>1. Squares!IsClosed
  <2> SUFFICES ASSUME NEW mat \in Matrix PROVE Square(mat) \in Matrix
    BY DEF Squares!IsClosed, SquareOp
  <2> QED BY ColumnsAre DEF Square, Matrix
<1>2. \A m : F(m) = Squares!Folded(ZeroBit, [i \in 1 .. m |-> i])
  BY DEF Repeat, FoldLeft, MapThenFoldSet, Max, SquareOp,
         Squares!Folded, Squares!MapThenFoldSet, Squares!Greatest
<1>3. ZeroBit \in Matrix
  BY ZeroBitIs DEF Represents
<1>4. \A m \in Nat : F(0) = ZeroBit /\ F(m + 1) = Square(F(m))
  <2> SUFFICES ASSUME NEW m \in Nat PROVE F(0) = ZeroBit /\ F(m + 1) = SquareOp(F(m), m + 1)
    BY DEF SquareOp
  <2> HIDE DEF F
  <2> QED BY <1>1, <1>2, <1>3, Squares!FoldOfNumbers
<1> HIDE DEF F
<1>5. ByteSquares \in Nat
  BY WidthsAssumption
<1>6. 0 \in K
  BY <1>4, <1>5, ZeroBitIs, WidthDoubles
<1>7. ASSUME NEW k \in 1 .. ByteSquares, k - 1 \in K PROVE k \in K
  <2>1. k - 1 \in Nat /\ (k - 1) + 1 = k /\ k \in 0 .. ByteSquares
    BY <1>5
  <2>2. Width(k - 1) \in Nat /\ Width(k) = Width(k - 1) + Width(k - 1)
    BY <2>1, WidthDoubles
  <2>3. Represents(F(k - 1), Width(k - 1))
    BY <1>7
  <2>4. F(k) = Square(F(k - 1))
    BY <1>4, <2>1
  <2>5. Represents(Square(F(k - 1)), Width(k - 1) + Width(k - 1))
    BY <2>2, <2>3, SquareIs
  <2> QED BY <2>1, <2>2, <2>4, <2>5
<1>8. \A k \in 0 .. ByteSquares : k \in K
  <2> HIDE DEF K
  <2> QED BY <1>5, <1>6, <1>7, Bits!GoesOn
<1>9. Represents(F(ByteSquares), Width(ByteSquares))
  BY <1>5, <1>8
<1> QED BY <1>9 DEF F, ZeroByte, ByteBits, Width

LEMMA Halves ==
    ASSUME NEW n \in Nat, NEW m \in Nat \ {0}
    PROVE  /\ m \div 2 \in Nat /\ m \div 2 <= m - 1
           /\ m % 2 \in {0, 1}
           /\ n * m \in Nat /\ (n + n) * (m \div 2) \in Nat
           /\ m % 2 = 1 => n * m = n + (n + n) * (m \div 2)
           /\ m % 2 = 0 => n * m = (n + n) * (m \div 2)
<1> DEFINE q == m \div 2
           r == m % 2
<1>1. q \in Nat /\ r \in {0, 1} /\ m = 2 * q + r /\ q <= m - 1
  OBVIOUS
<1> HIDE DEF q, r
<1>2. n * m \in Nat /\ (n + n) * q \in Nat
  BY <1>1, Z3
<1>3. r = 1 => n * m = n + (n + n) * q
  <2>1. n * (2 * q + 1) = n + (n + n) * q
    BY <1>1, Z3
  <2> QED BY <1>1, <2>1
<1>4. r = 0 => n * m = (n + n) * q
  <2>1. n * (2 * q) = (n + n) * q
    BY <1>1, Z3
  <2>2. r = 0 => m = 2 * q
    BY <1>1
  <2> QED BY <2>1, <2>2
<1> QED BY <1>1, <1>2, <1>3, <1>4 DEF q, r

LEMMA ZerosFields ==
    ASSUME NEW a \in Matrix, NEW b \in Register, NEW c \in Nat
    PROVE  LET z == [mat |-> a, crc1 |-> b, len2 |-> c]
           IN  z \in Zeroing /\ z.mat = a /\ z.crc1 = b /\ z.len2 = c
BY DEF Zeroing

(* What is still to be done to the register.                               *)
Rest(z, y) == \E n \in Nat : Represents(z.mat, n) /\ y = Steps(n * z.len2, z.crc1)

LEMMA ZerosStepIs ==
    ASSUME NEW z \in Zeroing, NEW y, Rest(z, y)
    PROVE  /\ ZerosStep(z) \in Zeroing /\ Rest(ZerosStep(z), y)
           /\ z.len2 = 0 => ZerosStep(z).len2 = 0
           /\ z.len2 # 0 => ZerosStep(z).len2 <= z.len2 - 1
<1> DEFINE m == z.len2
           crc == IF m % 2 = 1 THEN Times(z.mat, z.crc1) ELSE z.crc1
           new == [mat |-> Square(z.mat), crc1 |-> crc, len2 |-> m \div 2]
<1>1. z.mat \in Matrix /\ z.crc1 \in Register /\ m \in Nat
  BY DEF Zeroing
<1>2. CASE m = 0
  <2>1. ZerosStep(z) = z
    BY <1>2 DEF ZerosStep
  <2> QED BY <1>2, <2>1
<1>3. CASE m # 0
  <2>1. ZerosStep(z) = new
    BY <1>3 DEF ZerosStep
  <2>2. PICK n \in Nat : Represents(z.mat, n) /\ y = Steps(n * m, z.crc1)
    BY DEF Rest
  <2>3. /\ m \div 2 \in Nat /\ m \div 2 <= m - 1 /\ m % 2 \in {0, 1}
        /\ n * m \in Nat /\ (n + n) * (m \div 2) \in Nat
        /\ m % 2 = 1 => n * m = n + (n + n) * (m \div 2)
        /\ m % 2 = 0 => n * m = (n + n) * (m \div 2)
    BY <1>1, <1>3, Halves
  <2>4. Represents(Square(z.mat), n + n) /\ Square(z.mat) \in Matrix
    BY <2>2, SquareIs DEF Represents
  <2>5. Times(z.mat, z.crc1) = Steps(n, z.crc1) /\ Steps(n, z.crc1) \in Register
    BY <1>1, <2>2, TimesIs, StepByStep
  <2> DEFINE h == m \div 2
             d == (n + n) * h
  <2>6. crc \in Register /\ y = Steps(d, crc)
    <3>1. CASE m % 2 = 1
      <4>1. crc = Steps(n, z.crc1)
        BY <3>1, <2>5
      <4>2. n * m = n + d /\ d \in Nat
        BY <3>1, <2>3
      <4> HIDE DEF d, crc, m
      <4>3. Steps(d, Steps(n, z.crc1)) = Steps(n + d, z.crc1)
        BY <1>1, <4>2, StepsAfterSteps
      <4> QED BY <2>2, <2>5, <4>1, <4>2, <4>3
    <3>2. CASE m % 2 = 0
      <4>1. crc = z.crc1
        BY <3>2
      <4>2. n * m = d
        BY <3>2, <2>3
      <4> HIDE DEF d, crc, m
      <4> QED BY <1>1, <2>2, <4>1, <4>2
    <3> QED BY <2>3, <3>1, <3>2
  <2>7. h \in Nat /\ h <= m - 1
    BY <2>3
  <2> HIDE DEF h, crc, m
  <2>8. new = [mat |-> Square(z.mat), crc1 |-> crc, len2 |-> h]
    BY DEF h
  <2> HIDE DEF new
  <2>9. new \in Zeroing /\ new.mat = Square(z.mat) /\ new.crc1 = crc /\ new.len2 = h
    BY <2>4, <2>6, <2>7, <2>8, ZerosFields
  <2>10. Rest(new, y)
    <3>1. n + n \in Nat
      OBVIOUS
    <3> QED BY <2>4, <2>6, <2>9, <3>1 DEF Rest
  <2> QED BY <1>3, <2>1, <2>7, <2>9, <2>10 DEF m
<1> QED BY <1>2, <1>3

\* Powers of the matrix, chosen by the bits of the length, put as many zeros.
LEMMA PutZerosIs ==
    ASSUME NEW n \in Nat, NEW mat, Represents(mat, n), NEW crc \in Register, NEW len \in Nat
    PROVE  PutZeros(mat, crc, len) = Steps(n * len, crc)
<1> DEFINE z == [mat |-> mat, crc1 |-> crc, len2 |-> len]
           y == Steps(n * len, crc)
           F(m) == Repeat(ZerosStep, m, z)
           K == {k \in 0 .. len : F(k) \in Zeroing /\ Rest(F(k), y) /\ F(k).len2 <= len - k}
<1>1. mat \in Matrix
  BY DEF Represents
<1>2. z \in Zeroing /\ z.mat = mat /\ z.crc1 = crc /\ z.len2 = len
  BY <1>1, ZerosFields
<1>3. PutZeros(mat, crc, len) = F(len).crc1
  BY DEF PutZeros
<1>4. \A m : F(m) = Zeros!Folded(z, [i \in 1 .. m |-> i])
  BY DEF Repeat, FoldLeft, MapThenFoldSet, Max, ZerosOp,
         Zeros!Folded, Zeros!MapThenFoldSet, Zeros!Greatest
<1> HIDE DEF z
<1>5. Zeros!IsClosed
  <2> SUFFICES ASSUME NEW x \in Zeroing PROVE ZerosStep(x) \in Zeroing
    BY DEF Zeros!IsClosed, ZerosOp
  <2>1. x.mat \in Matrix /\ x.crc1 \in Register /\ x.len2 \in Nat
    BY DEF Zeroing
  <2>2. Square(x.mat) \in Matrix
    BY <2>1, ColumnsAre DEF Square, Matrix
  <2>3. Times(x.mat, x.crc1) \in Register
    BY <2>1, ColumnsAre
  <2> DEFINE c == IF x.len2 % 2 = 1 THEN Times(x.mat, x.crc1) ELSE x.crc1
             s == Square(x.mat)
             h == x.len2 \div 2
  <2>4. c \in Register /\ s \in Matrix /\ h \in Nat
    BY <2>1, <2>2, <2>3
  <2>5. ZerosStep(x) = x \/ ZerosStep(x) = [mat |-> s, crc1 |-> c, len2 |-> h]
    BY DEF ZerosStep
  <2> HIDE DEF c, s, h
  <2> QED BY <2>4, <2>5, ZerosFields
<1>6. \A m \in Nat : F(0) = z /\ F(m + 1) = ZerosStep(F(m))
  <2> SUFFICES ASSUME NEW m \in Nat PROVE F(0) = z /\ F(m + 1) = ZerosOp(F(m), m + 1)
    BY DEF ZerosOp
  <2> HIDE DEF F
  <2> QED BY <1>2, <1>4, <1>5, Zeros!FoldOfNumbers
<1> HIDE DEF F
<1>7. 0 \in K
  <2>1. Rest(z, y)
    BY <1>2 DEF Rest
  <2>2. F(0) = z /\ 0 \in 0 .. len /\ len <= len - 0
    BY <1>6
  <2> HIDE DEF y
  <2> QED BY <1>2, <2>1, <2>2
<1> HIDE DEF y
<1>8. ASSUME NEW k \in 1 .. len, k - 1 \in K PROVE k \in K
  <2> DEFINE x == F(k - 1)
  <2>1. k - 1 \in Nat /\ (k - 1) + 1 = k /\ k \in 0 .. len
    OBVIOUS
  <2>2. x \in Zeroing /\ Rest(x, y) /\ x.len2 <= len - (k - 1)
    BY <1>8
  <2>3. F(k) = ZerosStep(x)
    BY <1>6, <2>1
  <2> HIDE DEF x
  <2>4. /\ ZerosStep(x) \in Zeroing /\ Rest(ZerosStep(x), y)
        /\ x.len2 = 0 => ZerosStep(x).len2 = 0
        /\ x.len2 # 0 => ZerosStep(x).len2 <= x.len2 - 1
    BY <2>2, ZerosStepIs
  <2>5. x.len2 \in Nat /\ ZerosStep(x).len2 \in Nat
    BY <2>2, <2>4 DEF Zeroing
  <2>6. ZerosStep(x).len2 <= len - k
    BY <2>2, <2>4, <2>5
  <2> QED BY <2>1, <2>3, <2>4, <2>6
<1>9. \A k \in 0 .. len : k \in K
  <2> HIDE DEF K
  <2> QED BY <1>7, <1>8, Bits!GoesOn
<1>10. F(len) \in Zeroing /\ Rest(F(len), y) /\ F(len).len2 <= len - len
  <2>1. len \in 0 .. len
    OBVIOUS
  <2> QED BY <1>9, <2>1
<1> DEFINE w == F(len)
<1> HIDE DEF w
<1>11. w.len2 = 0 /\ w.crc1 \in Register /\ Rest(w, y)
  <2>1. w \in Zeroing /\ Rest(w, y) /\ w.len2 <= 0
    BY <1>10 DEF w
  <2> QED BY <2>1 DEF Zeroing
<1>12. PICK k \in Nat : y = Steps(k * w.len2, w.crc1)
  BY <1>11 DEF Rest
<1>13. y = w.crc1
  <2>1. k * w.len2 = 0
    BY <1>11
  <2> QED BY <1>11, <1>12, <2>1, StepByStep
<1> QED BY <1>3, <1>13 DEF w, y

\* The checksum of two blocks from the checksums of each, however long they are (CombineCRC, crc64_combine).
THEOREM CombineIsOfBoth ==
    ASSUME NEW a \in Seq(Byte), NEW b \in Seq(Byte)
    PROVE  CombineCRC(Crc(a), Crc(b), Len(b)) = Crc(a \o b)
<1>1. Crc(a) \in Register /\ Crc(b) \in Register /\ Len(b) \in Nat /\ ByteBits \in Nat
  BY CrcIs, WidthsAre
<1>2. CASE Len(b) = 0
  <2>1. a \o b = a
    BY <1>2
  <2> QED BY <1>2, <2>1 DEF CombineCRC
<1>3. CASE Len(b) # 0
  <2>1. PutZeros(ZeroByte, Crc(a), Len(b)) = Steps(ByteBits * Len(b), Crc(a))
    BY <1>1, ZeroByteIs, PutZerosIs
  <2>2. ByteBits * Len(b) = At(Len(b))
    <3> DEFINE n == Len(b)
               m == ByteBits
    <3>1. n \in Nat /\ m \in Nat
      BY <1>1
    <3> HIDE DEF n, m
    <3>2. m * n = n * m
      BY <3>1, Z3
    <3> QED BY <3>2 DEF n, m, At
  <2> QED BY <1>3, <2>1, <2>2, CrcOfTwo DEF CombineCRC
<1> QED BY <1>2, <1>3

-----------------------------------------------------------------------------
(* The other byte order: everything with the bytes of a register reversed. *)

Place(i, c) == At(i) + c
Mirror(b) == (WordBytes - 1 - b \div ByteBits) * ByteBits + (b % ByteBits)

LEMMA Remainders ==
    ASSUME NEW n \in Nat \ {0}, NEW i \in Nat, NEW c \in 0 .. n - 1
    PROVE  (i * n + c) \div n = i /\ (i * n + c) % n = c
BY Z3

LEMMA Quotients ==
    ASSUME NEW n \in Nat \ {0}, NEW w \in Nat, NEW b \in 0 .. n * w - 1
    PROVE  /\ b \div n \in 0 .. w - 1 /\ b % n \in 0 .. n - 1
           /\ b = (b \div n) * n + (b % n)
<1>1. n * w \in Nat
  BY Z3
<1>2. b \in Nat /\ b < n * w
  BY <1>1
<1>3. b \div n \in Nat /\ b % n \in 0 .. n - 1 /\ b = (b \div n) * n + (b % n)
  BY <1>2, Z3
<1> DEFINE q == b \div n
<1>4. q * n <= b
  BY <1>2, <1>3, Z3
<1> HIDE DEF q
<1>5. q \in Nat
  BY <1>3 DEF q
<1>6. q < w
  <2> SUFFICES ASSUME w <= q PROVE FALSE
    BY <1>5
  <2>1. w * n <= q * n /\ w * n = n * w
    BY <1>5, Z3
  <2> QED BY <1>1, <1>2, <1>4, <1>5, <2>1, q * n \in Nat
<1> QED BY <1>3, <1>5, <1>6 DEF q

LEMMA PlacesAre ==
    /\ \A b \in 0 .. Dim - 1 : \E i \in 0 .. WordBytes - 1, c \in 0 .. ByteBits - 1 : b = Place(i, c)
    /\ \A i \in 0 .. WordBytes - 1, c \in 0 .. ByteBits - 1 :
          /\ Place(i, c) \in 0 .. Dim - 1
          /\ WordBytes - 1 - i \in 0 .. WordBytes - 1 /\ WordBytes - 1 - (WordBytes - 1 - i) = i
          /\ Mirror(Place(i, c)) = Place(WordBytes - 1 - i, c)
<1>1. ByteBits \in Nat \ {0} /\ WordBytes \in Nat \ {0} /\ Dim \in Nat
  BY WidthsAre
<1>2. ASSUME NEW b \in 0 .. Dim - 1
      PROVE  \E i \in 0 .. WordBytes - 1, c \in 0 .. ByteBits - 1 : b = Place(i, c)
  <2>1. b \in 0 .. ByteBits * WordBytes - 1
    BY DEF Dim
  <2>2. /\ b \div ByteBits \in 0 .. WordBytes - 1 /\ b % ByteBits \in 0 .. ByteBits - 1
        /\ b = Place(b \div ByteBits, b % ByteBits)
    BY <1>1, <2>1, Quotients DEF Place, At
  <2> QED BY <2>2
<1>3. ASSUME NEW i \in 0 .. WordBytes - 1, NEW c \in 0 .. ByteBits - 1
      PROVE  /\ Place(i, c) \in 0 .. Dim - 1
             /\ WordBytes - 1 - i \in 0 .. WordBytes - 1 /\ WordBytes - 1 - (WordBytes - 1 - i) = i
             /\ Mirror(Place(i, c)) = Place(WordBytes - 1 - i, c)
  <2>1. i \in Nat /\ i + 1 \in Nat /\ i + 1 <= WordBytes /\ WordBytes \in Nat
    BY <1>1
  <2>2. At(i) \in Nat /\ At(i + 1) = At(i) + ByteBits /\ At(i + 1) <= Dim
    BY <2>1, AtIs
  <2>3. Place(i, c) \in 0 .. Dim - 1
    BY <1>1, <2>2 DEF Place
  <2>4. WordBytes - 1 - i \in 0 .. WordBytes - 1 /\ WordBytes - 1 - (WordBytes - 1 - i) = i
    BY <1>1
  <2>5. Place(i, c) \div ByteBits = i /\ Place(i, c) % ByteBits = c
    BY <1>1, <2>1, Remainders DEF Place, At
  <2>6. Mirror(Place(i, c)) = Place(WordBytes - 1 - i, c)
    BY <2>5 DEF Mirror, Place, At
  <2> QED BY <2>3, <2>4, <2>6
<1> QED BY <1>2, <1>3

\* Registers with the same bits at all places are the same.
LEMMA ByPlaces ==
    ASSUME NEW x \in Register, NEW y \in Register,
           \A i \in 0 .. WordBytes - 1, c \in 0 .. ByteBits - 1 : Place(i, c) \in x <=> Place(i, c) \in y
    PROVE  x = y
<1>1. \A b \in 0 .. Dim - 1 : b \in x <=> b \in y
  BY PlacesAre
<1>2. (\A b \in x : b \in 0 .. Dim - 1) /\ \A b \in y : b \in 0 .. Dim - 1
  BY RegisterIs
<1> QED BY <1>1, <1>2

LEMMA ReversedIs ==
    ASSUME NEW x \in Register
    PROVE  /\ Reversed(x) \in Register
           /\ \A i \in 0 .. WordBytes - 1, c \in 0 .. ByteBits - 1 :
                 Place(i, c) \in Reversed(x) <=> Place(WordBytes - 1 - i, c) \in x
<1>1. Reversed(x) = {Mirror(b) : b \in x}
  BY DEF Reversed, Mirror
<1>2. \A b \in x : b \in 0 .. Dim - 1
  BY RegisterIs
<1>3. \A b \in 0 .. Dim - 1 : Mirror(b) \in 0 .. Dim - 1 /\ Mirror(Mirror(b)) = b
  <2> SUFFICES ASSUME NEW b \in 0 .. Dim - 1 PROVE Mirror(b) \in 0 .. Dim - 1 /\ Mirror(Mirror(b)) = b
    OBVIOUS
  <2>1. PICK i \in 0 .. WordBytes - 1, c \in 0 .. ByteBits - 1 : b = Place(i, c)
    BY PlacesAre
  <2>2. Mirror(b) = Place(WordBytes - 1 - i, c) /\ WordBytes - 1 - i \in 0 .. WordBytes - 1
        /\ WordBytes - 1 - (WordBytes - 1 - i) = i
    BY <2>1, PlacesAre
  <2> DEFINE j == WordBytes - 1 - i
  <2>3. j \in 0 .. WordBytes - 1 /\ Mirror(b) = Place(j, c) /\ WordBytes - 1 - j = i
    BY <2>2
  <2> HIDE DEF j
  <2>4. Mirror(Place(j, c)) = Place(WordBytes - 1 - j, c) /\ Place(j, c) \in 0 .. Dim - 1
    BY <2>3, PlacesAre
  <2> QED BY <2>1, <2>3, <2>4
<1>4. Reversed(x) \in Register
  <2>1. \A b \in Reversed(x) : b \in 0 .. Dim - 1
    BY <1>1, <1>2, <1>3
  <2> QED BY <2>1 DEF Register
<1>5. ASSUME NEW i \in 0 .. WordBytes - 1, NEW c \in 0 .. ByteBits - 1
      PROVE  Place(i, c) \in Reversed(x) <=> Place(WordBytes - 1 - i, c) \in x
  <2>1. /\ Place(i, c) \in 0 .. Dim - 1
        /\ Mirror(Place(i, c)) = Place(WordBytes - 1 - i, c)
    BY PlacesAre
  <2>2. ASSUME Place(i, c) \in Reversed(x) PROVE Place(WordBytes - 1 - i, c) \in x
    <3>1. PICK b \in x : Place(i, c) = Mirror(b)
      BY <1>1, <2>2
    <3>2. Mirror(Place(i, c)) = b
      BY <1>2, <1>3, <3>1
    <3> QED BY <2>1, <3>2
  <2>3. ASSUME Place(WordBytes - 1 - i, c) \in x PROVE Place(i, c) \in Reversed(x)
    <3>1. Mirror(Mirror(Place(i, c))) = Place(i, c)
      BY <1>3, <2>1
    <3>2. Place(i, c) = Mirror(Place(WordBytes - 1 - i, c))
      BY <2>1, <3>1
    <3> QED BY <1>1, <2>3, <3>2
  <2> QED BY <2>2, <2>3
<1> QED BY <1>4, <1>5

LEMMA ReversedTwice ==
    ASSUME NEW x \in Register
    PROVE  Reversed(Reversed(x)) = x
<1> DEFINE y == Reversed(x)
<1>1. y \in Register /\ \A i \in 0 .. WordBytes - 1, c \in 0 .. ByteBits - 1 :
         Place(i, c) \in y <=> Place(WordBytes - 1 - i, c) \in x
  BY ReversedIs
<1> HIDE DEF y
<1>2. Reversed(y) \in Register /\ \A i \in 0 .. WordBytes - 1, c \in 0 .. ByteBits - 1 :
         Place(i, c) \in Reversed(y) <=> Place(WordBytes - 1 - i, c) \in y
  BY <1>1, ReversedIs
<1>3. ASSUME NEW i \in 0 .. WordBytes - 1, NEW c \in 0 .. ByteBits - 1
      PROVE  Place(i, c) \in Reversed(y) <=> Place(i, c) \in x
  <2> DEFINE j == WordBytes - 1 - i
  <2>1. j \in 0 .. WordBytes - 1 /\ WordBytes - 1 - j = i
    BY PlacesAre
  <2>2. Place(i, c) \in Reversed(y) <=> Place(j, c) \in y
    BY <1>2
  <2> HIDE DEF j
  <2>3. Place(j, c) \in y <=> Place(WordBytes - 1 - j, c) \in x
    BY <1>1, <2>1
  <2> QED BY <2>1, <2>2, <2>3
<1>4. Reversed(y) = x
  BY <1>2, <1>3, ByPlaces
<1> QED BY <1>4 DEF y

LEMMA ReversedOfXor ==
    ASSUME NEW x \in Register, NEW y \in Register
    PROVE  Reversed(Xor(x, y)) = Xor(Reversed(x), Reversed(y))
<1> DEFINE l == Reversed(Xor(x, y))
           r == Xor(Reversed(x), Reversed(y))
<1>1. Xor(x, y) \in Register
  BY XorOfRegisters
<1>2. l \in Register /\ r \in Register
  BY <1>1, ReversedIs, XorOfRegisters
<1>3. ASSUME NEW i \in 0 .. WordBytes - 1, NEW c \in 0 .. ByteBits - 1
      PROVE  Place(i, c) \in l <=> Place(i, c) \in r
  <2> DEFINE b == Place(i, c)
             d == Place(WordBytes - 1 - i, c)
  <2>1. b \in l <=> d \in Xor(x, y)
    BY <1>1, ReversedIs
  <2>2. (b \in Reversed(x) <=> d \in x) /\ (b \in Reversed(y) <=> d \in y)
    BY ReversedIs
  <2> HIDE DEF b, d
  <2>3. b \in r <=> ~(b \in Reversed(x) <=> b \in Reversed(y))
    BY XorIs
  <2>4. d \in Xor(x, y) <=> ~(d \in x <=> d \in y)
    BY XorIs
  <2>5. b \in l <=> b \in r
    BY <2>1, <2>2, <2>3, <2>4
  <2> QED BY <2>5 DEF b
<1> HIDE DEF l, r
<1>4. l = r
  BY <1>2, <1>3, ByPlaces
<1> QED BY <1>4 DEF l, r

LEMMA ReversedOfNot ==
    ASSUME NEW x \in Register
    PROVE  Reversed(Not(x)) = Not(Reversed(x))
<1> DEFINE ones == Not({})
<1>1. {} \in Register /\ ones \in Register
  BY NotIs DEF Register
<1>2. \A y \in Register : Not(y) = Xor(y, ones)
  BY DEF Not, Xor, SymDiff, Register
<1>3. Reversed(ones) = ones
  <2>1. Reversed(ones) \in Register
    BY <1>1, ReversedIs
  <2>2. ASSUME NEW i \in 0 .. WordBytes - 1, NEW c \in 0 .. ByteBits - 1
        PROVE  Place(i, c) \in Reversed(ones) <=> Place(i, c) \in ones
    <3>1. Place(i, c) \in 0 .. Dim - 1 /\ WordBytes - 1 - i \in 0 .. WordBytes - 1
      BY PlacesAre
    <3>2. Place(WordBytes - 1 - i, c) \in 0 .. Dim - 1
      BY <3>1, PlacesAre
    <3>3. Place(i, c) \in Reversed(ones) <=> Place(WordBytes - 1 - i, c) \in ones
      BY <1>1, ReversedIs
    <3>4. Place(i, c) \in ones /\ Place(WordBytes - 1 - i, c) \in ones
      BY <3>1, <3>2 DEF Not
    <3> QED BY <3>3, <3>4
  <2> HIDE DEF ones
  <2> QED BY <1>1, <2>1, <2>2, ByPlaces
<1> HIDE DEF ones
<1>4. Reversed(x) \in Register
  BY ReversedIs
<1>5. Reversed(Xor(x, ones)) = Xor(Reversed(x), Reversed(ones))
  BY <1>1, ReversedOfXor
<1> QED BY <1>2, <1>3, <1>4, <1>5

LEMMA ByteOfReversed ==
    ASSUME NEW x \in Register, NEW i \in 0 .. WordBytes - 1
    PROVE  ByteAt(Reversed(x), i) = ByteAt(x, WordBytes - 1 - i)
<1> DEFINE l == ByteAt(Reversed(x), i)
           j == WordBytes - 1 - i
           r == ByteAt(x, j)
<1>1. Reversed(x) \in Register /\ i \in Nat /\ j \in Nat /\ ByteBits \in Nat
  BY ReversedIs, WidthsAre
<1>2. \A c \in 0 .. ByteBits - 1 : Place(i, c) \in Reversed(x) <=> Place(j, c) \in x
  BY ReversedIs
<1> HIDE DEF j
<1>3. l \in Byte /\ \A b \in Nat : b \in l <=> b + At(i) \in Reversed(x) /\ b < ByteBits
  BY <1>1, ByteAtIs
<1>4. r \in Byte /\ \A b \in Nat : b \in r <=> b + At(j) \in x /\ b < ByteBits
  BY <1>1, ByteAtIs
<1> HIDE DEF l, r
<1>5. ASSUME NEW b \in 0 .. ByteBits - 1 PROVE b \in l <=> b \in r
  <2>1. At(i) \in Nat /\ At(j) \in Nat
    BY <1>1, AtIs
  <2>2. b \in Nat /\ b < ByteBits /\ b + At(i) = Place(i, b) /\ b + At(j) = Place(j, b)
    BY <1>1, <2>1 DEF Place
  <2> QED BY <1>2, <1>3, <1>4, <2>2
<1>6. l = r
  BY <1>3, <1>4, <1>5 DEF Byte
<1> QED BY <1>6 DEF l, r, j

LEMMA ShiftOfReversed ==
    ASSUME NEW x \in Register
    PROVE  ShiftLeft(Reversed(x), ByteBits) = Reversed(ShiftRight(x, ByteBits))
<1> DEFINE z == Reversed(x)
           y == ShiftRight(x, ByteBits)
           l == ShiftLeft(z, ByteBits)
           r == Reversed(y)
<1>0. ByteBits \in Nat \ {0} /\ WordBytes \in Nat \ {0} /\ Dim \in Nat
  BY WidthsAre
<1>1. z \in Register /\ y \in Register /\ x \subseteq Nat /\ z \subseteq Nat
  BY <1>0, ReversedIs, ShiftOfRegister, RegisterIs
<1>2. l \in Register /\ r \in Register
  BY <1>1, ReversedIs DEF ShiftLeft, Register
<1>3. l = {b + ByteBits : b \in z} \cap 0 .. Dim - 1
  BY DEF ShiftLeft
<1>4. \A b \in Nat : b \in y <=> b + ByteBits \in x
  BY <1>0, <1>1, ShiftIs
<1>5. ASSUME NEW i \in 0 .. WordBytes - 1, NEW c \in 0 .. ByteBits - 1
      PROVE  Place(i, c) \in l <=> Place(i, c) \in r
  <2> DEFINE j == WordBytes - 1 - i
  <2>1. /\ Place(i, c) \in 0 .. Dim - 1 /\ j \in 0 .. WordBytes - 1
        /\ i \in Nat /\ j \in Nat /\ c \in Nat /\ c < ByteBits
    BY <1>0, PlacesAre
  <2>2. Place(i, c) \in r <=> Place(j, c) \in y
    BY <1>1, ReversedIs
  <2>3. At(i) \in Nat /\ At(j) \in Nat /\ At(j + 1) = At(j) + ByteBits
    BY <2>1, AtIs
  <2>4. Place(j, c) \in Nat /\ Place(j, c) + ByteBits = Place(j + 1, c)
    BY <1>0, <2>1, <2>3 DEF Place
  <2>5. Place(i, c) \in r <=> Place(j + 1, c) \in x
    BY <1>4, <2>2, <2>4
  <2>6. CASE i = 0
    <3>1. j + 1 = WordBytes /\ At(0) = 0 /\ At(WordBytes) = Dim
      BY <1>0, <2>6, AtIs
    <3>2. ~(Place(j + 1, c) \in 0 .. Dim - 1)
      BY <1>0, <2>1, <3>1 DEF Place
    <3>3. Place(i, c) \notin r
      BY <2>5, <3>2, RegisterIs
    <3>4. Place(i, c) = c
      BY <2>1, <2>6, <3>1 DEF Place
    <3>5. \A b \in z : b + ByteBits # c
      BY <1>0, <1>1, <2>1
    <3> HIDE DEF z, y, l, r
    <3> QED BY <1>3, <3>3, <3>4, <3>5
  <2>7. CASE i # 0
    <3> DEFINE k == i - 1
    <3>1. k \in 0 .. WordBytes - 1 /\ k \in Nat /\ k + 1 = i /\ WordBytes - 1 - k = j + 1
      BY <1>0, <2>7
    <3>2. At(k) \in Nat /\ At(i) = At(k) + ByteBits
      BY <3>1, AtIs
    <3> HIDE DEF k
    <3>3. Place(k, c) \in z <=> Place(j + 1, c) \in x
      <4>1. Place(k, c) \in z <=> Place(WordBytes - 1 - k, c) \in x
        BY <3>1, ReversedIs
      <4> HIDE DEF j, z
      <4> QED BY <3>1, <4>1
    <3>4. Place(k, c) \in Nat /\ Place(i, c) = Place(k, c) + ByteBits
      BY <1>0, <2>1, <3>2 DEF Place
    <3> HIDE DEF z, y, l, r, j
    <3>5. Place(i, c) \in l <=> Place(k, c) \in z
      <4>1. \A b \in z : b + ByteBits = Place(i, c) => b = Place(k, c)
        BY <1>0, <1>1, <3>4
      <4> QED BY <1>3, <2>1, <3>4, <4>1
    <3> QED BY <2>5, <3>3, <3>5
  <2> QED BY <2>6, <2>7
<1> HIDE DEF z, y, l, r
<1>6. l = r
  BY <1>2, <1>5, ByPlaces
<1> QED BY <1>6 DEF l, r, y, z

LEMMA BigTableIs ==
    ASSUME NEW k \in 0 .. WordBytes - 1, NEW b \in Byte
    PROVE  BigTable[k][b] = Reversed(Table[k][b])
BY DEF BigTable

\* Feeding a byte on the other side.
LEMMA BigByteIs ==
    ASSUME NEW crc \in Register, NEW byte \in Byte
    PROVE  BigByte(Reversed(crc), byte) = Reversed(Feed(crc, byte))
<1> DEFINE n == Xor(ByteAt(crc, 0), byte)
           s == ShiftRight(crc, ByteBits)
<1>0. ByteBits \in Nat \ {0} /\ WordBytes \in Nat \ {0} /\ byte \in Register
  BY WidthsAre, ByteIsRegister
<1>1. ByteAt(Reversed(crc), WordBytes - 1) = ByteAt(crc, 0)
  <2>1. WordBytes - 1 \in 0 .. WordBytes - 1 /\ WordBytes - 1 - (WordBytes - 1) = 0
    BY <1>0
  <2> QED BY <2>1, ByteOfReversed
<1>2. ByteAt(crc, 0) \in Byte /\ n \in Byte
  <2>1. ByteAt(crc, 0) \in Byte
    BY ByteAtIs
  <2> HIDE DEF n
  <2>2. \A x \in Byte, y \in Byte : Xor(x, y) \in Byte
    BY DEF Xor, SymDiff, Byte
  <2> QED BY <2>1, <2>2 DEF n
<1>3. s \in Register /\ Xor(crc, byte) \in Register
  BY <1>0, ShiftOfRegister, XorOfRegisters
<1>4. BigByte(Reversed(crc), byte) = Xor(Reversed(Table[0][n]), Reversed(s))
  <2>1. BigByte(Reversed(crc), byte) = Xor(BigTable[0][n], Reversed(s))
    BY <1>1, ShiftOfReversed DEF BigByte
  <2>2. 0 \in 0 .. WordBytes - 1
    BY <1>0
  <2> HIDE DEF n, s
  <2> QED BY <1>2, <2>1, <2>2, BigTableIs
<1>5. Table[0][n] = ByteTable[n] /\ Table[0][n] \in Register
  <2>1. 0 \in 0 .. WordBytes - 1 /\ At(0 + 1) = ByteBits
    BY <1>0, AtIs
  <2> HIDE DEF n
  <2> QED BY <1>2, <2>1, TableIs, ByteTableIs
<1>6. ByteAt(Xor(crc, byte), 0) = n
  <2> DEFINE l == ByteAt(Xor(crc, byte), 0)
             a == ByteAt(crc, 0)
  <2>1. l \in Byte /\ \A b \in Nat : b \in l <=> b + At(0) \in Xor(crc, byte) /\ b < ByteBits
    BY <1>3, ByteAtIs
  <2>2. \A b \in Nat : b \in a <=> b + At(0) \in crc /\ b < ByteBits
    BY ByteAtIs
  <2>3. At(0) = 0
    BY AtIs
  <2> HIDE DEF l, a
  <2>4. ASSUME NEW b \in 0 .. ByteBits - 1 PROVE b \in l <=> ~(b \in a <=> b \in byte)
    <3>1. b \in Nat /\ b < ByteBits /\ b + At(0) = b
      BY <1>0, <2>3
    <3>2. b \in Xor(crc, byte) <=> ~(b \in crc <=> b \in byte)
      BY XorIs
    <3> QED BY <2>1, <2>2, <3>1, <3>2
  <2>5. \A b : b \in l <=> ~(b \in a <=> b \in byte)
    <3>1. l \subseteq 0 .. ByteBits - 1 /\ a \subseteq 0 .. ByteBits - 1 /\ byte \subseteq 0 .. ByteBits - 1
      BY <1>2, <2>1 DEF Byte, a
    <3> QED BY <2>4, <3>1
  <2>6. l = Xor(a, byte)
    BY <2>5, XorSame
  <2> QED BY <2>6 DEF l, a
<1>7. ShiftRight(Xor(crc, byte), ByteBits) = s
  <2>1. ShiftRight(byte, ByteBits) = {}
    <3>1. \A b \in byte : ~(b >= ByteBits)
      BY <1>0 DEF Byte
    <3> QED BY <3>1 DEF ShiftRight
  <2>2. ShiftRight(Xor(crc, byte), ByteBits) = Xor(s, ShiftRight(byte, ByteBits))
    BY <1>0, ShiftOfXor
  <2> HIDE DEF s
  <2> QED BY <2>1, <2>2, XorLaws
<1>8. Feed(crc, byte) = Xor(Table[0][n], s)
  <2>1. Feed(crc, byte) = ByteStep(Xor(crc, byte))
    BY FeedIs DEF LittleByte
  <2> HIDE DEF n, s
  <2>2. ByteStep(Xor(crc, byte)) = Xor(ByteTable[n], s)
    BY <1>6, <1>7 DEF ByteStep
  <2> QED BY <1>5, <2>1, <2>2
<1> HIDE DEF n, s
<1>9. Reversed(Xor(Table[0][n], s)) = Xor(Reversed(Table[0][n]), Reversed(s))
  BY <1>3, <1>5, ReversedOfXor
<1> QED BY <1>4, <1>8, <1>9

LEMMA BigWordIs ==
    ASSUME NEW crc \in Register, NEW word \in Register
    PROVE  BigWord(Reversed(crc), word) = Reversed(LittleWord(crc, word))
<1> DEFINE y == Xor(crc, word)
           w == WordBytes
           s == [i \in 1 .. w |-> BigTable[i - 1][ByteAt(Reversed(y), i - 1)]]
           From(n) == {b \in y : b >= n}
           r == [k \in 0 .. w |-> Reversed(Steps(Dim, From(At(w - k))))]
<1>0. w \in Nat \ {0} /\ Dim \in Nat
  BY WidthsAre
<1>1. y \in Register /\ y \subseteq Nat /\ \A b \in y : b \in 0 .. Dim - 1
  <2>1. y \in Register
    BY XorOfRegisters
  <2> HIDE DEF y
  <2> QED BY <2>1, RegisterIs
<1>2. BigWord(Reversed(crc), word) = XorAll(s)
  <2>1. Xor(Reversed(crc), Reversed(word)) = Reversed(y)
    BY ReversedOfXor
  <2> QED BY <2>1 DEF BigWord
<1>3. \A n : From(n) \in Register
  BY <1>1 DEF Register
<1> HIDE DEF y
<1>4. ASSUME NEW k \in 1 .. w
      PROVE  /\ s[k] = Reversed(Steps(Dim, ByteIn(y, w - k + 1)))
             /\ s[k] \in Register
  <2> DEFINE i == w - k + 1
  <2>1. /\ i \in 1 .. w /\ w - i = k - 1 /\ w - 1 - (k - 1) = i - 1
        /\ k - 1 \in 0 .. w - 1 /\ i - 1 \in Nat
    BY <1>0
  <2> HIDE DEF i
  <2>2. ByteAt(Reversed(y), k - 1) = ByteAt(y, i - 1)
    <3>1. ByteAt(Reversed(y), k - 1) = ByteAt(y, w - 1 - (k - 1))
      BY <1>1, <2>1, ByteOfReversed
    <3> QED BY <2>1, <3>1
  <2>3. ByteAt(y, i - 1) \in Byte
    BY <1>1, <2>1, ByteAtIs
  <2>4. BigTable[k - 1][ByteAt(y, i - 1)] = Reversed(Table[k - 1][ByteAt(y, i - 1)])
    BY <2>1, <2>3, BigTableIs
  <2>5. Table[w - i][ByteAt(y, i - 1)] = Steps(Dim, ByteIn(y, i)) /\ Table[w - i][ByteAt(y, i - 1)] \in Register
    BY <1>1, <2>1, TableOfWord
  <2>6. s[k] = BigTable[k - 1][ByteAt(y, i - 1)]
    BY <2>2
  <2> HIDE DEF s, w
  <2>7. s[k] = Reversed(Steps(Dim, ByteIn(y, i))) /\ s[k] = Reversed(Table[k - 1][ByteAt(y, i - 1)])
    BY <2>1, <2>4, <2>5, <2>6
  <2>8. s[k] \in Register
    BY <2>1, <2>5, <2>7, ReversedIs
  <2> QED BY <2>7, <2>8 DEF i
<1>5. s \in Seq(Register) /\ Len(s) = w
  <2>1. s \in [1 .. w -> Register]
    BY <1>4
  <2> HIDE DEF s, w
  <2> QED BY <1>0, <2>1
<1>6. Reversed({}) = {} /\ {} \in Register
  BY DEF Reversed, Register
<1>7. r[0] = {}
  <2>1. From(Dim) = {}
    <3>1. \A b \in y : ~(b >= Dim)
      <4> SUFFICES ASSUME NEW b \in y PROVE ~(b >= Dim)
        OBVIOUS
      <4>1. b \in 0 .. Dim - 1
        BY <1>1
      <4> QED BY <1>0, <4>1
    <3> QED BY <3>1
  <2>2. 0 \in 0 .. w /\ w - 0 = w /\ At(w) = Dim
    BY <1>0, AtIs
  <2>3. r[0] = Reversed(Steps(Dim, From(Dim)))
    BY <2>2
  <2> HIDE DEF r, From
  <2> QED BY <1>0, <1>6, <2>1, <2>3, StepsOfNone
<1>8. ASSUME NEW k \in 1 .. w PROVE r[k] = Xor(r[k - 1], s[k])
  <2> DEFINE i == w - k + 1
             a == From(At(i))
             b == ByteIn(y, i)
             d == From(At(i - 1))
  <2>1. i \in Nat \ {0} /\ i - 1 \in Nat /\ i - 1 = w - k /\ i = w - (k - 1) /\ (i - 1) + 1 = i
        /\ k \in 0 .. w /\ k - 1 \in 0 .. w
    BY <1>0
  <2>2. At(i - 1) \in Nat /\ At(i) \in Nat /\ At(i - 1) <= At(i)
    <3>1. At(i) = At(i - 1) + ByteBits /\ At(i - 1) \in Nat /\ ByteBits \in Nat
      BY <2>1, AtIs, WidthsAre
    <3> HIDE DEF i
    <3> QED BY <3>1
  <2>3. r[k] = Reversed(Steps(Dim, d)) /\ r[k - 1] = Reversed(Steps(Dim, a))
    BY <2>1
  <2>4. s[k] = Reversed(Steps(Dim, b))
    BY <1>4
  <2>5. a \in Register /\ b \in Register
    BY <1>1, <1>3, <2>1, BelowIs
  <2>6. d = Xor(a, b)
    <3>1. \A x \in y : x >= At(i - 1) <=> ~(x >= At(i) <=> At(i - 1) <= x /\ x < At(i))
      BY <1>1, <2>2
    <3>2. \A x : x \in d <=> ~(x \in a <=> x \in b)
      BY <3>1 DEF ByteIn
    <3> HIDE DEF a, b, d
    <3> QED BY <3>2, XorSame
  <2> HIDE DEF a, b, d, r, s
  <2>7. Steps(Dim, d) = Xor(Steps(Dim, a), Steps(Dim, b))
    BY <1>0, <2>5, <2>6, StepsOfXor
  <2>8. Steps(Dim, a) \in Register /\ Steps(Dim, b) \in Register
    BY <1>0, <2>5, StepByStep
  <2> QED BY <2>3, <2>4, <2>7, <2>8, ReversedOfXor
<1>9. r[w] = Reversed(Steps(Dim, y))
  <2>1. From(0) = y
    <3>1. \A b \in y : b >= 0
      <4> SUFFICES ASSUME NEW b \in y PROVE b >= 0
        OBVIOUS
      <4>1. b \in Nat
        BY <1>1
      <4> QED BY <4>1
    <3> QED BY <3>1
  <2>2. w \in 0 .. w /\ w - w = 0 /\ At(0) = 0
    BY <1>0, AtIs
  <2>3. r[w] = Reversed(Steps(Dim, From(0)))
    BY <2>2
  <2> QED BY <2>1, <2>3
<1> HIDE DEF s, r, w
<1>10. XorAll(s) = r[Len(s)]
  BY <1>5, <1>7, <1>8, XorsIs
<1>11. LittleWord(crc, word) = Steps(Dim, y)
  BY LittleWordIs DEF y
<1> QED BY <1>2, <1>5, <1>9, <1>10, <1>11

\* Registers are reversed registers, so that the steps of this side have their types too.
LEMMA BigStepsAreClosed == BigBytes!IsClosed /\ BigWords!IsClosed
<1>1. ASSUME NEW crc \in Register, NEW byte \in Byte PROVE BigByte(crc, byte) \in Register
  <2>1. Reversed(crc) \in Register /\ Reversed(Reversed(crc)) = crc
    BY ReversedIs, ReversedTwice
  <2>2. BigByte(crc, byte) = Reversed(Feed(Reversed(crc), byte)) /\ Feed(Reversed(crc), byte) \in Register
    <3>1. BigByte(Reversed(Reversed(crc)), byte) = Reversed(Feed(Reversed(crc), byte))
      BY <2>1, BigByteIs
    <3> QED BY <2>1, <3>1, FeedIs
  <2> QED BY <2>2, ReversedIs
<1>2. ASSUME NEW crc \in Register, NEW word \in Register PROVE BigWord(crc, word) \in Register
  <2>1. Reversed(crc) \in Register /\ Reversed(Reversed(crc)) = crc
    BY ReversedIs, ReversedTwice
  <2>2. BigWord(crc, word) = Reversed(LittleWord(Reversed(crc), word))
    <3>1. BigWord(Reversed(Reversed(crc)), word) = Reversed(LittleWord(Reversed(crc), word))
      BY <2>1, BigWordIs
    <3> QED BY <2>1, <3>1
  <2>3. LittleWord(Reversed(crc), word) \in Register
    BY <2>1, LittleWordsAreClosed DEF LittleWords!IsClosed
  <2> QED BY <2>2, <2>3, ReversedIs
<1> QED BY <1>1, <1>2 DEF BigBytes!IsClosed, BigWords!IsClosed

LEMMA CrcBigIs ==
    ASSUME NEW crc \in Register, NEW buf \in Seq(Byte), NEW address \in 0 .. WordBytes - 1
    PROVE  CrcBig(crc, buf, address) = AllFed(crc, buf)
<1> DEFINE p == Pieces(buf, address)
           x == Not(crc)
           z == Not(Reversed(crc))
<1>1. PICK lead \in Nat, n \in Nat : InPieces(p, buf, lead, n)
  BY PiecesAre
<1>2. x \in Register /\ z \in Register /\ z = Reversed(x)
  BY NotIs, ReversedIs, ReversedOfNot
<1>3. CrcBig(crc, buf, address) =
        Not(Reversed(BigBytes!Folded(BigWords!Folded(BigBytes!Folded(z, p.lead), p.words), p.rest)))
  BY DEF CrcBig, FoldLeft, MapThenFoldSet, Max,
         BigBytes!Folded, BigBytes!MapThenFoldSet, BigBytes!Greatest,
         BigWords!Folded, BigWords!MapThenFoldSet, BigWords!Greatest
<1> HIDE DEF p, x, z
<1>4. PICK r : Fed(r, x, buf)
  BY <1>2, FedExists
<1> DEFINE v == [k \in 0 .. Len(buf) |-> Reversed(r[k])]
<1>5. r \in [0 .. Len(buf) -> Register] /\ r[0] = x /\ Feeds!Leads(r, x, buf)
  BY <1>4 DEF Fed, Feeds!Leads
<1>6. v \in [0 .. Len(buf) -> Register] /\ v[0] = z
  <2>1. \A k \in 0 .. Len(buf) : Reversed(r[k]) \in Register
    BY <1>5, ReversedIs
  <2>2. 0 \in 0 .. Len(buf)
    OBVIOUS
  <2> QED BY <1>2, <1>5, <2>1, <2>2
<1>7. BigBytes!Leads(v, z, buf)
  <2>1. \A k \in 1 .. Len(buf) : v[k] = BigByte(v[k - 1], buf[k])
    <3> SUFFICES ASSUME NEW k \in 1 .. Len(buf) PROVE v[k] = BigByte(v[k - 1], buf[k])
      OBVIOUS
    <3>1. k - 1 \in 0 .. Len(buf) /\ k \in 0 .. Len(buf) /\ buf[k] \in Byte
      OBVIOUS
    <3>2. r[k - 1] \in Register /\ r[k] = Feed(r[k - 1], buf[k])
      BY <1>4, <3>1 DEF Fed
    <3>3. v[k] = Reversed(r[k]) /\ v[k - 1] = Reversed(r[k - 1])
      BY <3>1
    <3> HIDE DEF v
    <3> QED BY <3>1, <3>2, <3>3, BigByteIs
  <2> QED BY <1>6, <2>1 DEF BigBytes!Leads
<1> DEFINE q == Between(r, lead, n)
           last == lead + n * WordBytes
           u == [m \in 0 .. n |-> Reversed(q[m])]
<1>8. /\ lead \in 0 .. Len(buf) /\ last \in 0 .. Len(buf)
      /\ q[0] = r[lead] /\ q[n] = r[last]
      /\ \A m \in 1 .. n : /\ q[m - 1] \in Register /\ p.words[m] \in Register
                           /\ q[m] = LittleWord(q[m - 1], p.words[m])
  BY <1>1, <1>2, <1>4, WordsAreFed
<1>9. /\ p.lead = SubSeq(buf, 0 + 1, lead) /\ p.rest = SubSeq(buf, last + 1, Len(buf))
      /\ p.words \in Seq(Register) /\ Len(p.words) = n
  BY <1>1 DEF InPieces
<1>10. v[lead] = Reversed(r[lead]) /\ v[last] = Reversed(r[last]) /\ v[Len(buf)] = Reversed(r[Len(buf)])
  BY <1>8
<1> HIDE DEF q, last, v
<1>11. BigBytes!Folded(z, p.lead) = v[lead]
  <2>1. 0 \in 0 .. Len(buf) /\ lead \in 0 .. Len(buf)
    BY <1>8
  <2>2. BigBytes!Folded(v[0], SubSeq(buf, 0 + 1, lead)) = v[lead]
    BY <1>2, <1>6, <1>7, <2>1, BigStepsAreClosed, BigBytes!FoldOfPiece
  <2> QED BY <1>6, <1>9, <2>2
<1>12. BigWords!Folded(v[lead], p.words) = v[last]
  <2>1. u[0] = v[lead] /\ u[n] = v[last]
    <3>1. 0 \in 0 .. n /\ n \in 0 .. n
      OBVIOUS
    <3> QED BY <1>8, <1>10, <3>1
  <2>2. \A m \in 1 .. n : u[m] = BigWord(u[m - 1], p.words[m])
    <3> SUFFICES ASSUME NEW m \in 1 .. n PROVE u[m] = BigWord(u[m - 1], p.words[m])
      OBVIOUS
    <3>1. m \in 0 .. n /\ m - 1 \in 0 .. n
      OBVIOUS
    <3>2. u[m] = Reversed(q[m]) /\ u[m - 1] = Reversed(q[m - 1])
      BY <3>1
    <3> HIDE DEF u
    <3> QED BY <1>8, <3>2, BigWordIs
  <2> HIDE DEF u
  <2>3. BigWords!Leads(u, v[lead], p.words)
    BY <1>9, <2>1, <2>2 DEF BigWords!Leads
  <2>4. v[lead] \in Register
    BY <1>6, <1>8
  <2>5. BigWords!Folded(v[lead], p.words) = u[Len(p.words)]
    BY <1>9, <2>3, <2>4, BigStepsAreClosed, BigWords!FoldIs
  <2> QED BY <1>9, <2>1, <2>5
<1>13. BigBytes!Folded(v[last], p.rest) = v[Len(buf)]
  <2>1. Len(buf) \in last .. Len(buf)
    BY <1>8
  <2>2. BigBytes!Folded(v[last], SubSeq(buf, last + 1, Len(buf))) = v[Len(buf)]
    BY <1>2, <1>6, <1>7, <1>8, <2>1, BigStepsAreClosed, BigBytes!FoldOfPiece
  <2> QED BY <1>9, <2>2
<1>14. Feeds!Folded(x, buf) = r[Len(buf)]
  BY <1>2, <1>5, FeedsAreClosed, Feeds!FoldIs
<1>15. Reversed(v[Len(buf)]) = r[Len(buf)]
  <2>1. Len(buf) \in 0 .. Len(buf)
    OBVIOUS
  <2>2. r[Len(buf)] \in Register
    BY <1>5, <2>1
  <2> QED BY <1>10, <2>2, ReversedTwice
<1> QED BY <1>3, <1>11, <1>12, <1>13, <1>14, <1>15 DEF AllFed, x

\* Cut into two pieces, each anywhere in memory, and in either byte order, a block has the checksum of its bits (CalcCRC).
THEOREM CalcIsOfBits ==
    ASSUME NEW buf \in Seq(Byte), NEW cut \in 0 .. Len(buf), NEW address \in 0 .. WordBytes - 1, NEW little \in BOOLEAN
    PROVE  CalcCRC(CalcCRC({}, SubSeq(buf, 1, cut), 0, little), SubSeq(buf, cut + 1, Len(buf)), address, little) = Crc(buf)
<1> DEFINE a == SubSeq(buf, 1, cut)
           b == SubSeq(buf, cut + 1, Len(buf))
<1>1. cut \in Nat /\ Len(buf) \in Nat /\ cut <= Len(buf) /\ 0 \in 0 .. WordBytes - 1
  BY WidthsAre
<1>2. /\ a \in Seq(Byte) /\ Len(a) = cut /\ \A k \in 1 .. cut : a[k] = buf[k]
      /\ b \in Seq(Byte) /\ Len(b) = Len(buf) - cut /\ \A k \in 1 .. Len(buf) - cut : b[k] = buf[cut + k]
  BY <1>1
<1> HIDE DEF a, b
<1>3. a \o b = buf
  <2>1. a \o b \in Seq(Byte) /\ Len(a \o b) = Len(buf)
    BY <1>1, <1>2
  <2>2. \A k \in 1 .. Len(buf) : (a \o b)[k] = buf[k]
    <3> SUFFICES ASSUME NEW k \in 1 .. Len(buf) PROVE (a \o b)[k] = buf[k]
      OBVIOUS
    <3>1. CASE k <= cut
      BY <1>1, <1>2, <3>1
    <3>2. CASE ~(k <= cut)
      <4>1. (a \o b)[k] = b[k - cut] /\ k - cut \in 1 .. Len(buf) - cut /\ cut + (k - cut) = k
        BY <1>1, <1>2, <3>2
      <4> QED BY <1>2, <4>1
    <3> QED BY <3>1, <3>2
  <2> QED BY <2>1, <2>2, SameSequence
<1>4. {} \in Register /\ Crc(buf) = AllFed({}, buf)
  BY CrcIs
<1>5. AllFed({}, a) \in Register /\ AllFed(AllFed({}, a), b) = AllFed({}, buf)
  BY <1>2, <1>3, <1>4, AllFedOfTwo
<1>6. \A crc \in Register, s \in Seq(Byte), k \in 0 .. WordBytes - 1 : CalcCRC(crc, s, k, little) = AllFed(crc, s)
  BY CrcLittleIs, CrcBigIs DEF CalcCRC
<1>7. CalcCRC({}, a, 0, little) = AllFed({}, a)
  BY <1>1, <1>2, <1>4, <1>6
<1>8. CalcCRC(AllFed({}, a), b, address, little) = AllFed(AllFed({}, a), b)
  BY <1>2, <1>5, <1>6
<1> QED BY <1>4, <1>5, <1>7, <1>8 DEF a, b

-----------------------------------------------------------------------------
(* The file from its parts.                                                *)

Rising(s, n) == \A i, j \in 1 .. n : i < j => s[i].number < s[j].number

\* n things with the numbers 1 .. n stand at the places of their numbers once they are sorted.
LEMMA NumbersAreReached ==
    ASSUME NEW n \in Nat, NEW s, \A i \in 1 .. n : s[i].number \in 1 .. n, Rising(s, n)
    PROVE  \A i \in 1 .. n : s[i].number = i
<1> DEFINE K == {k \in 0 .. n : k > 0 => s[k].number >= k}
           L == {k \in 0 .. n : k > 0 => s[n + 1 - k].number <= n + 1 - k}
<1>1. \A k \in 0 .. n : k \in K
  <2>1. 0 \in K
    OBVIOUS
  <2>2. ASSUME NEW k \in 1 .. n, k - 1 \in K PROVE k \in K
    <3>1. s[k].number \in 1 .. n
      OBVIOUS
    <3>2. CASE k = 1
      BY <3>1, <3>2
    <3>3. CASE k # 1
      <4>1. k - 1 \in 1 .. n /\ k - 1 < k
        BY <3>3
      <4>2. s[k - 1].number < s[k].number /\ s[k - 1].number >= k - 1 /\ s[k - 1].number \in 1 .. n
        BY <2>2, <3>3, <4>1 DEF Rising
      <4> QED BY <3>1, <4>1, <4>2
    <3> QED BY <3>2, <3>3
  <2> HIDE DEF K
  <2> QED BY <2>1, <2>2, Feeds!GoesOn
<1>2. \A k \in 0 .. n : k \in L
  <2>1. 0 \in L
    OBVIOUS
  <2>2. ASSUME NEW k \in 1 .. n, k - 1 \in L PROVE k \in L
    <3> DEFINE i == n + 1 - k
    <3>1. i \in 1 .. n /\ s[i].number \in 1 .. n /\ n + 1 - (k - 1) = i + 1
      OBVIOUS
    <3>2. CASE k = 1
      BY <3>1, <3>2
    <3>3. CASE k # 1
      <4>1. i + 1 \in 1 .. n /\ i < i + 1
        BY <3>3
      <4>2. k - 1 > 0
        BY <3>3
      <4>3. s[i + 1].number <= i + 1
        BY <2>2, <3>1, <4>2
      <4>4. s[i].number < s[i + 1].number /\ s[i + 1].number \in 1 .. n
        BY <3>1, <4>1 DEF Rising
      <4>5. s[i].number <= i
        BY <3>1, <4>3, <4>4
      <4> QED BY <4>5
    <3> QED BY <3>2, <3>3
  <2> HIDE DEF L
  <2> QED BY <2>1, <2>2, Feeds!GoesOn
<1>3. ASSUME NEW i \in 1 .. n PROVE s[i].number = i
  <2>1. s[i].number >= i
    BY <1>1
  <2>2. n + 1 - i \in 1 .. n /\ n + 1 - (n + 1 - i) = i
    OBVIOUS
  <2>3. n + 1 - i \in L
    BY <1>2, <2>2
  <2>4. s[i].number <= i
    BY <2>2, <2>3
  <2>5. s[i].number \in 1 .. n
    OBVIOUS
  <2> QED BY <2>1, <2>4, <2>5
<1> QED BY <1>3

\* Sorting puts every part at the place of its number.
LEMMA SortedIs ==
    ASSUME NEW n \in Nat, NEW s0, \A i \in 1 .. n : s0[i].number = i
    PROVE  Sorted({s0[i] : i \in 1 .. n}) = [i \in 1 .. n |-> s0[i]]
<1> DEFINE parts == {s0[i] : i \in 1 .. n}
           f == [i \in 1 .. n |-> s0[i]]
           s == Sorted(parts)
<1>1. Cardinality(parts) = n
  <2>1. f \in Bijection(1 .. n, parts)
    <3>1. f \in [1 .. n -> parts]
      OBVIOUS
    <3>2. \A i, j \in 1 .. n : f[i] = f[j] => i = j
      OBVIOUS
    <3>3. \A t \in parts : \E i \in 1 .. n : f[i] = t
      OBVIOUS
    <3> HIDE DEF f, parts
    <3> QED BY <3>1, <3>2, <3>3 DEF Bijection, Injection, Surjection, IsInjective
  <2>2. IsFiniteSet(1 .. n) /\ Cardinality(1 .. n) = n
    BY FS_Interval
  <2> HIDE DEF f, parts
  <2> QED BY <2>1, <2>2, FS_Bijection DEF ExistsBijection
<1>2. f \in [1 .. n -> parts] /\ \A i, j \in DOMAIN f : i < j => f[i].number < f[j].number
  OBVIOUS
<1>3. s \in [1 .. n -> parts] /\ \A i, j \in DOMAIN s : i < j => s[i].number < s[j].number
  <2> HIDE DEF f, parts
  <2> QED BY <1>1, <1>2 DEF Sorted
<1> HIDE DEF s
<1>4. \A i \in 1 .. n : \E k \in 1 .. n : s[i] = s0[k] /\ s[i].number = k
  <2> SUFFICES ASSUME NEW i \in 1 .. n PROVE \E k \in 1 .. n : s[i] = s0[k] /\ s[i].number = k
    OBVIOUS
  <2>1. s[i] \in parts
    <3> HIDE DEF parts
    <3> QED BY <1>3
  <2>2. PICK k \in 1 .. n : s[i] = s0[k]
    BY <2>1
  <2> QED BY <2>2
<1>5. \A i \in 1 .. n : s[i].number = i
  <2>1. Rising(s, n) /\ \A i \in 1 .. n : s[i].number \in 1 .. n
    BY <1>3, <1>4 DEF Rising
  <2> QED BY <2>1, NumbersAreReached
<1>6. \A i \in 1 .. n : s[i] = s0[i]
  BY <1>4, <1>5
<1>7. s = f
  <2> HIDE DEF parts
  <2> QED BY <1>3, <1>6
<1> QED BY <1>7 DEF s

\* One piece behind the other is the piece of both.
LEMMA PiecesJoin ==
    ASSUME NEW T, NEW s \in Seq(T), NEW i \in Nat, NEW j \in Nat, i <= j, j <= Len(s)
    PROVE  /\ SubSeq(s, 1, i) \in Seq(T) /\ SubSeq(s, i + 1, j) \in Seq(T)
           /\ Len(SubSeq(s, i + 1, j)) = j - i
           /\ SubSeq(s, 1, i) \o SubSeq(s, i + 1, j) = SubSeq(s, 1, j)
<1> DEFINE a == SubSeq(s, 1, i)
           b == SubSeq(s, i + 1, j)
           c == SubSeq(s, 1, j)
<1>1. a \in Seq(T) /\ Len(a) = i /\ \A k \in 1 .. i : a[k] = s[k]
  OBVIOUS
<1>2. b \in Seq(T) /\ Len(b) = j - i /\ \A k \in 1 .. j - i : b[k] = s[i + k]
  OBVIOUS
<1>3. c \in Seq(T) /\ Len(c) = j /\ \A k \in 1 .. j : c[k] = s[k]
  OBVIOUS
<1> HIDE DEF a, b, c
<1>4. a \o b \in Seq(T) /\ Len(a \o b) = j
  <2>1. a \o b \in Seq(T) /\ Len(a \o b) = Len(a) + Len(b)
    BY <1>1, <1>2, ConcatPieces
  <2> QED BY <1>1, <1>2, <2>1
<1>5. ASSUME NEW k \in 1 .. j PROVE (a \o b)[k] = c[k]
  <2>1. CASE k <= i
    <3>1. k \in 1 .. i
      BY <2>1
    <3>2. (a \o b)[k] = a[k]
      BY <1>1, <1>2, <3>1
    <3> QED BY <1>1, <1>3, <3>1, <3>2
  <2>2. CASE ~(k <= i)
    <3>1. (a \o b)[k] = b[k - i] /\ k - i \in 1 .. j - i /\ i + (k - i) = k
      BY <1>1, <1>2, <2>2
    <3> QED BY <1>2, <1>3, <3>1
  <2> QED BY <2>1, <2>2
<1>6. a \o b = c
  BY <1>3, <1>4, <1>5, SameSequence
<1> QED BY <1>1, <1>2, <1>6 DEF a, b, c

SummedPart == [number : Nat, crc64 : Register, size : Nat]
Combining == INSTANCE Folding WITH Op <- Combined, Values <- Register, Elements <- SummedPart

LEMMA SummedFields ==
    ASSUME NEW a \in Nat, NEW b \in Register, NEW c \in Nat
    PROVE  LET z == [number |-> a, crc64 |-> b, size |-> c]
           IN  z \in SummedPart /\ z.number = a /\ z.crc64 = b /\ z.size = c
BY DEF SummedPart

LEMMA CombiningIsClosed == Combining!IsClosed
<1> SUFFICES ASSUME NEW crc \in Register, NEW part \in SummedPart PROVE Combined(crc, part) \in Register
  BY DEF Combining!IsClosed
<1>1. part.crc64 \in Register /\ part.size \in Nat
  BY DEF SummedPart
<1> DEFINE len == part.size
           crc2 == part.crc64
<1>2. Combined(crc, part) = CombineCRC(crc, crc2, len)
  BY DEF Combined
<1>3. CombineCRC(crc, crc2, len) \in Register
  <2>1. len \in Nat /\ crc2 \in Register /\ ByteBits \in Nat
    BY <1>1, WidthsAre
  <2> HIDE DEF len, crc2
  <2>2. PutZeros(ZeroByte, crc, len) = Steps(ByteBits * len, crc) /\ ByteBits * len \in Nat
    BY <2>1, ZeroByteIs, PutZerosIs
  <2>3. PutZeros(ZeroByte, crc, len) \in Register
    BY <2>2, StepByStep
  <2> QED BY <2>1, <2>3, XorOfRegisters DEF CombineCRC
<1> QED BY <1>2, <1>3

(* The parts of a block: each is behind the one before, and they are all.  *)
InParts(buf, s, n, at) ==
    /\ at[0] = 0 /\ at[n] = Len(buf)
    /\ \A i \in 0 .. n : at[i] \in 0 .. Len(buf)
    /\ \A i \in 1 .. n : /\ at[i - 1] <= at[i]
                         /\ s[i] \in SummedPart
                         /\ s[i].crc64 = Crc(SubSeq(buf, at[i - 1] + 1, at[i]))
                         /\ s[i].size = at[i] - at[i - 1]

LEMMA PartsCombine ==
    ASSUME NEW buf \in Seq(Byte), NEW n \in Nat \ {0}, NEW s \in Seq(SummedPart), Len(s) = n,
           NEW at, InParts(buf, s, n, at)
    PROVE  LocalCrc(s) = Crc(buf)
<1> DEFINE pre(i) == SubSeq(buf, 1, at[i])
           t == Tail(s)
           r == [k \in 0 .. n - 1 |-> Crc(pre(k + 1))]
<1>1. Head(s) = s[1] /\ t \in Seq(SummedPart) /\ Len(t) = n - 1 /\ \A k \in 1 .. n - 1 : t[k] = s[k + 1]
  OBVIOUS
<1>2. \A i \in 0 .. n : at[i] \in Nat /\ at[i] <= Len(buf)
  BY DEF InParts
<1>3. \A i \in 0 .. n : pre(i) \in Seq(Byte)
  BY <1>2
<1>4. r[0] = Head(s).crc64
  <2>1. at[1 - 1] = 0 /\ s[1].crc64 = Crc(SubSeq(buf, at[1 - 1] + 1, at[1]))
    BY DEF InParts
  <2>2. 0 \in 0 .. n - 1 /\ 0 + 1 = 1
    OBVIOUS
  <2> QED BY <1>1, <2>1, <2>2
<1>5. \A k \in 1 .. n - 1 : r[k] = Combined(r[k - 1], t[k])
  <2> SUFFICES ASSUME NEW k \in 1 .. n - 1 PROVE r[k] = Combined(r[k - 1], t[k])
    OBVIOUS
  <2> DEFINE m == k + 1
             b == SubSeq(buf, at[k] + 1, at[m])
  <2>1. m \in 1 .. n /\ m - 1 = k /\ k \in 0 .. n /\ m \in 0 .. n /\ k - 1 \in 0 .. n - 1 /\ k \in 0 .. n - 1 /\ (k - 1) + 1 = k
    OBVIOUS
  <2>2. r[k] = Crc(pre(m)) /\ r[k - 1] = Crc(pre(k)) /\ t[k] = s[m]
    BY <1>1, <2>1
  <2> HIDE DEF m
  <2>3. at[k] <= at[m] /\ s[m].crc64 = Crc(b) /\ s[m].size = at[m] - at[k]
    BY <2>1 DEF InParts
  <2>4. at[k] \in Nat /\ at[m] \in Nat /\ at[m] <= Len(buf)
    BY <1>2, <2>1
  <2>5. b \in Seq(Byte) /\ Len(b) = at[m] - at[k] /\ pre(k) \o b = pre(m) /\ pre(k) \in Seq(Byte)
    <3> DEFINE i == at[k]
               j == at[m]
    <3>1. i \in Nat /\ j \in Nat /\ i <= j /\ j <= Len(buf)
      BY <2>3, <2>4
    <3> HIDE DEF i, j
    <3>2. /\ SubSeq(buf, 1, i) \in Seq(Byte) /\ SubSeq(buf, i + 1, j) \in Seq(Byte)
          /\ Len(SubSeq(buf, i + 1, j)) = j - i
          /\ SubSeq(buf, 1, i) \o SubSeq(buf, i + 1, j) = SubSeq(buf, 1, j)
      BY <3>1, PiecesJoin
    <3> QED BY <3>2 DEF i, j
  <2> HIDE DEF b, pre, r, t
  <2>6. CombineCRC(Crc(pre(k)), Crc(b), Len(b)) = Crc(pre(m))
    BY <2>5, CombineIsOfBoth
  <2> QED BY <2>2, <2>3, <2>5, <2>6 DEF Combined
<1>6. r[n - 1] = Crc(buf)
  <2>1. pre(n) = buf
    <3>1. at[n] = Len(buf)
      BY DEF InParts
    <3> QED BY <3>1
  <2>2. n - 1 \in 0 .. n - 1 /\ (n - 1) + 1 = n
    OBVIOUS
  <2> QED BY <2>1, <2>2
<1>7. Head(s).crc64 \in Register
  <2>1. s[1] \in SummedPart
    OBVIOUS
  <2>2. s[1].crc64 \in Register
    BY <2>1 DEF SummedPart
  <2> QED BY <1>1, <2>2
<1>8. LocalCrc(s) = Combining!Folded(Head(s).crc64, t)
  BY DEF LocalCrc, FoldLeft, MapThenFoldSet, Max,
         Combining!Folded, Combining!MapThenFoldSet, Combining!Greatest
<1> HIDE DEF r, t
<1>9. Combining!Leads(r, Head(s).crc64, t)
  BY <1>1, <1>4, <1>5 DEF Combining!Leads
<1>10. Combining!Folded(Head(s).crc64, t) = r[Len(t)]
  BY <1>1, <1>7, <1>9, CombiningIsClosed, Combining!FoldIs
<1> QED BY <1>1, <1>6, <1>8, <1>10
\* The parts by their numbers, as the upload counts them.
LEMMA PartsByNumber ==
    ASSUME NEW f \in Nat \ {0}, NEW p \in Nat \ {0}
    PROVE  Parts(f, p) = {[number |-> i, offset |-> p * (i - 1),
                           size |-> IF i = PartCount(f, p) THEN f - p * (PartCount(f, p) - 1) ELSE p] :
                              i \in 1 .. PartCount(f, p)}
<1>1. Parts(f, p) = UploadParts(f, p)
  BY PlansAgree DEF Parts
<1> QED BY <1>1 DEF UploadParts

\* Where they end.
LEMMA EndsOfParts ==
    ASSUME NEW f \in Nat \ {0}, NEW p \in Nat \ {0}, NEW n, n = PartCount(f, p), NEW i \in 1 .. n
    PROVE  LET at(k) == IF k = n THEN f ELSE p * k
               size  == IF i = n THEN f - p * (n - 1) ELSE p
           IN  /\ at(i - 1) = p * (i - 1) /\ at(i - 1) \in 0 .. f /\ at(i) \in 0 .. f
               /\ at(i - 1) <= at(i) /\ size = at(i) - at(i - 1) /\ size \in Nat /\ p * (i - 1) + size = at(i)
<1>1. n \in Nat \ {0} /\ i \in Nat \ {0} /\ i <= n /\ i - 1 # n
  BY LastPart, 1 \in Nat \ {0}
<1>2. /\ p * (i - 1) < f
      /\ i < n => p * (i - 1) + p <= f - 1
  BY <1>1, LastPart
<1>3. p * (i - 1) \in Nat /\ p * i = p * (i - 1) + p
  BY <1>1, Z3
<1> DEFINE o == p * (i - 1)
<1>4. o \in Nat /\ p * i = o + p /\ o < f /\ (i < n => o + p <= f - 1)
  BY <1>2, <1>3
<1>5. i = n => p * (n - 1) = o
  OBVIOUS
<1> HIDE DEF o
<1>6. CASE i = n
  <2>1. f - p * (n - 1) = f - o
    BY <1>5, <1>6
  <2> QED BY <1>1, <1>4, <1>6, <2>1 DEF o
<1>7. CASE i # n
  <2>1. i < n
    BY <1>1, <1>7
  <2>2. o + p \in 0 .. f /\ (o + p) - o = p
    BY <1>1, <1>4, <2>1
  <2> QED BY <1>1, <1>4, <1>7, <2>2 DEF o
<1> QED BY <1>6, <1>7

\* Cut, placed and ordered in whatever way, a part has one checksum.
LEMMA PartCrcsAre ==
    ASSUME NEW part, Block(part) \in Seq(Byte)
    PROVE  PartCrcs(part) = {Crc(Block(part))}
<1> DEFINE buf == Block(part)
           One(cut, address, little) ==
               CalcCRC(CalcCRC({}, SubSeq(buf, 1, cut), 0, little), SubSeq(buf, cut + 1, Len(buf)), address, little)
           All == {One(cut, address, little) : cut \in 0 .. Len(buf), address \in 0 .. WordBytes - 1, little \in BOOLEAN}
<1>1. PartCrcs(part) = All
  BY DEF PartCrcs
<1> HIDE DEF buf
<1>2. buf \in Seq(Byte)
  BY DEF buf
<1>3. \A cut \in 0 .. Len(buf), address \in 0 .. WordBytes - 1, little \in BOOLEAN : One(cut, address, little) = Crc(buf)
  BY <1>2, CalcIsOfBits
<1> HIDE DEF One
<1>4. All \subseteq {Crc(buf)}
  BY <1>3
<1>5. \E little \in BOOLEAN : One(0, 0, little) \in All
  <2>1. 0 \in 0 .. Len(buf) /\ 0 \in 0 .. WordBytes - 1
    BY <1>2, WidthsAre
  <2>2. ASSUME NEW little \in BOOLEAN PROVE One(0, 0, little) \in All
    BY <2>1
  <2> HIDE DEF All
  <2>3. TRUE \in BOOLEAN
    OBVIOUS
  <2> QED BY <2>2, <2>3, Zenon
<1> HIDE DEF All
<1>6. All = {Crc(buf)}
  BY <1>4, <1>5
<1> QED BY <1>1, <1>6 DEF buf

LEMMA FileFromParts ==
    ASSUME NEW f \in Nat \ {0}, NEW p \in Nat \ {0}, f = fileSize, Content(f) \in [1 .. f -> Byte]
    PROVE  /\ \A part \in Parts(f, p) : PartCrcs(part) = {Crc(Block(part))}
           /\ LocalCrc(Sorted({Transferred(part) : part \in Parts(f, p)})) = Crc(Content(f))
<1> DEFINE n == PartCount(f, p)
           buf == Content(f)
           size(i) == IF i = n THEN f - p * (n - 1) ELSE p
           part(i) == [number |-> i, offset |-> p * (i - 1), size |-> size(i)]
           at == [k \in 0 .. n |-> IF k = n THEN f ELSE p * k]
           s == [i \in 1 .. n |-> Transferred(part(i))]
<1>1. buf \in Seq(Byte) /\ Len(buf) = f
  OBVIOUS
<1>2. n \in Nat \ {0}
  BY LastPart, 1 \in Nat \ {0}
<1>3. Parts(f, p) = {part(i) : i \in 1 .. n}
  BY PartsByNumber
<1> HIDE DEF n
<1>4. ASSUME NEW i \in 1 .. n
      PROVE  /\ at[i - 1] = p * (i - 1) /\ at[i - 1] \in 0 .. f /\ at[i] \in 0 .. f
             /\ at[i - 1] <= at[i] /\ size(i) = at[i] - at[i - 1] /\ size(i) \in Nat /\ p * (i - 1) + size(i) = at[i]
  <2>1. i \in 0 .. n /\ i - 1 \in 0 .. n
    BY <1>2
  <2>2. at[i] = (IF i = n THEN f ELSE p * i) /\ at[i - 1] = (IF i - 1 = n THEN f ELSE p * (i - 1))
    BY <2>1
  <2> HIDE DEF at
  <2> QED BY <2>2, EndsOfParts DEF n
<1> HIDE DEF size, at
<1>5. ASSUME NEW i \in 1 .. n
      PROVE  /\ Block(part(i)) = SubSeq(buf, at[i - 1] + 1, at[i]) /\ Block(part(i)) \in Seq(Byte)
             /\ PartCrcs(part(i)) = {Crc(Block(part(i)))}
  <2>1. Block(part(i)) = SubSeq(buf, p * (i - 1) + 1, p * (i - 1) + size(i))
    BY DEF Block
  <2>2. at[i - 1] \in Nat /\ at[i] \in Nat /\ at[i] <= Len(buf)
    BY <1>1, <1>4
  <2> HIDE DEF part, buf
  <2>3. Block(part(i)) = SubSeq(buf, at[i - 1] + 1, at[i])
    BY <1>4, <2>1
  <2>4. Block(part(i)) \in Seq(Byte)
    BY <1>1, <2>2, <2>3
  <2> QED BY <2>3, <2>4, PartCrcsAre
<1>6. ASSUME NEW i \in 1 .. n
      PROVE  /\ s[i].number = i /\ s[i].size = size(i) /\ s[i].crc64 = Crc(SubSeq(buf, at[i - 1] + 1, at[i]))
             /\ s[i] \in SummedPart
  <2>1. s[i] = [number |-> i, crc64 |-> CHOOSE c \in PartCrcs(part(i)) : TRUE, size |-> size(i)]
    BY DEF Transferred
  <2>2. (CHOOSE c \in PartCrcs(part(i)) : TRUE) = Crc(Block(part(i)))
    BY <1>5
  <2>3. Crc(Block(part(i))) \in Register
    BY <1>5, CrcIs
  <2>4. i \in Nat /\ size(i) \in Nat
    BY <1>4
  <2> HIDE DEF s, part
  <2>5. s[i] = [number |-> i, crc64 |-> Crc(Block(part(i))), size |-> size(i)]
    BY <2>1, <2>2
  <2>6. Block(part(i)) = SubSeq(buf, at[i - 1] + 1, at[i])
    BY <1>5
  <2> DEFINE c == size(i)
             b == Crc(Block(part(i)))
  <2>7. s[i] = [number |-> i, crc64 |-> b, size |-> c] /\ b \in Register /\ c \in Nat
    BY <2>3, <2>4, <2>5
  <2>8. b = Crc(SubSeq(buf, at[i - 1] + 1, at[i])) /\ c = size(i)
    BY <2>6
  <2> HIDE DEF buf, b, c
  <2>9. /\ [number |-> i, crc64 |-> b, size |-> c].number = i
        /\ [number |-> i, crc64 |-> b, size |-> c].size = c
        /\ [number |-> i, crc64 |-> b, size |-> c].crc64 = b
        /\ [number |-> i, crc64 |-> b, size |-> c] \in SummedPart
    BY <2>4, <2>7, SummedFields
  <2> QED BY <2>7, <2>8, <2>9
<1>7. {Transferred(x) : x \in Parts(f, p)} = {s[i] : i \in 1 .. n}
  <2> HIDE DEF part
  <2> QED BY <1>3
<1> HIDE DEF s, part
<1>8. Sorted({s[i] : i \in 1 .. n}) = s
  <2>1. Sorted({s[i] : i \in 1 .. n}) = [i \in 1 .. n |-> s[i]]
    <3>1. n \in Nat /\ \A i \in 1 .. n : s[i].number = i
      BY <1>2, <1>6
    <3> QED BY <3>1, SortedIs
  <2>2. [i \in 1 .. n |-> s[i]] = s
    BY DEF s
  <2> QED BY <2>1, <2>2
<1>9. s \in Seq(SummedPart) /\ Len(s) = n
  <2>1. s \in [1 .. n -> SummedPart]
    <3>1. DOMAIN s = 1 .. n /\ s = [i \in 1 .. n |-> s[i]]
      BY DEF s
    <3> QED BY <1>6, <3>1
  <2> QED BY <1>2, <2>1
<1>10. InParts(buf, s, n, at)
  <2>1. at[0] = 0 /\ at[n] = f
    <3>1. 0 \in 0 .. n /\ n \in 0 .. n /\ 0 # n
      BY <1>2
    <3>2. p * 0 = 0
      OBVIOUS
    <3> QED BY <3>1, <3>2 DEF at
  <2>2. \A i \in 0 .. n : at[i] \in 0 .. Len(buf)
    <3> SUFFICES ASSUME NEW i \in 0 .. n PROVE at[i] \in 0 .. Len(buf)
      OBVIOUS
    <3> HIDE DEF buf
    <3>1. CASE i = 0
      BY <1>1, <2>1, <3>1
    <3>2. CASE i # 0
      <4>1. i \in 1 .. n
        BY <1>2, <3>2
      <4> QED BY <1>1, <1>4, <4>1
    <3> QED BY <3>1, <3>2
  <2> HIDE DEF buf
  <2> QED BY <1>1, <1>4, <1>6, <2>1, <2>2 DEF InParts
<1>11. LocalCrc(s) = Crc(buf)
  <2> HIDE DEF buf
  <2> QED BY <1>1, <1>2, <1>9, <1>10, PartsCombine
<1>12. \A x \in Parts(f, p) : PartCrcs(x) = {Crc(Block(x))}
  BY <1>3, <1>5
<1> QED BY <1>7, <1>8, <1>11, <1>12

(* A call is about a file.                                                 *)
FileIsThere == phase # "idle" => fileSize \in FileSizes

\* However it is cut, the checksum computed from the parts, earlier ones too, is that of the file (ResumableUploader.cc,
\* ResumableDownloader.cc).
THEOREM FileChecksumIsOfFile == Spec => []CombinedCrcIsOfFile
<1>1. Init => FileIsThere
  BY DEF Init, FileIsThere
<1>2. FileIsThere /\ [Next]_vars => FileIsThere'
  BY DEF FileIsThere, Next, vars, Begin, Double, Prepare, GetParts, Transfer, End
<1>3. Inv /\ FileIsThere => CombinedCrcIsOfFile
  <2> SUFFICES ASSUME Inv, FileIsThere, phase = "transfer", upload \/ ~stale, partsToDo = {}
               PROVE  /\ \A part \in done : PartCrcs(part) = {Crc(Block(part))}
                      /\ LocalCrc(Sorted({Transferred(part) : part \in done})) = Crc(Content(fileSize))
    BY DEF CombinedCrcIsOfFile
  <2>1. done = Parts(fileSize, partSize) /\ fileSize \in Nat \ {0} /\ partSize \in Nat \ {0}
    BY DEF Inv, NotMixed, PartsBelong, TypeOK, SizesFit
  <2>2. Content(fileSize) \in [1 .. fileSize -> Byte]
    BY ContentAssumption DEF FileIsThere
  <2> QED BY <2>1, <2>2, FileFromParts
<1> QED BY <1>1, <1>2, <1>3, AlwaysInv, PTL DEF Spec
=============================================================================
