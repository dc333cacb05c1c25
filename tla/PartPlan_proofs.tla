--------------------------- MODULE PartPlan_proofs ---------------------------
(***************************************************************************)
(* Proofs about PartPlan for every size of the file and of its parts and   *)
(* every limit: the parts that are done and those to do are the bytes of   *)
(* the file, and the part size is the least doubling that keeps the limit. *)
(***************************************************************************)
EXTENDS PartPlan, TLAPS

-----------------------------------------------------------------------------
(* Division and products.                                                  *)

LEMMA Division ==
    ASSUME NEW a \in Nat, NEW p \in Nat \ {0}
    PROVE  /\ a \div p \in Nat
           /\ p * (a \div p) <= a
           /\ a < p * (a \div p) + p
BY Z3

LEMMA Products ==
    ASSUME NEW p \in Nat \ {0}, NEW m \in Int, NEW n \in Int, m < n
    PROVE  p * m + p <= p * n
BY Z3

\* The loop of the download ends where the count of the upload does.
LEMMA LastPart ==
    ASSUME NEW f \in Nat \ {0}, NEW p \in Nat \ {0}, NEW n \in Nat \ {0}
    PROVE  /\ PartCount(f, p) \in Nat \ {0} /\ PartCount(f, p) <= f
           /\ n <= PartCount(f, p) <=> p * (n - 1) < f
           /\ n = PartCount(f, p) => p * (n - 1) + p > f - 1
           /\ n < PartCount(f, p) => p * (n - 1) + p <= f - 1
<1> DEFINE q == (f - 1) \div p
<1>1. q \in Nat /\ p * q <= f - 1 /\ f - 1 < p * q + p
  BY Division
<1>2. PartCount(f, p) = q + 1
  BY DEF PartCount
<1> HIDE DEF q
<1>3. q <= f - 1
  BY <1>1, Z3
<1>4. ASSUME n <= q + 1 PROVE p * (n - 1) < f
  <2>1. CASE n = q + 1 BY <2>1, <1>1
  <2>2. CASE n < q + 1
    BY <2>2, <1>1, Products, n - 1 < q, n - 1 \in Int, q \in Int
  <2> QED BY <2>1, <2>2, <1>1, <1>4
<1>5. ASSUME ~(n <= q + 1) PROVE ~(p * (n - 1) < f)
  <2>1. q < n - 1 /\ n - 1 \in Int /\ q \in Int BY <1>5, <1>1
  <2>2. p * q + p <= p * (n - 1) BY <2>1, Products
  <2>3. p * q \in Int /\ p * (n - 1) \in Int BY <2>1
  <2> QED BY <2>2, <2>3, <1>1
<1>6. ASSUME n < q + 1 PROVE p * (n - 1) + p <= f - 1
  <2>1. n - 1 < q /\ n - 1 \in Int /\ q \in Int BY <1>6, <1>1
  <2>2. p * (n - 1) + p <= p * q BY <2>1, Products
  <2>3. p * q \in Int /\ p * (n - 1) \in Int BY <2>1
  <2> QED BY <2>2, <2>3, <1>1
<1>7. ASSUME n = q + 1 PROVE p * (n - 1) + p > f - 1
  BY <1>7, <1>1
<1> QED BY <1>1, <1>2, <1>3, <1>4, <1>5, <1>6, <1>7

-----------------------------------------------------------------------------
(* The parts of a file.                                                    *)

\* An upload and a download cut a file into the same parts.
THEOREM PlansAgree ==
    ASSUME NEW f \in Nat \ {0}, NEW p \in Nat \ {0}
    PROVE  UploadParts(f, p) = DownloadParts(f, p)
<1> DEFINE c == PartCount(f, p)
           up(n) == IF n = c THEN f - p * (c - 1) ELSE p
           down(n) == IF p * (n - 1) + p > f - 1 THEN f - p * (n - 1) ELSE p
<1>1. c \in Nat \ {0} /\ c <= f
  BY LastPart, 1 \in Nat \ {0}
<1>2. 1 .. c = {m \in 1 .. f : p * (m - 1) < f}
  <2>1. ASSUME NEW m \in 1 .. f PROVE m \in 1 .. c <=> p * (m - 1) < f
    <3>1. m \in Nat \ {0} OBVIOUS
    <3>2. m <= c <=> p * (m - 1) < f BY <3>1, LastPart
    <3> HIDE DEF c
    <3> QED BY <3>1, <3>2, <1>1
  <2> HIDE DEF c
  <2>2. 1 .. c \subseteq 1 .. f BY <1>1
  <2> QED BY <2>1, <2>2
<1>3. ASSUME NEW n \in 1 .. c PROVE up(n) = down(n)
  <2>1. n \in Nat \ {0} /\ n <= c BY <1>1
  <2>2. /\ n = c => p * (n - 1) + p > f - 1
        /\ n < c => p * (n - 1) + p <= f - 1
    BY <2>1, LastPart
  <2> HIDE DEF c
  <2>3. CASE n = c BY <2>2, <2>3
  <2>4. CASE n # c
    <3>1. n < c BY <2>1, <2>4, <1>1
    <3>2. p * (n - 1) + p <= f - 1 BY <3>1, <2>2
    <3>3. ~(p * (n - 1) + p > f - 1) BY <3>2, <2>1
    <3> QED BY <3>3, <2>4
  <2> QED BY <2>3, <2>4
<1>4. UploadParts(f, p) = {[number |-> n, offset |-> p * (n - 1), size |-> up(n)] : n \in 1 .. c}
  BY DEF UploadParts
<1>5. DownloadParts(f, p) = {[number |-> n, offset |-> p * (n - 1), size |-> down(n)] : n \in 1 .. c}
  BY <1>2 DEF DownloadParts
<1> HIDE DEF up, down, c
<1> QED BY <1>3, <1>4, <1>5

\* A part begins where its number says and is as long as asked for, or as what is left.
LEMMA PartOfFile ==
    ASSUME NEW f \in Nat \ {0}, NEW p \in Nat \ {0}, NEW part \in Parts(f, p)
    PROVE  /\ part \in PartRecord
           /\ part.number \in Nat \ {0} /\ part.offset = p * (part.number - 1)
           /\ part.size > 0 /\ part.size <= p
           /\ part.offset + part.size <= f
           /\ part.offset + part.size < f => part.size = p
           /\ \A other \in Parts(f, p) : part.number = other.number => part = other
<1> DEFINE down(n) == IF p * (n - 1) + p > f - 1 THEN f - p * (n - 1) ELSE p
           rec(n) == [number |-> n, offset |-> p * (n - 1), size |-> down(n)]
<1>1. Parts(f, p) = {rec(n) : n \in {m \in 1 .. f : p * (m - 1) < f}}
  BY PlansAgree DEF Parts, DownloadParts
<1>2. PICK n \in {m \in 1 .. f : p * (m - 1) < f} : part = rec(n)
  BY <1>1
<1>3. n \in Nat \ {0} /\ n - 1 \in Nat /\ p * (n - 1) < f
  BY <1>2
<1>4. p * (n - 1) \in Nat
  BY <1>3, Z3
<1>5. /\ down(n) \in Nat \ {0} /\ down(n) <= p /\ p * (n - 1) + down(n) <= f
      /\ p * (n - 1) + down(n) < f => down(n) = p
  <2> DEFINE o == p * (n - 1)
  <2>1. o \in Nat /\ o < f BY <1>3, <1>4
  <2>2. down(n) = IF o + p > f - 1 THEN f - o ELSE p OBVIOUS
  <2> HIDE DEF o, down
  <2>3. down(n) \in Nat \ {0} /\ down(n) <= p /\ o + down(n) <= f /\ (o + down(n) < f => down(n) = p)
    BY <2>1, <2>2
  <2> QED BY <2>3 DEF o
<1>6. ASSUME NEW other \in Parts(f, p), part.number = other.number PROVE part = other
  <2>1. PICK k \in {m \in 1 .. f : p * (m - 1) < f} : other = rec(k)
    BY <1>1
  <2>2. k = n BY <2>1, <1>2, <1>6
  <2> QED BY <2>1, <2>2, <1>2
<1>7. part.number = n /\ part.offset = p * (n - 1) /\ part.size = down(n)
  BY <1>2
<1> HIDE DEF down
<1>8. part \in PartRecord
  BY <1>2, <1>3, <1>4, <1>5 DEF PartRecord
<1> HIDE DEF rec
<1> QED BY <1>3, <1>5, <1>6, <1>7, <1>8

\* Two parts have no byte in common.
LEMMA PartsAreDisjoint ==
    ASSUME NEW f \in Nat \ {0}, NEW p \in Nat \ {0}, NEW part \in Parts(f, p), NEW other \in Parts(f, p),
           NEW b \in Bytes(part), b \in Bytes(other)
    PROVE  part = other
<1> DEFINE m == part.number
           n == other.number
<1>1. /\ m \in Nat \ {0} /\ part.offset = p * (m - 1) /\ part.size \in Nat /\ part.size <= p
      /\ n \in Nat \ {0} /\ other.offset = p * (n - 1) /\ other.size \in Nat /\ other.size <= p
  BY PartOfFile DEF PartRecord
<1>2. /\ b \in Int /\ p * (m - 1) <= b /\ b < p * (m - 1) + p
      /\ p * (n - 1) <= b /\ b < p * (n - 1) + p
  <2>1. p * (m - 1) \in Int /\ p * (n - 1) \in Int BY <1>1
  <2>2. b \in part.offset .. part.offset + part.size - 1 /\ b \in other.offset .. other.offset + other.size - 1
    BY DEF Bytes
  <2> HIDE DEF m, n
  <2> QED BY <1>1, <2>1, <2>2
<1> HIDE DEF m, n
<1>3. ~(m - 1 < n - 1)
  BY <1>1, <1>2, Products, m - 1 \in Int, n - 1 \in Int, p * (m - 1) \in Int, p * (n - 1) \in Int
<1>4. ~(n - 1 < m - 1)
  BY <1>1, <1>2, Products, m - 1 \in Int, n - 1 \in Int, p * (m - 1) \in Int, p * (n - 1) \in Int
<1>5. m = n
  BY <1>1, <1>3, <1>4
<1> QED BY <1>5, PartOfFile DEF m, n

\* Every byte is in a part.
LEMMA PartsCover ==
    ASSUME NEW f \in Nat \ {0}, NEW p \in Nat \ {0}, NEW b \in 0 .. f - 1
    PROVE  \E part \in Parts(f, p) : b \in Bytes(part)
<1> DEFINE n == (b \div p) + 1
           size == IF p * (n - 1) + p > f - 1 THEN f - p * (n - 1) ELSE p
           part == [number |-> n, offset |-> p * (n - 1), size |-> size]
<1>1. b \in Nat /\ n \in Nat \ {0} /\ n - 1 \in Nat /\ p * (n - 1) <= b /\ b < p * (n - 1) + p
  <2>1. b \in Nat OBVIOUS
  <2>2. b \div p \in Nat /\ p * (b \div p) <= b /\ b < p * (b \div p) + p BY <2>1, Division
  <2>3. n - 1 = b \div p /\ n \in Nat \ {0} BY <2>2
  <2> HIDE DEF n
  <2> QED BY <2>1, <2>2, <2>3
<1> HIDE DEF n
<1>2. p * (n - 1) \in Nat
  BY <1>1, Z3
<1>3. n <= f
  <2>1. n - 1 <= p * (n - 1) BY <1>1, Z3
  <2> QED BY <2>1, <1>1, <1>2
<1>4. n \in {m \in 1 .. f : p * (m - 1) < f}
  BY <1>1, <1>2, <1>3
<1>5. part \in DownloadParts(f, p)
  BY <1>4 DEF DownloadParts
<1>6. part \in Parts(f, p)
  BY <1>5, PlansAgree DEF Parts
<1>7. b \in p * (n - 1) .. p * (n - 1) + size - 1
  <2> DEFINE o == p * (n - 1)
  <2>1. o \in Nat /\ o <= b /\ b < o + p BY <1>1, <1>2
  <2>2. size = IF o + p > f - 1 THEN f - o ELSE p OBVIOUS
  <2> HIDE DEF o, size
  <2>3. CASE o + p > f - 1 BY <2>1, <2>2, <2>3 DEF o
  <2>4. CASE ~(o + p > f - 1) BY <2>1, <2>2, <2>4 DEF o
  <2> QED BY <2>3, <2>4
<1>8. b \in Bytes(part)
  <2>1. part.offset = p * (n - 1) /\ part.size = size OBVIOUS
  <2> HIDE DEF part, size
  <2> QED BY <1>7, <2>1 DEF Bytes
<1> QED BY <1>6, <1>8

-----------------------------------------------------------------------------
(* The inductive invariant.                                                *)

(* A record is that of a plan that keeps the limit.                        *)
RecordIsPlanned ==
    record # NoRecord => /\ record.size # 0 /\ record.partSize # 0
                         /\ ~TooManyParts(record.size, record.partSize)

(* Sizes during a call, and that the last doubling was necessary.          *)
SizesFit ==
    phase # "idle" =>
        /\ fileSize # 0 /\ partSize # 0 /\ asked # 0
        /\ phase # "determine" => ~TooManyParts(fileSize, partSize)
        /\ partSize > asked => TooManyParts(fileSize, partSize \div 2)

(* Unless a rejected record is mixed in, the parts of a record belong to   *)
(* the plan it was written with, and those of a call to the call's plan.   *)
PartsBelong ==
    ~stale => /\ record # NoRecord => record.parts \subseteq Parts(record.size, record.partSize)
              /\ phase = "determine" => done = {}
              /\ phase \in {"plan", "transfer"} => done \subseteq Parts(fileSize, partSize)
              /\ phase = "transfer" => done \cup partsToDo = Parts(fileSize, partSize)

ToDoBelong == phase = "transfer" => partsToDo \subseteq Parts(fileSize, partSize)

(* An upload has parts of a rejected record only until prepare() has cleared them, and no record file then.  *)
NotMixed == upload /\ stale => phase \in {"idle", "determine"} /\ record = NoRecord

Inv == TypeOK /\ RecordIsPlanned /\ SizesFit /\ PartsBelong /\ ToDoBelong /\ NotMixed

USE DEF Phases

LEMMA NoRecordType == NoRecord \in Records
BY DEF NoRecord, Records, PartRecord

LEMMA Initially == Init => Inv
<1> SUFFICES ASSUME Init PROVE Inv
  OBVIOUS
<1> USE DEF Init
<1>1. TypeOK BY NoRecordType DEF TypeOK
<1>2. RecordIsPlanned /\ SizesFit /\ PartsBelong /\ ToDoBelong /\ NotMixed
  BY DEF RecordIsPlanned, SizesFit, PartsBelong, ToDoBelong, NotMixed
<1> QED BY <1>1, <1>2 DEF Inv

LEMMA BeginKeepsInv ==
    ASSUME Inv, NEW f \in FileSizes, NEW p \in PartSizes, NEW touched \in BOOLEAN, Begin(f, p, touched)
    PROVE  Inv'
<1> USE DEF Begin, Inv
<1>1. f \in Nat \ {0} /\ p \in Nat \ {0}
  BY SizesAssumption, LimitsAssumption DEF IsResumable
<1>2. partSize' \in Nat \ {0}
  BY <1>1 DEF LoadedPartSize, TypeOK, Records, RecordIsPlanned
<1>3. record'\in Records /\ record'.parts \subseteq PartRecord /\ record.parts \subseteq PartRecord
  BY NoRecordType DEF TypeOK, Records
<1>4. TypeOK'
  <2>1. /\ upload' \in BOOLEAN /\ stale' \in BOOLEAN
        /\ fileSize' \in Nat /\ asked' \in Nat /\ partSize' \in Nat
    BY <1>1, <1>2 DEF TypeOK
  <2>2. done' \subseteq PartRecord /\ partsToDo' \subseteq PartRecord /\ phase' \in Phases
    BY <1>3
  <2> QED BY <1>3, <2>1, <2>2 DEF TypeOK
<1>5. RecordIsPlanned'
  BY DEF RecordIsPlanned, TooManyParts, PartCount
<1>6. CASE record # NoRecord /\ record.size = f /\ ~touched
  <2>1. partSize' = record.partSize /\ fileSize' = record.size /\ done' = record.parts /\ phase' = "plan"
    BY <1>6 DEF LoadedPartSize
  <2>2. SizesFit'
    BY <1>1, <1>2, <1>6, <2>1 DEF SizesFit, RecordIsPlanned, TooManyParts, PartCount
  <2>3. PartsBelong'
    <3>1. CASE ~stale
      <4>1. record.parts \subseteq Parts(record.size, record.partSize)
        BY <3>1, <1>6 DEF PartsBelong
      <4>2. record' = record /\ Parts(record.size, record.partSize)' = Parts(record.size, record.partSize)
        BY <1>6 DEF Parts, UploadParts, DownloadParts, PartCount
      <4>3. Parts(fileSize, partSize)' = Parts(record.size, record.partSize)
        BY <2>1 DEF Parts, UploadParts, DownloadParts, PartCount
      <4> QED BY <4>1, <4>2, <4>3, <2>1 DEF PartsBelong
    <3>2. CASE stale
      <4> SUFFICES ASSUME ~stale' PROVE PartsBelong'
        BY DEF PartsBelong
      <4>1. done' = {} BY <3>2, <1>6
      <4> QED BY <4>1, <2>1, <1>6 DEF PartsBelong
    <3> QED BY <3>1, <3>2
  <2>4. NotMixed' BY <1>6 DEF NotMixed
  <2> QED BY <1>4, <1>5, <2>1, <2>2, <2>3, <2>4 DEF ToDoBelong
<1>7. CASE ~(record # NoRecord /\ record.size = f /\ ~touched)
  <2>1. phase' = "determine" /\ record' = NoRecord /\ stale' = (done' # {})
    BY <1>7
  <2>2. SizesFit'
    BY <1>1, <1>2, <2>1 DEF SizesFit
  <2>3. NotMixed' BY <2>1 DEF NotMixed
  <2> QED BY <1>4, <1>5, <2>1, <2>2, <2>3 DEF PartsBelong, ToDoBelong
<1> QED BY <1>6, <1>7

LEMMA DoubleKeepsInv ==
    ASSUME Inv, Double
    PROVE  Inv'
<1> USE DEF Double, Inv
<1>1. partSize \in Nat \ {0} /\ asked \in Nat \ {0} /\ phase = "determine" /\ phase' = "determine"
  BY DEF TypeOK, SizesFit
<1>2. partSize' = partSize * 2 /\ partSize' \in Nat \ {0} /\ partSize' \div 2 = partSize
  BY <1>1, Z3
<1>3. TypeOK' BY <1>2 DEF TypeOK
<1>4. RecordIsPlanned' BY DEF RecordIsPlanned, TooManyParts, PartCount
<1>5. SizesFit'
  <2>1. TooManyParts(fileSize', partSize' \div 2) BY <1>2
  <2>2. fileSize' # 0 /\ partSize' # 0 /\ asked' # 0 BY <1>1, <1>2 DEF SizesFit
  <2>3. TooManyParts(fileSize, partSize \div 2)' BY <2>1 DEF TooManyParts, PartCount
  <2> QED BY <2>2, <2>3, <1>1 DEF SizesFit
<1>6. PartsBelong' /\ ToDoBelong'
  BY <1>1 DEF PartsBelong, ToDoBelong, Parts, UploadParts, DownloadParts, PartCount
<1>7. NotMixed' BY <1>1 DEF NotMixed
<1> QED BY <1>3, <1>4, <1>5, <1>6, <1>7

\* The last four parts of the invariant say of a new record what they say of the call.
LEMMA RecordOfCall ==
    ASSUME NEW f \in Nat, NEW p \in Nat, NEW parts \in SUBSET PartRecord
    PROVE  /\ [size |-> f, partSize |-> p, parts |-> parts] \in Records
           /\ [size |-> f, partSize |-> p, parts |-> parts].size = f
           /\ [size |-> f, partSize |-> p, parts |-> parts].partSize = p
           /\ [size |-> f, partSize |-> p, parts |-> parts].parts = parts
BY DEF Records

LEMMA PrepareKeepsInv ==
    ASSUME Inv, Prepare
    PROVE  Inv'
<1> USE DEF Prepare, NewRecord, Inv
<1> DEFINE new == [size |-> fileSize, partSize |-> partSize, parts |-> {}]
<1>1. new \in Records /\ new.size = fileSize /\ new.partSize = partSize /\ new.parts = {}
  BY RecordOfCall DEF TypeOK
<1>2. record' = record \/ record' = new
  OBVIOUS
<1> HIDE DEF new
<1>3. TypeOK'
  <2>1. done' \subseteq PartRecord /\ stale' \in BOOLEAN BY DEF TypeOK
  <2> QED BY <1>1, <1>2, <2>1 DEF TypeOK
<1>4. SizesFit' BY DEF SizesFit, TooManyParts, PartCount
<1>5. RecordIsPlanned'
  <2>1. CASE record' = record BY <2>1 DEF RecordIsPlanned, TooManyParts, PartCount
  <2>2. CASE record' = new BY <2>2, <1>1 DEF RecordIsPlanned, SizesFit, TooManyParts, PartCount
  <2> QED BY <1>2, <2>1, <2>2
<1>6. PartsBelong'
  <2> SUFFICES ASSUME ~stale' PROVE PartsBelong'
    BY DEF PartsBelong
  <2>1. phase' = "plan" /\ done' = {}
    BY DEF PartsBelong
  <2>2. record # NoRecord => record.parts \subseteq Parts(record.size, record.partSize)
    BY DEF PartsBelong, NotMixed
  <2>3. record' # NoRecord => record'.parts \subseteq Parts(record'.size, record'.partSize)
    BY <1>1, <1>2, <2>2
  <2>4. Parts(record.size, record.partSize)' = Parts(record'.size, record'.partSize)
    BY DEF Parts, UploadParts, DownloadParts, PartCount
  <2> QED BY <2>1, <2>3, <2>4 DEF PartsBelong
<1>7. ToDoBelong' /\ NotMixed' BY DEF ToDoBelong, NotMixed
<1> QED BY <1>3, <1>4, <1>5, <1>6, <1>7

LEMMA GetPartsKeepsInv ==
    ASSUME Inv, GetParts
    PROVE  Inv'
<1> USE DEF GetParts, Inv
<1>1. fileSize \in Nat \ {0} /\ partSize \in Nat \ {0}
  BY DEF TypeOK, SizesFit
<1>2. Parts(fileSize, partSize) \subseteq PartRecord
  BY <1>1, PartOfFile
<1>3. UNCHANGED <<upload, fileSize, partSize>> /\ partsToDo' \subseteq Parts(fileSize, partSize)
  OBVIOUS
<1>4. Parts(fileSize, partSize)' = Parts(fileSize, partSize)
  BY <1>3 DEF Parts, UploadParts, DownloadParts, PartCount
<1>5. TypeOK' BY <1>2, <1>3 DEF TypeOK
<1>6. RecordIsPlanned' BY DEF RecordIsPlanned, TooManyParts, PartCount
<1>7. SizesFit' BY DEF SizesFit, TooManyParts, PartCount
<1>8. ToDoBelong' BY <1>3, <1>4 DEF ToDoBelong
<1>9. PartsBelong'
  <2> SUFFICES ASSUME ~stale PROVE PartsBelong'
    BY DEF PartsBelong
  <2>1. done \subseteq Parts(fileSize, partSize) BY DEF PartsBelong
  <2>2. \A part \in Parts(fileSize, partSize) : part.number \in Numbers(done) => part \in done
    <3> SUFFICES ASSUME NEW part \in Parts(fileSize, partSize), part.number \in Numbers(done) PROVE part \in done
      OBVIOUS
    <3>1. PICK other \in done : other.number = part.number BY DEF Numbers
    <3> QED BY <3>1, <2>1, <1>1, PartOfFile
  <2>3. done \cup partsToDo' = Parts(fileSize, partSize) BY <2>1, <2>2
  <2>4. Parts(record.size, record.partSize)' = Parts(record.size, record.partSize)
    BY DEF Parts, UploadParts, DownloadParts, PartCount
  <2> QED BY <2>1, <2>3, <2>4, <1>4 DEF PartsBelong
<1>10. NotMixed' BY DEF NotMixed
<1> QED BY <1>5, <1>6, <1>7, <1>8, <1>9, <1>10

LEMMA TransferKeepsInv ==
    ASSUME Inv, NEW part \in partsToDo, Transfer(part)
    PROVE  Inv'
<1> USE DEF Transfer, Inv
<1> DEFINE new == [size |-> fileSize, partSize |-> partSize, parts |-> done']
<1>1. done' \subseteq PartRecord /\ partsToDo' \subseteq PartRecord /\ done' \cup partsToDo' = done \cup partsToDo
  BY DEF TypeOK
<1>2. new \in Records /\ new.size = fileSize /\ new.partSize = partSize /\ new.parts = done'
  BY <1>1, RecordOfCall DEF TypeOK
<1>3. record' = record \/ record' = new
  OBVIOUS
<1> HIDE DEF new
<1>4. /\ Parts(fileSize, partSize)' = Parts(fileSize, partSize)
      /\ phase = "transfer" /\ phase' = "transfer" /\ partsToDo' \subseteq partsToDo
      /\ UNCHANGED <<upload, fileSize, partSize, stale>>
  BY DEF Parts, UploadParts, DownloadParts, PartCount
<1>5. TypeOK' BY <1>1, <1>2, <1>3 DEF TypeOK
<1>6. SizesFit' BY DEF SizesFit, TooManyParts, PartCount
<1>7. RecordIsPlanned'
  <2>1. CASE record' = record BY <2>1 DEF RecordIsPlanned, TooManyParts, PartCount
  <2>2. CASE record' = new BY <2>2, <1>2, <1>4 DEF RecordIsPlanned, SizesFit, TooManyParts, PartCount
  <2> QED BY <1>3, <2>1, <2>2
<1>8. ToDoBelong' BY <1>4 DEF ToDoBelong
<1>9. PartsBelong'
  <2> SUFFICES ASSUME ~stale PROVE PartsBelong'
    BY DEF PartsBelong
  <2>1. done' \cup partsToDo' = Parts(fileSize, partSize)' BY <1>1, <1>4 DEF PartsBelong
  <2>2. record' # NoRecord => record'.parts \subseteq Parts(record'.size, record'.partSize)
    <3>1. CASE record' = record BY <3>1, <1>4 DEF PartsBelong
    <3>2. CASE record' = new BY <3>2, <2>1, <1>2, <1>4
    <3> QED BY <1>3, <3>1, <3>2
  <2>3. Parts(record.size, record.partSize)' = Parts(record'.size, record'.partSize)
    BY DEF Parts, UploadParts, DownloadParts, PartCount
  <2> QED BY <2>1, <2>2, <2>3, <1>4 DEF PartsBelong
<1>10. NotMixed' BY DEF NotMixed
<1> QED BY <1>5, <1>6, <1>7, <1>8, <1>9, <1>10

LEMMA EndKeepsInv ==
    ASSUME Inv, End
    PROVE  Inv'
<1> USE DEF End, Inv
<1>1. TypeOK' BY NoRecordType DEF TypeOK
<1>2. RecordIsPlanned' BY DEF RecordIsPlanned, TooManyParts, PartCount
<1>3. SizesFit' /\ ToDoBelong' /\ NotMixed' BY DEF SizesFit, ToDoBelong, NotMixed
<1>4. PartsBelong'
  BY DEF PartsBelong, Parts, UploadParts, DownloadParts, PartCount
<1> QED BY <1>1, <1>2, <1>3, <1>4

LEMMA NextKeepsInv == Inv /\ [Next]_vars => Inv'
<1> SUFFICES ASSUME Inv, [Next]_vars PROVE Inv'
  OBVIOUS
<1>1. CASE UNCHANGED vars
  BY <1>1 DEF vars, Inv, TypeOK, RecordIsPlanned, SizesFit, PartsBelong, ToDoBelong, NotMixed,
              TooManyParts, PartCount, Parts, UploadParts, DownloadParts
<1> QED
  BY <1>1, BeginKeepsInv, DoubleKeepsInv, PrepareKeepsInv, GetPartsKeepsInv, TransferKeepsInv, EndKeepsInv DEF Next

LEMMA AlwaysInv == Spec => []Inv
BY Initially, NextKeepsInv, PTL DEF Spec

-----------------------------------------------------------------------------
\* The state of a worker and its record keep their types, whatever sizes follow one another (ResumableBaseWorker.cc).
THEOREM PlanTypes == Spec => []TypeOK
<1>1. Inv => TypeOK BY DEF Inv
<1> QED BY <1>1, AlwaysInv, PTL

\* determinePartSize keeps to PartNumberUpperLimit and doubles no further than that takes; a record that is resumed does too.
THEOREM PlanKeepsLimit == Spec => []PartSizeIsLeast
<1>1. Inv => PartSizeIsLeast
  <2> SUFFICES ASSUME Inv, phase \in {"plan", "transfer"}
               PROVE  /\ PartCount(fileSize, partSize) <= PartNumberUpperLimit
                      /\ partSize > asked => PartCount(fileSize, partSize \div 2) > PartNumberUpperLimit
    BY DEF PartSizeIsLeast
  <2>1. fileSize \in Nat \ {0} /\ partSize \in Nat \ {0}
    BY DEF Inv, TypeOK, SizesFit
  <2>2. PartCount(fileSize, partSize) \in Nat
    BY <2>1, LastPart, 1 \in Nat \ {0}
  <2>3. ~(PartCount(fileSize, partSize) > PartNumberUpperLimit)
    BY DEF Inv, SizesFit, TooManyParts
  <2>4. partSize > asked => PartCount(fileSize, partSize \div 2) > PartNumberUpperLimit
    BY DEF Inv, SizesFit, TooManyParts
  <2> HIDE DEF PartCount
  <2> QED BY <2>2, <2>3, <2>4, LimitsAssumption
<1> QED BY <1>1, AlwaysInv, PTL

\* What an earlier call transferred and what this one is to transfer are the bytes of the file, each of them once.
THEOREM PlanCovers == Spec => []PlanCoversFile
<1>1. Inv => PlanCoversFile
  <2> SUFFICES ASSUME Inv, phase = "transfer", upload \/ ~stale
               PROVE  /\ \A b \in 0 .. fileSize - 1 : \E part \in done \cup partsToDo : b \in Bytes(part)
                      /\ \A part \in done \cup partsToDo :
                           /\ part.size > 0 /\ part.offset >= 0 /\ part.offset + part.size <= fileSize
                           /\ \A other \in done \cup partsToDo : Bytes(part) \cap Bytes(other) # {} => part = other
    BY DEF PlanCoversFile
  <2>1. done \cup partsToDo = Parts(fileSize, partSize) /\ fileSize \in Nat \ {0} /\ partSize \in Nat \ {0}
    BY DEF Inv, NotMixed, PartsBelong, TypeOK, SizesFit
  <2>2. \A b \in 0 .. fileSize - 1 : \E part \in Parts(fileSize, partSize) : b \in Bytes(part)
    BY <2>1, PartsCover
  <2>3. ASSUME NEW part \in Parts(fileSize, partSize)
        PROVE  part.size > 0 /\ part.offset >= 0 /\ part.offset + part.size <= fileSize
    BY <2>1, PartOfFile DEF PartRecord
  <2>4. ASSUME NEW part \in Parts(fileSize, partSize), NEW other \in Parts(fileSize, partSize),
               Bytes(part) \cap Bytes(other) # {}
        PROVE  part = other
    <3>1. PICK b \in Bytes(part) : b \in Bytes(other) BY <2>4
    <3> QED BY <3>1, <2>1, PartsAreDisjoint
  <2> QED BY <2>1, <2>2, <2>3, <2>4
<1> QED BY <1>1, AlwaysInv, PTL
=============================================================================
