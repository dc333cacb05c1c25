---------------------------- MODULE FileChecksum ----------------------------
(***************************************************************************)
(* The checksum a resumable transfer compares with that of the service: of *)
(* every part while its bytes pass through the callbacks of the http       *)
(* client, and of the file from those of its parts (PartPlan, Crc64).      *)
(***************************************************************************)
EXTENDS PartPlan, Crc64

CONSTANT Content(_)     \* the bytes of a file, by its size

ASSUME ContentAssumption == \A f \in FileSizes : Content(f) \in [1 .. f -> Byte]

Block(part) == SubSeq(Content(fileSize), part.offset + 1, part.offset + part.size)

\* sendCrc64Value, recvCrc64Value: the bytes come in several pieces, each anywhere in memory.
PartCrcs(part) ==
    LET buf == Block(part)
    IN  {CalcCRC(CalcCRC({}, SubSeq(buf, 1, cut), 0, little), SubSeq(buf, cut + 1, Len(buf)), address, little) :
            cut \in 0 .. Len(buf), address \in 0 .. WordBytes - 1, little \in BOOLEAN}

\* What is known of a part that was transferred (PartRecord, UploadPartRecord).
Transferred(part) == [number |-> part.number, crc64 |-> CHOOSE c \in PartCrcs(part) : TRUE, size |-> part.size]

\* std::sort by partNumber.
Sorted(parts) ==
    CHOOSE s \in [1 .. Cardinality(parts) -> parts] : \A i, j \in DOMAIN s : i < j => s[i].number < s[j].number

Combined(crc, part) == CombineCRC(crc, part.crc64, part.size)
LocalCrc(parts) == FoldLeft(Combined, Head(parts).crc64, Tail(parts))

-----------------------------------------------------------------------------
\* However a part is cut into pieces, and wherever these are in memory and in whatever order a word has its bytes, its checksum
\* is that of its bytes; and the checksum combined from all parts is that of the file, so that a service that checks the file
\* as a whole comes to the same (ResumableUploader.cc, ResumableDownloader.cc, Crc64.cc).  This holds of every upload, those that
\* rejected a record included.  (A download that rejected one combines the checksums of that record's parts, and is left out.)
CombinedCrcIsOfFile ==
    phase = "transfer" /\ (upload \/ ~stale) /\ partsToDo = {}
        => /\ \A part \in done : PartCrcs(part) = {Crc(Block(part))}
           /\ LocalCrc(Sorted({Transferred(part) : part \in done})) = Crc(Content(fileSize))
=============================================================================
