------------------------------ MODULE PartPlan ------------------------------
(***************************************************************************)
(* How a resumable transfer cuts its file into parts: determinePartSize    *)
(* doubles the size asked for until the parts are few enough, the record   *)
(* carries the outcome to the next call, and getPartsToUpload and          *)
(* getPartsToDownload list the parts that are still to be transferred.     *)
(* ResumableUpload and ResumableDownload take the parts as given; here a   *)
(* part is a range of bytes.                                               *)
(*                                                                         *)
(* A file, a part or an offset is a number of bytes.  A call ends at any   *)
(* point, which stands for a failure, a stop and a crash alike.            *)
(***************************************************************************)
EXTENDS Integers

CONSTANTS
    FileSizes,              \* sizes a file may have, from one call to the next
    PartSizes,              \* part sizes a caller asks for
    PartNumberUpperLimit,
    PartSizeLowerLimit

ASSUME SizesAssumption == FileSizes \subseteq Nat \ {0} /\ PartSizes \subseteq Nat
ASSUME LimitsAssumption == PartNumberUpperLimit \in Nat \ {0} /\ PartSizeLowerLimit \in Nat \ {0}

VARIABLES
    upload,         \* an upload, or a download
    fileSize,       \* fileSize_ of the call
    asked,          \* partSize_ when determinePartSize begins
    partSize,       \* partSize_
    stale,          \* record_.parts, and hasRecord_, are those of a record that was rejected
    done,           \* record_.parts, and the ranges they had when they were transferred
    partsToDo,      \* partsToUpload, partsToDownload
    phase,
    record          \* the record file

vars == <<upload, fileSize, asked, partSize, stale, done, partsToDo, phase, record>>

PartRecord == [number : Nat, offset : Nat, size : Nat]
NoRecord == [size |-> 0, partSize |-> 0, parts |-> {}]
Records == [size : Nat, partSize : Nat, parts : SUBSET PartRecord]
Phases == {"idle", "determine", "plan", "transfer"}

Numbers(parts) == {part.number : part \in parts}

-----------------------------------------------------------------------------
(* The arithmetic.                                                         *)

PartCount(f, p) == (f - 1) \div p + 1

\* A plausible bug: a plan with exactly as many parts as are allowed is refused.
TooManyParts_Equal(f, p) == PartCount(f, p) >= PartNumberUpperLimit

TooManyParts(f, p) == PartCount(f, p) > PartNumberUpperLimit

\* validate() of FileCreateRequest and of FileGetUploadUrlRequest.
PartNumberIsValid(n) == n > 0 /\ n < PartNumberUpperLimit

\* A plausible bug: the size of the last part is computed with the number of parts, not of those before it.
UploadParts_LastShort(f, p) ==
    {[number |-> n, offset |-> p * (n - 1),
      size |-> IF n = PartCount(f, p) THEN f - p * PartCount(f, p) ELSE p] : n \in 1 .. PartCount(f, p)}

\* The last part is what is left; offsets are computed again when the part is put.
UploadParts(f, p) ==
    {[number |-> n, offset |-> p * (n - 1),
      size |-> IF n = PartCount(f, p) THEN f - p * (PartCount(f, p) - 1) ELSE p] : n \in 1 .. PartCount(f, p)}

\* The loop ends with the first offset beyond the file.
DownloadParts(f, p) ==
    {[number |-> n, offset |-> p * (n - 1),
      size |-> IF p * (n - 1) + p > f - 1 THEN f - p * (n - 1) ELSE p] : n \in {m \in 1 .. f : p * (m - 1) < f}}

Parts(f, p) == IF upload THEN UploadParts(f, p) ELSE DownloadParts(f, p)

-----------------------------------------------------------------------------
(* One call after the other.                                               *)

\* Smaller files go in one request.
IsResumable(f, p) == p >= PartSizeLowerLimit /\ IF upload THEN f > p ELSE f >= p

\* initRecordInfo, as it is written.
NewRecord == [size |-> fileSize, partSize |-> partSize, parts |-> {}]

LoadedPartSize(p) == IF record = NoRecord THEN p ELSE record.partSize

\* validate(): the record is resumed, or removed when the file is not the one it was written for (its size or, "touched", its
\* mtime differs), which leaves what was loaded from it in memory; without one the part size is determined.
Begin(f, p, touched) ==
    /\ phase = "idle" /\ IsResumable(f, p)
    /\ fileSize' = f /\ partSize' = LoadedPartSize(p) /\ asked' = partSize'
    /\ done' = record.parts /\ partsToDo' = {}
    /\ IF record # NoRecord /\ record.size = f /\ ~touched
       THEN phase' = "plan" /\ stale' = (stale /\ done' # {}) /\ UNCHANGED record
       ELSE phase' = "determine" /\ stale' = (done' # {}) /\ record' = NoRecord
    /\ UNCHANGED upload

\* A plausible bug: the size is computed and not kept.
Double_Lost ==
    /\ phase = "determine" /\ TooManyParts(fileSize, partSize)
    /\ partSize' = asked * 2
    /\ UNCHANGED <<upload, fileSize, asked, stale, done, partsToDo, phase, record>>

Double ==
    /\ phase = "determine" /\ TooManyParts(fileSize, partSize)
    /\ partSize' = partSize * 2
    /\ UNCHANGED <<upload, fileSize, asked, stale, done, partsToDo, phase, record>>

\* A plausible bug: initRecordInfo of the upload leaves record_.parts alone, as that of the download does.
Prepare_Kept ==
    /\ phase = "determine" /\ ~TooManyParts(fileSize, partSize)
    /\ phase' = "plan"
    /\ record' \in {record, NewRecord}
    /\ UNCHANGED <<upload, fileSize, asked, partSize, stale, done, partsToDo>>

\* prepare() writes a record without parts, or goes on without one if it cannot be written.  Only the upload clears the parts
\* that a rejected record left behind; the download keeps them, and writes them into its next record with a part of its own.
Prepare ==
    /\ phase = "determine" /\ ~TooManyParts(fileSize, partSize)
    /\ phase' = "plan"
    /\ record' \in {record, NewRecord}
    /\ done' = (IF upload THEN {} ELSE done) /\ stale' = (stale /\ ~upload)
    /\ UNCHANGED <<upload, fileSize, asked, partSize, partsToDo>>

GetParts ==
    /\ phase = "plan"
    /\ phase' = "transfer"
    /\ partsToDo' = {part \in Parts(fileSize, partSize) : part.number \notin Numbers(done)}
    /\ UNCHANGED <<upload, fileSize, asked, partSize, stale, done, record>>

\* A part is transferred and written to the record, unless that cannot be written.
Transfer(part) ==
    /\ phase = "transfer" /\ part \in partsToDo
    /\ upload => PartNumberIsValid(part.number)
    /\ partsToDo' = partsToDo \ {part} /\ done' = done \cup {part}
    /\ record' \in {record, [size |-> fileSize, partSize |-> partSize, parts |-> done']}
    /\ UNCHANGED <<upload, fileSize, asked, partSize, stale, phase>>

\* The record goes when the call succeeds and when its checks fail, and stays otherwise.
End ==
    /\ phase # "idle"
    /\ phase' = "idle"
    /\ record' \in {record, NoRecord}
    /\ UNCHANGED <<upload, fileSize, asked, partSize, stale, done, partsToDo>>

Init ==
    /\ upload \in BOOLEAN
    /\ fileSize = 0 /\ asked = 0 /\ partSize = 0
    /\ stale = FALSE /\ done = {} /\ partsToDo = {}
    /\ phase = "idle" /\ record = NoRecord

Next ==
    \/ \E f \in FileSizes, p \in PartSizes, touched \in BOOLEAN : Begin(f, p, touched)
    \/ Double \/ Prepare \/ GetParts \/ End
    \/ \E part \in partsToDo : Transfer(part)

Spec == Init /\ [][Next]_vars

\* The loop of determinePartSize runs on.
FairSpec == Spec /\ WF_vars(Double) /\ WF_vars(Prepare)

-----------------------------------------------------------------------------
(* Correctness.                                                            *)

\* The types of the variables.
TypeOK ==
    /\ upload \in BOOLEAN /\ stale \in BOOLEAN
    /\ fileSize \in Nat /\ asked \in Nat /\ partSize \in Nat
    /\ done \subseteq PartRecord /\ partsToDo \subseteq PartRecord
    /\ phase \in Phases /\ record \in Records

Bytes(part) == part.offset .. part.offset + part.size - 1

\* The parts that were transferred, in this call or an earlier one with another part size asked for, and the parts that are
\* still to be transferred are the bytes of the file, every one once.  An upload whose record was rejected begins again with all
\* of them.  (A download does not: it skips the parts of the rejected record all the same, and is left out then.)
PlanCoversFile ==
    phase = "transfer" /\ (upload \/ ~stale)
        => /\ \A b \in 0 .. fileSize - 1 : \E part \in done \cup partsToDo : b \in Bytes(part)
           /\ \A part \in done \cup partsToDo :
                /\ part.size > 0 /\ part.offset >= 0 /\ part.offset + part.size <= fileSize
                /\ \A other \in done \cup partsToDo : Bytes(part) \cap Bytes(other) # {} => part = other

\* A plan has at most PartNumberUpperLimit parts, also with the part size of a rejected record; and the size asked for is not
\* raised further than that takes.
PartSizeIsLeast ==
    phase \in {"plan", "transfer"}
        => /\ PartCount(fileSize, partSize) <= PartNumberUpperLimit
           /\ partSize > asked => PartCount(fileSize, partSize \div 2) > PartNumberUpperLimit

\* determinePartSize ends.
PartSizeIsFound == phase = "determine" ~> phase # "determine"

\* "PartNumber should not be less than 1 or greater than 10000" (ModelError.cc): the parts of a plan pass the check of the
\* requests they are sent with.
PlannedPartsAreAccepted ==
    upload /\ phase = "transfer" => \A part \in partsToDo : PartNumberIsValid(part.number)
=============================================================================
