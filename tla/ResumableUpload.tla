-------------------------- MODULE ResumableUpload --------------------------
(***************************************************************************)
(* One local file uploaded again and again to one file of the service by   *)
(* ResumableUploader::Upload.  A call creates an upload on the service, or *)
(* resumes the one its record file names, puts the parts one after the     *)
(* other, writes every part that was put to the record, and asks the       *)
(* service to complete the upload.                                         *)
(*                                                                         *)
(* What outlives a call, or the process, is the record file and the state  *)
(* of the service.  The service is external: an upload is a set of parts   *)
(* that one request turns into the file; a request may have taken effect   *)
(* although its answer never came, and Client::AttemptRequest may then     *)
(* have sent it again.                                                     *)
(*                                                                         *)
(* Abstractions: as in ResumableDownload, the local file has versions      *)
(* whose sizes are multiples of the part size, and the bytes of a part, or *)
(* their CRC-64, are identified by the version they come from.             *)
(***************************************************************************)
EXTENDS Integers, FiniteSets

CONSTANTS
    NumVersions,    \* versions the local file goes through
    MaxParts,       \* parts of the largest version
    PartCount,      \* version -> its number of parts
    FileMtime,      \* version -> its modification time, in seconds
    MaxUploads,     \* bound on the uploads created on the service
    HasCrc,         \* the service reports a CRC-64 and enableCrc64 is on
    HasSha1,        \* the service reports the SHA-1 of a completed file
    HasCheckpoint,  \* the request names a checkpoint directory
    RapidUpload,    \* configuration().enableRapidUpload
    Events,         \* the kinds of event the environment may cause
    MaxCalls,       \* bound on the number of calls
    MaxEvents       \* bound on the number of events

Versions == 1 .. NumVersions
Parts == 1 .. MaxParts
Uploads == 1 .. MaxUploads

\* service: a request to the drive service fails; put: a PUT fails; lost: the
\* answer to the first PUT of a part is lost and the retry finds the part;
\* exist: another file has the name; expire: the service forgets an upload;
\* open, remove: the record cannot be opened or removed; stop, cancel, disable,
\* withdraw: the caller's control handler and Disable/EnableRequest; modify,
\* edit: the local file changes between two calls, or during one; crash: the
\* process dies.
EventKinds == {"service", "put", "lost", "exist", "expire", "open", "remove",
               "stop", "cancel", "disable", "withdraw", "modify", "edit",
               "crash"}

ASSUME VersionsAssumption ==
    /\ NumVersions \in Nat \ {0}
    /\ MaxParts \in Nat
    /\ PartCount \in [Versions -> Parts]
    /\ FileMtime \in [Versions -> Nat]

ASSUME OptionsAssumption ==
    /\ HasCrc \in BOOLEAN /\ HasSha1 \in BOOLEAN
    /\ HasCheckpoint \in BOOLEAN /\ RapidUpload \in BOOLEAN

ASSUME BoundsAssumption ==
    /\ MaxUploads \in Nat
    /\ Events \subseteq EventKinds
    /\ MaxCalls \in Nat /\ MaxEvents \in Nat

VARIABLES
    \* the caller's side
    file,           \* the version of the local file
    enable,         \* Client::isEnableRequest()
    control,        \* what the caller's progress control handler answers
    record,         \* the record file
    \* the service
    uploads,        \* upload -> its state and the parts it holds
    published,      \* what the file of the service holds
    \* the call
    pc,
    target,         \* the version whose size and mtime the call works with
    upload,         \* record_.uploadID (and fileID, driveID)
    partsToUpload, uploadedParts, outcomes,
    part,           \* the part the loop is at
    hashed,         \* the version whose SHA-1 was computed
    result,         \* what the last call returned
    \* bookkeeping of the bounds
    calls, events,
    quietCalls      \* calls begun and ended since the last event, -1 at the event

outside == <<file, enable, control>>
service == <<uploads, published>>
lists   == <<partsToUpload, uploadedParts, outcomes, part>>
call    == <<target, upload, lists, hashed>>
budget  == <<calls, events, quietCalls>>
vars    == <<outside, record, service, pc, call, result, budget>>

-----------------------------------------------------------------------------
Hole == 0       \* a part the service does not hold
NoPart == 0
NoUpload == 0   \* the empty id of a record_ that was never filled in
NoVersion == 0  \* no SHA-1
NoCrc == 0

EmptyFile == [p \in Parts |-> Hole]
Content(v) == [p \in Parts |-> IF p <= PartCount[v] THEN v ELSE Hole]
Size(content) == Cardinality({p \in Parts : content[p] # Hole})

Entry(p, crc) == [partNumber |-> p, crc |-> IF HasCrc THEN crc ELSE NoCrc]
Entries == [partNumber : Parts, crc : 0 .. NumVersions]
Numbers(s) == {e.partNumber : e \in s}

NoRecord == [state |-> "none", upload |-> NoUpload,
             size |-> 0, mtime |-> 0, parts |-> {}]
Damaged == [NoRecord EXCEPT !.state = "damaged"]
Saved(s) == [state |-> "saved", upload |-> upload, size |-> PartCount[target],
             mtime |-> FileMtime[target], parts |-> s]
RecordFiles == [state : {"none", "damaged", "saved"}, upload : 0 .. MaxUploads,
                size : Nat, mtime : Nat, parts : SUBSET Entries]

Unused == [state |-> "unused", parts |-> EmptyFile]

\* The service knows the upload the call works with.
IsOpen == upload # NoUpload /\ uploads[upload].state = "open"

-----------------------------------------------------------------------------
(* What the environment does *)

Event(kind) ==
    /\ kind \in Events
    /\ events < MaxEvents
    /\ events' = events + 1
    /\ quietCalls' = -1
    /\ UNCHANGED calls

Calm == UNCHANGED budget

Idle == pc = "idle"

AskToQuit ==
    /\ ~Idle
    /\ \/ Event("stop") /\ control' = "stop" /\ UNCHANGED enable
       \/ Event("cancel") /\ control' = "cancel" /\ UNCHANGED enable
       \/ Event("disable") /\ enable' = FALSE /\ UNCHANGED control
    /\ UNCHANGED <<file, record, service, pc, call, result>>

Withdraw ==
    /\ ~Idle
    /\ control # "none" \/ ~enable
    /\ Event("withdraw")
    /\ control' = "none" /\ enable' = TRUE
    /\ UNCHANGED <<file, record, service, pc, call, result>>

ChangeFile ==
    /\ Event(IF Idle THEN "modify" ELSE "edit")
    /\ file < NumVersions
    /\ file' = file + 1
    /\ UNCHANGED <<enable, control, record, service, pc, call, result>>

ExpireUpload ==
    /\ Event("expire")
    /\ \E u \in Uploads :
          /\ uploads[u].state = "open"
          /\ uploads' = [uploads EXCEPT ![u].state = "gone"]
    /\ UNCHANGED <<outside, record, published, pc, call, result>>

-----------------------------------------------------------------------------
(* The end of a call *)

\* What the call kept in memory is gone.  The caller enables requests and
\* resets its handler before the next call.
Forget ==
    /\ pc' = "idle"
    /\ upload' = NoUpload
    /\ partsToUpload' = {} /\ uploadedParts' = {}
    /\ outcomes' = [size |-> 0, failure |-> "none"]
    /\ part' = NoPart /\ hashed' = NoVersion
    /\ enable' = TRUE /\ control' = "none"
    /\ UNCHANGED <<file, target>>

\* A call that ends; one that met an event does not count.
CalmEnd == quietCalls' = quietCalls + 1 /\ UNCHANGED <<calls, events>>

Return(code) == Forget /\ result' = code

\* Mutant: the record stays.
DropRecord_Never == UNCHANGED record

\* removeRecordFile
DropRecord == record' = IF HasCheckpoint THEN NoRecord ELSE record

\* A call that ends with removeRecordFile: nobody looks at whether it worked.
ReturnDropping(code) ==
    /\ Return(code)
    /\ \/ DropRecord /\ CalmEnd
       \/ Event("remove") /\ UNCHANGED record

-----------------------------------------------------------------------------
(* validate and prepare *)

\* The request and the uploader read the size and the mtime of the file.
Start ==
    /\ Idle
    /\ calls < MaxCalls
    /\ calls' = calls + 1
    /\ target' = file
    /\ result' = "none"
    /\ pc' = "load"
    /\ quietCalls' = IF quietCalls < 0 THEN 0 ELSE quietCalls
    /\ UNCHANGED <<outside, record, service, upload, lists, hashed, events>>

\* Mutant: the mtime is not compared.
RecordIsValid_SizeOnly ==
    record.state = "saved" /\ record.size = PartCount[target]

RecordIsValid ==
    /\ record.state = "saved"
    /\ record.size = PartCount[target]
    /\ record.mtime = FileMtime[target]

\* loadRecord and validateRecord: a record that cannot be parsed or is not
\* valid is removed.
LoadRecord ==
    /\ pc = "load"
    /\ \/ /\ RecordIsValid
          /\ upload' = record.upload /\ uploadedParts' = record.parts
          /\ pc' = "plan"
          /\ UNCHANGED record /\ Calm
       \/ /\ ~RecordIsValid
          /\ pc' = "create"
          /\ \/ DropRecord /\ Calm
             \/ record.state # "none" /\ Event("remove") /\ UNCHANGED record
          /\ UNCHANGED <<upload, uploadedParts>>
    /\ UNCHANGED <<outside, service, target, partsToUpload, outcomes, part,
                   hashed, result>>

\* The service answers with a new upload.  Without a checkpoint directory
\* record_ is not filled in: the ids of the upload are lost.
NewUpload ==
    \E u \in Uploads :
        /\ uploads[u].state = "unused"
        /\ \A v \in Uploads : v < u => uploads[v].state # "unused"
        /\ uploads' = [uploads EXCEPT ![u].state = "open"]
        /\ upload' = IF HasCheckpoint THEN u ELSE NoUpload
        /\ pc' = IF HasCheckpoint THEN "open" ELSE "plan"

\* FileCreate: the only one, or the one that carries the hash of the first
\* bytes and is told that the service knows a file with that hash.
Create ==
    /\ pc = "create"
    /\ \/ NewUpload /\ Calm /\ UNCHANGED <<outside, lists, hashed, result, target>>
       \/ /\ RapidUpload
          /\ pc' = "hash"
          /\ UNCHANGED <<outside, uploads, call, result>> /\ Calm
       \/ /\ \/ Event("service") /\ Return("ServiceError")
             \/ Event("exist") /\ Return("SameNameFileExist")
          /\ UNCHANGED uploads
    /\ UNCHANGED <<record, published>>

\* ComputeFileSha1 reads the file; the caller's handler may end it early.
ComputeSha1 ==
    /\ pc \in {"hash", "checkHash"}
    /\ hashed' \in {file} \cup (IF control = "none" THEN {} ELSE {NoVersion})
    /\ pc' = IF pc = "hash" THEN "rapid" ELSE "compare"
    /\ Calm
    /\ UNCHANGED <<outside, record, service, target, upload, lists, result>>

AskedToQuit(code) ==
    /\ hashed = NoVersion
    /\ \/ control = "stop" /\ code = "stopped"
       \/ control = "cancel" /\ code = "canceled"

\* The second FileCreate carries the SHA-1.  The service may make the file
\* from one it knows.
RapidCreate ==
    /\ pc = "rapid"
    /\ \/ /\ \E code \in {"stopped", "canceled"} :
                AskedToQuit(code) /\ Return(code)
          /\ CalmEnd /\ UNCHANGED service
       \/ /\ ~(hashed = NoVersion /\ control # "none")
          /\ \/ /\ hashed # NoVersion
                /\ published' = Content(hashed)
                /\ pc' = "rapidDone"
                /\ Calm
                /\ UNCHANGED <<outside, uploads, call, result>>
             \/ /\ NewUpload /\ Calm
                /\ UNCHANGED <<outside, published, lists, hashed, result, target>>
             \/ /\ Event("service") /\ Return("ServiceError")
                /\ UNCHANGED service
    /\ UNCHANGED record

ReturnRapid ==
    /\ pc = "rapidDone"
    /\ Return("ok") /\ CalmEnd
    /\ UNCHANGED <<record, service>>

\* Opening the record truncates it; when it cannot be opened it stays as it is.
OpenRecord ==
    /\ pc \in {"open", "openAgain"}
    /\ \/ /\ Calm /\ record' = Damaged
          /\ pc' = IF pc = "open" THEN "write" ELSE "writeAgain"
       \/ /\ Event("open") /\ UNCHANGED record
          /\ pc' = IF pc = "open" THEN "plan" ELSE "pop"
    /\ UNCHANGED <<outside, service, call, result>>

WriteRecord ==
    /\ pc \in {"write", "writeAgain"}
    /\ record' = Saved(uploadedParts)
    /\ pc' = IF pc = "write" THEN "plan" ELSE "pop"
    /\ Calm
    /\ UNCHANGED <<outside, service, call, result>>

-----------------------------------------------------------------------------
(* The loop over the parts *)

\* Mutant: part numbers start at 0.
ToUpload_FromZero == (0 .. PartCount[target] - 1) \ Numbers(uploadedParts)

ToUpload == (1 .. PartCount[target]) \ Numbers(uploadedParts)

\* getPartsToUpload
Plan ==
    /\ pc = "plan"
    /\ partsToUpload' = ToUpload
    /\ pc' = "pop"
    /\ Calm
    /\ UNCHANGED <<outside, record, service, target, upload, uploadedParts,
                   outcomes, part, hashed, result>>

Take(p) == partsToUpload' = partsToUpload \ {p}

Quitting == ~enable \/ control # "none"

\* Takes the next part.  A caller that wants to quit ends the loop, and the
\* part is dropped without an outcome.
Pop ==
    /\ pc = "pop"
    /\ \/ /\ partsToUpload = {}
          /\ pc' = "joined"
          /\ UNCHANGED <<partsToUpload, part>>
       \/ \E p \in partsToUpload :
             /\ \A q \in partsToUpload : p <= q
             /\ Take(p)
             /\ IF Quitting THEN pc' = "joined" /\ part' = NoPart
                            ELSE pc' = "url" /\ part' = p
    /\ Calm
    /\ UNCHANGED <<outside, record, service, target, upload, uploadedParts,
                   outcomes, hashed, result>>

\* Mutant: a call whose upload the service does not know waits for it.
GetUrl_WaitsForUpload ==
    /\ pc = "url"
    /\ IsOpen
    /\ \/ /\ pc' = "put"
          /\ Calm
          /\ UNCHANGED <<outside, call, result>>
       \/ Event("service") /\ Return("ServiceError")
    /\ UNCHANGED <<record, service>>

\* FileGetUploadUrl: when it fails the call ends at once and keeps the record.
GetUrl ==
    /\ pc = "url"
    /\ \/ /\ IsOpen
          /\ pc' = "put"
          /\ Calm
          /\ UNCHANGED <<outside, call, result>>
       \/ /\ IF IsOpen THEN Event("service") ELSE CalmEnd
          /\ Return("ServiceError")
    /\ UNCHANGED <<record, service>>

\* The part of the file is read when it is put.
CanPut == IsOpen /\ part <= PartCount[file]
Put == uploads' = [uploads EXCEPT ![upload].parts[part] = file]
IsThere == uploads[upload].parts[part] # Hole

\* Mutant: a part that was not put counts as uploaded.
Answer_AnyCounts(ok, crc) ==
    /\ uploadedParts' = uploadedParts \cup {Entry(part, crc)}
    /\ outcomes' = [outcomes EXCEPT !.size = @ + 1]
    /\ pc' = IF HasCheckpoint THEN "openAgain" ELSE "pop"

\* What the loop does with the outcome of a PUT.
Answer(ok, crc) ==
    IF ok
    THEN /\ uploadedParts' = uploadedParts \cup {Entry(part, crc)}
         /\ outcomes' = [outcomes EXCEPT !.size = @ + 1]
         /\ pc' = IF HasCheckpoint THEN "openAgain" ELSE "pop"
    ELSE /\ outcomes' = [size |-> outcomes.size + 1, failure |-> "PutError"]
         /\ pc' = "pop"
         /\ UNCHANGED uploadedParts

PutSucceeds ==
    /\ pc = "put" /\ CanPut
    /\ Put
    /\ Answer(TRUE, file)
    /\ Calm
    /\ part' = NoPart
    /\ UNCHANGED <<outside, record, published, target, upload, partsToUpload,
                   hashed, result>>

\* PartAlreadyExist: an earlier call put the part and its record lacks it, or
\* the first attempt of this request did.  The part counts as uploaded; its
\* CRC is a member of DataPutResult that no constructor has set.
PutFindsPart ==
    /\ pc = "put" /\ CanPut
    /\ \/ IsThere /\ UNCHANGED uploads /\ Calm
       \/ ~IsThere /\ Put /\ Event("lost")
    /\ \E crc \in {NoCrc, uploads'[upload].parts[part]} : Answer(TRUE, crc)
    /\ part' = NoPart
    /\ UNCHANGED <<outside, record, published, target, upload, partsToUpload,
                   hashed, result>>

\* The PUT fails for good.  The service may have stored the part.
PutFails ==
    /\ pc = "put"
    /\ IF Quitting \/ ~CanPut THEN Calm ELSE Event("put")
    /\ \/ UNCHANGED uploads
       \/ CanPut /\ Put
    /\ Answer(FALSE, NoCrc)
    /\ part' = NoPart
    /\ UNCHANGED <<outside, record, published, target, upload, partsToUpload,
                   hashed, result>>

-----------------------------------------------------------------------------
(* After the loop *)

CheckEnable ==
    /\ pc = "joined"
    /\ IF enable
       THEN pc' = "control" /\ Calm /\ UNCHANGED <<outside, call, result>>
       ELSE Return("disabled") /\ CalmEnd
    /\ UNCHANGED <<record, service>>

CheckControl ==
    /\ pc = "control"
    /\ \/ /\ control = "none"
          /\ pc' = "verify" /\ Calm
          /\ UNCHANGED <<outside, call, result, record>>
       \/ control = "stop" /\ Return("stopped") /\ CalmEnd /\ UNCHANGED record
       \/ control = "cancel" /\ ReturnDropping("canceled")
    /\ UNCHANGED service

\* Mutant: the outcomes of the parts are not looked at.
Verdict_NoOutcomes == "none"

Verdict ==
    IF outcomes.failure # "none" THEN outcomes.failure
    ELSE IF Cardinality(uploadedParts) < outcomes.size THEN "UploadNotComplete"
    ELSE "none"

CheckOutcomes ==
    /\ pc = "verify"
    /\ IF Verdict = "none"
       THEN pc' = "complete" /\ Calm /\ UNCHANGED <<outside, call, result>>
       ELSE Return(Verdict) /\ CalmEnd
    /\ UNCHANGED <<record, service>>

\* The service makes the file from the parts it holds.
Publish ==
    /\ IsOpen
    /\ uploads' = [uploads EXCEPT ![upload].state = "completed"]
    /\ published' = uploads[upload].parts

\* FileComplete.  To complete an upload twice may be an error or not.
Complete ==
    /\ pc = "complete"
    /\ \/ /\ Publish
          /\ pc' = "answered" /\ Calm
       \/ /\ upload # NoUpload /\ uploads[upload].state = "completed"
          /\ pc' = "answered" /\ Calm /\ UNCHANGED service
       \/ /\ pc' = "refused"
          /\ IF IsOpen THEN Event("service") ELSE Calm
          /\ Publish \/ UNCHANGED service
    /\ UNCHANGED <<outside, record, call, result>>

\* The record goes, and with it what was uploaded.
ReturnRefused ==
    /\ pc = "refused"
    /\ ReturnDropping("ServiceError")
    /\ UNCHANGED service

SizeMatches == Size(uploads[upload].parts) = PartCount[target]

\* The CRCs combined in the order of the part numbers are that of the file.
CrcMatches ==
    uploadedParts = {Entry(p, uploads[upload].parts[p]) :
                        p \in {q \in Parts : uploads[upload].parts[q] # Hole}}

\* The size, then the CRC; a CRC that differs is not believed before the SHA-1
\* differs too, when the service has one.
CheckAnswer ==
    /\ pc = "answered"
    /\ \/ /\ ~SizeMatches
          /\ Return("FileSizeCheckError") /\ CalmEnd /\ UNCHANGED record
       \/ /\ SizeMatches
          /\ \/ /\ ~HasCrc \/ CrcMatches
                /\ pc' = "finish"
             \/ /\ HasCrc /\ ~CrcMatches
                /\ pc' = IF HasSha1 THEN "checkHash" ELSE "crcDiffers"
          /\ Calm
          /\ UNCHANGED <<outside, call, result, record>>
    /\ UNCHANGED service

\* With no part in the list the CRC check reads uploadedParts[0] of an empty
\* vector: the process may die there.
ReadFirstOfNone ==
    /\ pc = "answered"
    /\ SizeMatches /\ HasCrc /\ uploadedParts = {}
    /\ Return("none") /\ CalmEnd
    /\ UNCHANGED <<record, service>>

ReturnCrcDiffers ==
    /\ pc = "crcDiffers"
    /\ ReturnDropping("CrcCheckError")
    /\ UNCHANGED service

CompareSha1 ==
    /\ pc = "compare"
    /\ \/ /\ \E code \in {"stopped", "canceled"} :
                AskedToQuit(code) /\ Return(code)
          /\ CalmEnd /\ UNCHANGED record
       \/ /\ ~(hashed = NoVersion /\ control # "none")
          /\ IF hashed # NoVersion /\ Content(hashed) = uploads[upload].parts
             THEN pc' = "finish" /\ Calm
                  /\ UNCHANGED <<outside, call, result, record>>
             ELSE ReturnDropping("Sha1CheckError")
    /\ UNCHANGED service

Finish ==
    /\ pc = "finish"
    /\ ReturnDropping("ok")
    /\ UNCHANGED service

\* The process dies.  The request in flight may have taken effect.
Crash ==
    /\ ~Idle
    /\ Event("crash")
    /\ \/ UNCHANGED service
       \/ pc = "put" /\ CanPut /\ Put /\ UNCHANGED published
       \/ pc = "complete" /\ Publish
    /\ Return("none")
    /\ UNCHANGED record

-----------------------------------------------------------------------------
Init ==
    /\ file = 1 /\ target = 1
    /\ enable = TRUE /\ control = "none"
    /\ record = NoRecord
    /\ uploads = [u \in Uploads |-> Unused] /\ published = EmptyFile
    /\ pc = "idle" /\ result = "none"
    /\ upload = NoUpload
    /\ partsToUpload = {} /\ uploadedParts = {}
    /\ outcomes = [size |-> 0, failure |-> "none"]
    /\ part = NoPart /\ hashed = NoVersion
    /\ calls = 0 /\ events = 0 /\ quietCalls = 0

Step == \/ LoadRecord \/ Create \/ ComputeSha1 \/ RapidCreate \/ ReturnRapid
        \/ OpenRecord \/ WriteRecord
        \/ Plan \/ Pop \/ GetUrl \/ PutSucceeds \/ PutFindsPart \/ PutFails
        \/ CheckEnable \/ CheckControl \/ CheckOutcomes
        \/ Complete \/ ReturnRefused \/ CheckAnswer \/ ReadFirstOfNone
        \/ ReturnCrcDiffers \/ CompareSha1 \/ Finish

Environment == AskToQuit \/ Withdraw \/ ChangeFile \/ ExpireUpload \/ Crash

Next == Start \/ Step \/ Environment

Spec == Init /\ [][Next]_vars

\* The calling thread goes on: a request ends, with its retries, at last.
FairSpec == Spec /\ WF_vars(Step)

-----------------------------------------------------------------------------
(* Properties *)

Pcs == {"idle", "load", "create", "hash", "rapid", "rapidDone", "open", "write",
        "plan", "pop", "url", "put", "openAgain", "writeAgain", "joined",
        "control", "verify", "complete", "answered", "refused", "crcDiffers",
        "checkHash", "compare", "finish"}
Results == {"none", "ok", "disabled", "stopped", "canceled", "ServiceError",
            "SameNameFileExist", "PutError", "UploadNotComplete",
            "FileSizeCheckError", "CrcCheckError", "Sha1CheckError"}
Contents == [Parts -> {Hole} \cup Versions]

CallerOK == /\ file \in Versions
            /\ enable \in BOOLEAN /\ control \in {"none", "stop", "cancel"}
            /\ record \in RecordFiles
ServiceOK == /\ uploads \in [Uploads ->
                    [state : {"unused", "open", "completed", "gone"},
                     parts : Contents]]
             /\ published \in Contents
CallOK == /\ pc \in Pcs /\ result \in Results
          /\ target \in Versions /\ upload \in 0 .. MaxUploads
          /\ partsToUpload \subseteq Parts
          /\ uploadedParts \subseteq Entries
          /\ outcomes \in [size : Nat, failure : {"none", "PutError"}]
          /\ part \in 0 .. MaxParts /\ hashed \in 0 .. NumVersions
BudgetOK == calls \in Nat /\ events \in Nat /\ quietCalls \in Nat \cup {-1}

\* Every variable has its type.
TypeOK == CallerOK /\ ServiceOK /\ CallOK /\ BudgetOK

\* Whenever Upload returns success, the file of the service is the version the
\* call worked with, whatever was resumed, repeated or withdrawn before.  (A
\* file edited while its parts are put is a mixture that no check finds.)
OkMeansWhole ==
    result = "ok" /\ file = target => published = Content(target)

\* A part the record or the running call lists is with the service, so that a
\* resumed upload leaves no hole.  (An upload the service forgot is refused as
\* a whole.)
ListedPartsAreStored ==
    /\ record.state = "saved" =>
          \A e \in record.parts : uploads[record.upload].parts[e.partNumber] # Hole
    /\ upload # NoUpload =>
          \A e \in uploadedParts : uploads[upload].parts[e.partNumber] # Hole

\* Of two calls in a row that meet no failure the second delivers, whatever
\* happened before: at most one call is spent on a record that has become
\* useless.  (No upload was forgotten, no request to quit withdrawn.)
SecondQuietCallDelivers ==
    Idle /\ quietCalls >= 2 => result = "ok" /\ published = Content(target)

\* Every call comes to an end.
CallReturns == ~Idle ~> Idle

\* The uploader as the readers of the file see it.  The caller may be told of a
\* failure although the file was replaced: the answer was lost.
Atomic == INSTANCE AtomicPublish WITH
    Contents <- {Content(v) : v \in Versions},
    Absent <- EmptyFile,
    MayDoubt <- TRUE,
    file <- published,
    phase <- IF pc \in {"rapidDone", "answered", "checkHash", "compare",
                        "crcDiffers", "finish"} THEN "published"
             ELSE IF ~Idle THEN "running"
             ELSE IF result = "ok" THEN "succeeded"
             ELSE IF result = "none" THEN "idle" ELSE "failed"
ImplementsAtomicPublish == Atomic!Spec

=============================================================================
