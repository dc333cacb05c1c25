----------------------- MODULE ResumableUpload_proofs -----------------------
(***************************************************************************)
(* Proofs about ResumableUpload for every number of versions, parts,       *)
(* uploads, calls and events and every choice of the options.              *)
(*                                                                         *)
(* The first part is about types and the agreement of the record, the      *)
(* running call and the service.  The second proves that an upload which   *)
(* reports success has published the whole version it worked with          *)
(* (OkMeansWhole), that it implements AtomicPublish, and that of two calls *)
(* without failures the second delivers.  validateRecord knows a version   *)
(* by its size and modification time only, so there versions have to       *)
(* differ in one of them.                                                  *)
(***************************************************************************)
EXTENDS ResumableUpload, TLAPS, FiniteSetTheorems

(* A record, and a call that lists or puts parts, names an upload. *)
Named ==
    /\ record.state = "saved" => record.upload # NoUpload
    /\ upload = NoUpload => uploadedParts = {}
    /\ pc \in {"open", "write", "put", "openAgain", "writeAgain"}
          => upload # NoUpload
    /\ pc \in {"url", "put"} => part \in Parts
    /\ pc \in {"idle", "load", "create", "hash", "rapid"} => upload = NoUpload

Inv == TypeOK /\ Named /\ ListedPartsAreStored

(* What a step may do to the record without writing it, and to the service. *)
NotWritten == record' \in {record, NoRecord, Damaged}
Grows == \A u \in Uploads, p \in Parts :
            uploads[u].parts[p] # Hole => uploads'[u].parts[p] # Hole

-----------------------------------------------------------------------------
(* What the helpers return. *)

LEMMA PartsAreNumbers ==
    /\ Parts \subseteq Nat /\ 0 \notin Parts
    /\ \A v \in Versions : PartCount[v] \in Parts /\ PartCount[v] \in Nat
    /\ \A v \in Versions : 1 .. PartCount[v] \subseteq Parts
    /\ \A v \in Versions : FileMtime[v] \in Nat
    /\ 1 \in Versions
BY VersionsAssumption DEF Versions, Parts

LEMMA NumbersAreOne ==
    /\ Hole \notin Versions /\ Hole \in {Hole} \cup Versions
    /\ \A n \in {Hole} \cup Versions : n \in 0 .. NumVersions
    /\ NoUpload \notin Uploads /\ NoUpload \in 0 .. MaxUploads
    /\ \A u \in 0 .. MaxUploads : u # NoUpload => u \in Uploads
    /\ Uploads \subseteq 0 .. MaxUploads
    /\ NoPart \in 0 .. MaxParts /\ Parts \subseteq 0 .. MaxParts
    /\ NoVersion \in 0 .. NumVersions /\ Versions \subseteq 0 .. NumVersions
BY VersionsAssumption, BoundsAssumption
DEF Hole, Versions, NoUpload, Uploads, NoPart, Parts, NoVersion

LEMMA ContentType ==
    /\ EmptyFile \in Contents
    /\ \A v \in Versions : Content(v) \in Contents
BY DEF EmptyFile, Content, Contents

LEMMA EntryType ==
    \A p \in Parts, crc \in 0 .. NumVersions :
        Entry(p, crc) \in Entries /\ Entry(p, crc).partNumber = p
BY VersionsAssumption DEF Entry, Entries, NoCrc

LEMMA RecordTypes ==
    /\ NoRecord \in RecordFiles /\ NoRecord.state # "saved"
    /\ Damaged \in RecordFiles /\ Damaged.state # "saved"
<1>1. NoRecord \in RecordFiles /\ NoRecord.state # "saved"
  BY NumbersAreOne DEF NoRecord, RecordFiles
<1>2. Damaged \in RecordFiles /\ Damaged.state # "saved"
  BY NumbersAreOne DEF Damaged, NoRecord, RecordFiles
<1> QED BY <1>1, <1>2

LEMMA EventType ==
    ASSUME BudgetOK, NEW kind, Event(kind)
    PROVE  BudgetOK'
BY DEF BudgetOK, Event

LEMMA CalmType ==
    ASSUME BudgetOK, Calm \/ CalmEnd
    PROVE  BudgetOK'
BY DEF BudgetOK, Calm, CalmEnd, budget

\* A part is put: the service keeps what it has.
LEMMA PutKeeps ==
    ASSUME Inv, Put, IsOpen, part \in Parts
    PROVE  /\ uploads' \in [Uploads ->
                  [state : {"unused", "open", "completed", "gone"},
                   parts : Contents]]
           /\ Grows
           /\ uploads'[upload].parts[part] = file
<1>1. upload \in Uploads
  BY NumbersAreOne DEF Inv, TypeOK, CallOK, IsOpen
<1>2. file \in Versions
  BY DEF Inv, TypeOK, CallerOK
<1>3. [uploads[upload].parts EXCEPT ![part] = file] \in Contents
  BY <1>1, <1>2 DEF Inv, TypeOK, ServiceOK, Contents
<1>4. \A u \in Uploads :
         /\ uploads'[u].state = uploads[u].state
         /\ uploads'[u].parts = IF u = upload
               THEN [uploads[upload].parts EXCEPT ![part] = file]
               ELSE uploads[u].parts
  BY <1>1 DEF Inv, TypeOK, ServiceOK, Put
<1>5. uploads' \in [Uploads -> [state : {"unused", "open", "completed", "gone"},
                                parts : Contents]]
  BY <1>1, <1>3 DEF Inv, TypeOK, ServiceOK, Put
<1>6. \A p \in Parts :
         [uploads[upload].parts EXCEPT ![part] = file][p]
            = IF p = part THEN file ELSE uploads[upload].parts[p]
  BY <1>1 DEF Inv, TypeOK, ServiceOK, Contents
<1>7. Grows
  BY <1>1, <1>2, <1>4, <1>6, NumbersAreOne DEF Grows
<1> QED BY <1>1, <1>4, <1>5, <1>6, <1>7

\* An upload changes its state: the service keeps its parts.
LEMMA StateKeeps ==
    ASSUME ServiceOK, NEW u \in Uploads,
           NEW s \in {"unused", "open", "completed", "gone"},
           uploads' = [uploads EXCEPT ![u].state = s]
    PROVE  /\ uploads' \in [Uploads ->
                  [state : {"unused", "open", "completed", "gone"},
                   parts : Contents]]
           /\ Grows
BY DEF ServiceOK, Grows

LEMMA SameService ==
    ASSUME ServiceOK, UNCHANGED uploads
    PROVE  Grows
BY DEF Grows

\* What is listed stays stored.
LEMMA ListedStays ==
    ASSUME Inv, NotWritten, Grows,
           \/ upload' = upload /\ uploadedParts' = uploadedParts
           \/ uploadedParts' = {}
    PROVE  ListedPartsAreStored'
<1>1. record'.state = "saved" => record' = record
  BY RecordTypes DEF NotWritten
<1>2. record.state = "saved" =>
         \A e \in record.parts :
            record.upload \in Uploads /\ e.partNumber \in Parts
  BY NumbersAreOne
  DEF Inv, TypeOK, CallerOK, RecordFiles, Entries, Named
<1>3. record'.state = "saved" =>
         \A e \in record'.parts :
            uploads'[record'.upload].parts[e.partNumber] # Hole
  BY <1>1, <1>2 DEF Inv, ListedPartsAreStored, Grows
<1>4. upload # NoUpload =>
         \A e \in uploadedParts : upload \in Uploads /\ e.partNumber \in Parts
  BY NumbersAreOne DEF Inv, TypeOK, CallOK, Entries
<1>5. upload' # NoUpload =>
         \A e \in uploadedParts' : uploads'[upload'].parts[e.partNumber] # Hole
  BY <1>4 DEF Inv, ListedPartsAreStored, Grows
<1> QED BY <1>3, <1>5 DEF ListedPartsAreStored

LEMMA CallerKeeps ==
    ASSUME Inv, NotWritten, file' \in Versions,
           enable' \in {enable, TRUE, FALSE},
           control' \in {"none", "stop", "cancel"}
    PROVE  CallerOK' /\ (record'.state = "saved" => record'.upload # NoUpload)
<1>1. record' \in RecordFiles
  BY RecordTypes DEF NotWritten, Inv, TypeOK, CallerOK
<1>2. enable' \in BOOLEAN
  BY Zenon DEF Inv, TypeOK, CallerOK
<1>3. record'.state = "saved" => record'.upload # NoUpload
  BY RecordTypes DEF NotWritten, Inv, Named
<1> QED BY <1>1, <1>2, <1>3, Zenon DEF CallerOK

\* A call that ends leaves nothing behind but the record and the service.
LEMMA ReturnKeeps ==
    ASSUME Inv, NEW code \in Results, Return(code),
           NotWritten, Grows, ServiceOK', BudgetOK'
    PROVE  Inv'
<1> USE DEF Return, Forget
<1>1. file' \in Versions /\ control' \in {"none", "stop", "cancel"}
  BY DEF Inv, TypeOK, CallerOK
<1>2. CallerOK' /\ (record'.state = "saved" => record'.upload # NoUpload)
  BY <1>1, CallerKeeps
<1>3. CallOK'
  BY NumbersAreOne DEF Inv, TypeOK, CallOK, Pcs
<1>4. ListedPartsAreStored'
  BY ListedStays
<1>5. Named'
  BY <1>2 DEF Named
<1> QED BY <1>2, <1>3, <1>4, <1>5 DEF Inv, TypeOK

\* The same for a call that also removes its record.
LEMMA ReturnDroppingKeeps ==
    ASSUME Inv, NEW code \in Results, ReturnDropping(code), UNCHANGED service
    PROVE  Inv'
<1>1. NotWritten
  BY DEF ReturnDropping, DropRecord, NotWritten
<1>2. BudgetOK'
  BY EventType, CalmType DEF ReturnDropping, Inv, TypeOK
<1>3. ServiceOK' /\ Grows
  BY SameService DEF service, Inv, TypeOK, ServiceOK
<1> QED BY <1>1, <1>2, <1>3, ReturnKeeps DEF ReturnDropping

\* A step of a call that changes neither the lists nor what lies outside.
LEMMA GoOn ==
    ASSUME Inv, UNCHANGED <<outside, call, result>>,
           NotWritten, Grows, ServiceOK', BudgetOK',
           pc' \in Pcs,
           pc' \in {"open", "write", "put", "openAgain", "writeAgain"}
              => upload # NoUpload,
           pc' \in {"url", "put"} => part \in Parts,
           pc' \in {"idle", "load", "create", "hash", "rapid"}
              => upload = NoUpload
    PROVE  Inv'
<1> USE DEF outside, call, lists
<1>1. file' \in Versions /\ control' \in {"none", "stop", "cancel"}
  BY DEF Inv, TypeOK, CallerOK
<1>2. CallerOK' /\ (record'.state = "saved" => record'.upload # NoUpload)
  BY <1>1, CallerKeeps
<1>3. CallOK'
  BY DEF Inv, TypeOK, CallOK
<1>4. ListedPartsAreStored'
  BY ListedStays
<1>5. Named'
  BY <1>2 DEF Inv, Named
<1> QED BY <1>2, <1>3, <1>4, <1>5 DEF Inv, TypeOK

\* Such a step that leaves the record and the service alone too.
LEMMA GoOnCalmly ==
    ASSUME Inv, UNCHANGED <<outside, call, result, record, service>>, Calm,
           pc' \in Pcs \ {"open", "write", "put", "openAgain", "writeAgain",
                          "url", "idle", "load", "create", "hash", "rapid"}
    PROVE  Inv'
<1>1. ServiceOK' /\ Grows
  BY SameService DEF service, Inv, TypeOK, ServiceOK
<1>2. BudgetOK'
  BY CalmType DEF Inv, TypeOK
<1> QED BY <1>1, <1>2, GoOn DEF NotWritten

\* A call that ends and leaves the record and the service as they are.
LEMMA ReturnCalmly ==
    ASSUME Inv, NEW code \in Results, Return(code), BudgetOK',
           UNCHANGED <<record, service>>
    PROVE  Inv'
<1>1. ServiceOK' /\ Grows
  BY SameService DEF service, Inv, TypeOK, ServiceOK
<1> QED BY <1>1, ReturnKeeps DEF NotWritten

-----------------------------------------------------------------------------
(* validate and prepare. *)

LEMMA StartKeeps == ASSUME Inv, Start PROVE Inv'
<1> USE DEF Start, outside, service, lists
<1>1. file' \in Versions /\ control' \in {"none", "stop", "cancel"}
  BY DEF Inv, TypeOK, CallerOK
<1>2. CallerOK' /\ (record'.state = "saved" => record'.upload # NoUpload)
  BY <1>1, CallerKeeps DEF NotWritten
<1>3. CallOK'
  BY <1>1 DEF Inv, TypeOK, CallerOK, CallOK, Pcs, Results
<1>4. ServiceOK' /\ Grows
  BY SameService DEF Inv, TypeOK, ServiceOK
<1>5. BudgetOK'
  BY DEF Inv, TypeOK, BudgetOK
<1>6. ListedPartsAreStored'
  BY <1>4, ListedStays DEF NotWritten
<1>7. Named'
  BY <1>2 DEF Inv, Named, Idle
<1> QED BY <1>2, <1>3, <1>4, <1>5, <1>6, <1>7 DEF Inv, TypeOK

LEMMA LoadRecordKeeps == ASSUME Inv, LoadRecord PROVE Inv'
<1>1. /\ UNCHANGED <<outside, service, target, partsToUpload, outcomes, part,
                     hashed, result>>
      /\ pc = "load"
  BY DEF LoadRecord
<1>2. ServiceOK' /\ Grows
  BY <1>1, SameService DEF service, Inv, TypeOK, ServiceOK
<1>3. file' \in Versions /\ control' \in {"none", "stop", "cancel"}
  BY <1>1 DEF outside, Inv, TypeOK, CallerOK
<1>4. BudgetOK'
  BY EventType, CalmType DEF LoadRecord, Inv, TypeOK
<1>5. CASE RecordIsValid /\ upload' = record.upload
           /\ uploadedParts' = record.parts /\ pc' = "plan" /\ UNCHANGED record
  <2>1. record.upload \in 0 .. MaxUploads /\ record.parts \subseteq Entries
    BY DEF Inv, TypeOK, CallerOK, RecordFiles
  <2>2. CallOK'
    BY <1>1, <1>5, <2>1 DEF Inv, TypeOK, CallOK, Pcs
  <2>3. CallerOK' /\ (record'.state = "saved" => record'.upload # NoUpload)
    BY <1>1, <1>3, <1>5, CallerKeeps DEF NotWritten, outside
  <2>4. Named'
    BY <1>5, <2>3 DEF Named, RecordIsValid
  <2>5. ListedPartsAreStored'
    BY <1>1, <1>5 DEF service, Inv, ListedPartsAreStored, RecordIsValid
  <2> QED BY <1>2, <1>4, <2>2, <2>3, <2>4, <2>5 DEF Inv, TypeOK
<1>6. CASE NotWritten /\ pc' = "create" /\ UNCHANGED <<upload, uploadedParts>>
  <2>1. upload = NoUpload
    BY <1>1 DEF Inv, Named
  <2> QED BY <1>1, <1>2, <1>4, <1>6, <2>1, GoOn DEF call, lists, Pcs
<1> QED BY <1>5, <1>6 DEF LoadRecord, DropRecord, NotWritten

\* A new upload of the service, with no part yet, becomes the call's.
LEMMA NewUploadKeeps ==
    ASSUME Inv, NewUpload, Calm, pc \in {"create", "rapid"},
           UNCHANGED <<outside, record, published, lists, hashed, result, target>>
    PROVE  Inv'
<1>1. PICK u \in Uploads :
         /\ uploads' = [uploads EXCEPT ![u].state = "open"]
         /\ upload' = IF HasCheckpoint THEN u ELSE NoUpload
         /\ pc' = IF HasCheckpoint THEN "open" ELSE "plan"
  BY DEF NewUpload
<1>2. ServiceOK' /\ Grows
  BY <1>1, StateKeeps DEF Inv, TypeOK, ServiceOK
<1>3. file' \in Versions /\ control' \in {"none", "stop", "cancel"}
  BY DEF outside, Inv, TypeOK, CallerOK
<1>4. CallerOK' /\ (record'.state = "saved" => record'.upload # NoUpload)
  BY <1>3, CallerKeeps DEF NotWritten, outside
<1>5. CallOK'
  BY <1>1, NumbersAreOne DEF Inv, TypeOK, CallOK, Pcs, lists
<1>6. BudgetOK'
  BY CalmType DEF Inv, TypeOK
<1>7. uploadedParts' = {}
  BY DEF Inv, Named, lists
<1>8. ListedPartsAreStored'
  BY <1>2, <1>7, ListedStays DEF NotWritten
<1>9. Named'
  <2>1. pc' \in {"open", "plan"} /\ (pc' = "open" => upload' # NoUpload)
    BY <1>1, NumbersAreOne
  <2> QED BY <1>4, <1>7, <2>1 DEF Named
<1> QED BY <1>2, <1>4, <1>5, <1>6, <1>8, <1>9 DEF Inv, TypeOK

LEMMA CreateKeeps == ASSUME Inv, Create PROVE Inv'
<1>1. pc = "create" /\ UNCHANGED <<record, published>>
  BY DEF Create
<1>2. CASE NewUpload /\ Calm /\ UNCHANGED <<outside, lists, hashed, result, target>>
  BY <1>1, <1>2, NewUploadKeeps
<1>3. CASE /\ pc' = "hash" /\ Calm
           /\ UNCHANGED <<outside, uploads, call, result>>
  <2>1. ServiceOK' /\ Grows
    BY <1>1, <1>3, SameService DEF Inv, TypeOK, ServiceOK
  <2>2. BudgetOK'
    BY <1>3, CalmType DEF Inv, TypeOK
  <2>3. upload = NoUpload
    BY <1>1 DEF Inv, Named
  <2> QED BY <1>1, <1>3, <2>1, <2>2, <2>3, GoOn DEF NotWritten, Pcs
<1>4. CASE /\ \/ Event("service") /\ Return("ServiceError")
              \/ Event("exist") /\ Return("SameNameFileExist")
           /\ UNCHANGED uploads
  <2>1. BudgetOK'
    BY <1>4, EventType DEF Inv, TypeOK
  <2> QED BY <1>1, <1>4, <2>1, ReturnCalmly DEF service, Results
<1> QED BY <1>2, <1>3, <1>4 DEF Create

LEMMA ComputeSha1Keeps == ASSUME Inv, ComputeSha1 PROVE Inv'
<1> USE DEF ComputeSha1, outside, service, lists
<1>1. file' \in Versions /\ control' \in {"none", "stop", "cancel"}
  BY DEF Inv, TypeOK, CallerOK
<1>2. CallerOK' /\ (record'.state = "saved" => record'.upload # NoUpload)
  BY <1>1, CallerKeeps DEF NotWritten
<1>3. CallOK'
  <2>1. hashed' \in 0 .. NumVersions
    BY NumbersAreOne DEF Inv, TypeOK, CallerOK
  <2> QED BY <2>1 DEF Inv, TypeOK, CallOK, Pcs
<1>4. ServiceOK' /\ Grows
  BY SameService DEF Inv, TypeOK, ServiceOK
<1>5. BudgetOK'
  BY CalmType DEF Inv, TypeOK
<1>6. ListedPartsAreStored'
  BY <1>4, ListedStays DEF NotWritten
<1>7. Named'
  BY <1>2 DEF Inv, Named
<1> QED BY <1>2, <1>3, <1>4, <1>5, <1>6, <1>7 DEF Inv, TypeOK

LEMMA RapidCreateKeeps == ASSUME Inv, RapidCreate PROVE Inv'
<1>1. pc = "rapid" /\ UNCHANGED record
  BY DEF RapidCreate
<1>2. CASE /\ \E code \in {"stopped", "canceled"} : Return(code)
           /\ CalmEnd /\ UNCHANGED service
  <2>1. BudgetOK'
    BY <1>2, CalmType DEF Inv, TypeOK
  <2> QED BY <1>1, <1>2, <2>1, ReturnCalmly DEF Results
<1>3. CASE /\ hashed # NoVersion
           /\ published' = Content(hashed)
           /\ pc' = "rapidDone" /\ Calm
           /\ UNCHANGED <<outside, uploads, call, result>>
  <2>1. hashed \in Versions
    BY <1>3, VersionsAssumption
    DEF Inv, TypeOK, CallOK, NoVersion, Versions
  <2>2. ServiceOK' /\ Grows
    BY <1>3, <2>1, ContentType, SameService DEF Inv, TypeOK, ServiceOK
  <2>3. BudgetOK'
    BY <1>3, CalmType DEF Inv, TypeOK
  <2> QED BY <1>1, <1>3, <2>2, <2>3, GoOn DEF NotWritten, Pcs
<1>4. CASE /\ NewUpload /\ Calm
           /\ UNCHANGED <<outside, published, lists, hashed, result, target>>
  BY <1>1, <1>4, NewUploadKeeps
<1>5. CASE Event("service") /\ Return("ServiceError") /\ UNCHANGED service
  <2>1. BudgetOK'
    BY <1>5, EventType DEF Inv, TypeOK
  <2> QED BY <1>1, <1>5, <2>1, ReturnCalmly DEF Results
<1> QED BY <1>2, <1>3, <1>4, <1>5 DEF RapidCreate

LEMMA ReturnRapidKeeps == ASSUME Inv, ReturnRapid PROVE Inv'
<1>1. BudgetOK'
  BY CalmType DEF ReturnRapid, Inv, TypeOK
<1> QED BY <1>1, ReturnCalmly DEF ReturnRapid, Results

LEMMA OpenRecordKeeps == ASSUME Inv, OpenRecord PROVE Inv'
<1> USE DEF OpenRecord
<1>1. ServiceOK' /\ Grows
  BY SameService DEF service, Inv, TypeOK, ServiceOK
<1>2. BudgetOK'
  BY EventType, CalmType DEF Inv, TypeOK
<1>3. upload # NoUpload
  BY DEF Inv, Named
<1> QED BY <1>1, <1>2, <1>3, GoOn DEF NotWritten, Pcs

\* The record lists what the call lists, for the call's upload.
LEMMA WriteRecordKeeps == ASSUME Inv, WriteRecord PROVE Inv'
<1> USE DEF WriteRecord, outside, service, call, lists
<1>1. upload \in Uploads /\ upload # NoUpload
  BY NumbersAreOne DEF Inv, TypeOK, CallOK, Named
<1>2. /\ record' \in RecordFiles
      /\ record'.state = "saved" /\ record'.upload = upload
      /\ record'.parts = uploadedParts
  BY PartsAreNumbers DEF Saved, RecordFiles, Inv, TypeOK, CallOK
<1>3. CallerOK'
  <2>1. file' \in Versions /\ control' \in {"none", "stop", "cancel"}
    BY DEF Inv, TypeOK, CallerOK
  <2>2. enable' \in BOOLEAN
    BY Zenon DEF Inv, TypeOK, CallerOK
  <2> QED BY <1>2, <2>1, <2>2, Zenon DEF CallerOK
<1>4. CallOK'
  BY DEF Inv, TypeOK, CallOK, Pcs
<1>5. ServiceOK' /\ BudgetOK'
  BY CalmType DEF Inv, TypeOK, ServiceOK
<1>6. Named'
  BY <1>1, <1>2 DEF Inv, Named
<1>7. ListedPartsAreStored'
  BY <1>1, <1>2 DEF Inv, ListedPartsAreStored
<1> QED BY <1>3, <1>4, <1>5, <1>6, <1>7 DEF Inv, TypeOK

-----------------------------------------------------------------------------
(* The loop over the parts. *)

\* The lists of the call change while the record and the service stay.
LEMMA ListsChange ==
    ASSUME Inv, UNCHANGED <<outside, record, service, target, upload,
                            uploadedParts, outcomes, hashed, result>>,
           Calm, partsToUpload' \subseteq Parts, part' \in 0 .. MaxParts,
           pc' \in {"pop", "joined", "url"},
           pc' = "url" => part' \in Parts
    PROVE  Inv'
<1> USE DEF outside, service
<1>1. file' \in Versions /\ control' \in {"none", "stop", "cancel"}
  BY DEF Inv, TypeOK, CallerOK
<1>2. CallerOK' /\ (record'.state = "saved" => record'.upload # NoUpload)
  BY <1>1, CallerKeeps DEF NotWritten
<1>3. CallOK'
  BY DEF Inv, TypeOK, CallOK, Pcs
<1>4. ServiceOK' /\ Grows
  BY SameService DEF Inv, TypeOK, ServiceOK
<1>5. BudgetOK'
  BY CalmType DEF Inv, TypeOK
<1>6. ListedPartsAreStored'
  BY <1>4, ListedStays DEF NotWritten
<1>7. Named'
  BY <1>2 DEF Inv, Named
<1> QED BY <1>2, <1>3, <1>4, <1>5, <1>6, <1>7 DEF Inv, TypeOK

LEMMA PlanKeeps == ASSUME Inv, Plan PROVE Inv'
<1>1. ToUpload \subseteq Parts
  BY PartsAreNumbers DEF ToUpload, Inv, TypeOK, CallOK
<1>2. part \in 0 .. MaxParts
  BY DEF Inv, TypeOK, CallOK
<1> QED BY <1>1, <1>2, ListsChange DEF Plan

LEMMA PopKeeps == ASSUME Inv, Pop PROVE Inv'
<1> USE DEF Pop
<1>1. partsToUpload \subseteq Parts /\ part \in 0 .. MaxParts
  BY DEF Inv, TypeOK, CallOK
<1>2. partsToUpload' \subseteq Parts
  BY <1>1 DEF Take
<1>3. /\ part' \in 0 .. MaxParts /\ pc' \in {"joined", "url"}
      /\ pc' = "url" => part' \in Parts
  BY <1>1, NumbersAreOne
<1> QED BY <1>2, <1>3, ListsChange

LEMMA GetUrlKeeps == ASSUME Inv, GetUrl PROVE Inv'
<1>1. pc = "url" /\ UNCHANGED <<record, service>>
  BY DEF GetUrl
<1>2. CASE /\ IsOpen /\ pc' = "put" /\ Calm
           /\ UNCHANGED <<outside, call, result>>
  <2>1. ServiceOK' /\ Grows
    BY <1>1, SameService DEF service, Inv, TypeOK, ServiceOK
  <2>2. BudgetOK'
    BY <1>2, CalmType DEF Inv, TypeOK
  <2>3. part \in Parts /\ upload # NoUpload
    BY <1>1, <1>2 DEF Inv, Named, IsOpen
  <2> QED BY <1>1, <1>2, <2>1, <2>2, <2>3, GoOn DEF NotWritten, Pcs
<1>3. CASE (Event("service") \/ CalmEnd) /\ Return("ServiceError")
  <2>1. BudgetOK'
    BY <1>3, EventType, CalmType DEF Inv, TypeOK
  <2> QED BY <1>1, <1>3, <2>1, ReturnCalmly DEF Results
<1> QED BY <1>2, <1>3 DEF GetUrl

\* The outcome of a PUT: a part that is listed now is stored.
LEMMA AnswerKeeps ==
    ASSUME Inv, pc = "put", NEW ok \in BOOLEAN, NEW crc \in 0 .. NumVersions,
           Answer(ok, crc), part' = NoPart,
           UNCHANGED <<outside, record, published, target, upload,
                       partsToUpload, hashed, result>>,
           ServiceOK', BudgetOK', Grows,
           ok => uploads'[upload].parts[part] # Hole
    PROVE  Inv'
<1> USE DEF outside
<1>1. /\ upload # NoUpload /\ upload \in Uploads /\ part \in Parts
      /\ Entry(part, crc) \in Entries /\ Entry(part, crc).partNumber = part
  BY NumbersAreOne, EntryType DEF Inv, TypeOK, CallOK, Named
<1>2. file' \in Versions /\ control' \in {"none", "stop", "cancel"}
  BY DEF Inv, TypeOK, CallerOK
<1>3. CallerOK' /\ (record'.state = "saved" => record'.upload # NoUpload)
  BY <1>2, CallerKeeps DEF NotWritten
<1>4. /\ pc' \in {"openAgain", "pop"}
      /\ uploadedParts' \in {uploadedParts, uploadedParts \cup {Entry(part, crc)}}
      /\ ok \/ uploadedParts' = uploadedParts
  BY DEF Answer
<1>5. outcomes' \in [size : Nat, failure : {"none", "PutError"}]
  BY DEF Answer, Inv, TypeOK, CallOK
<1>6. CallOK'
  BY <1>1, <1>4, <1>5, NumbersAreOne DEF Inv, TypeOK, CallOK, Pcs
<1>7. Named'
  BY <1>1, <1>3, <1>4 DEF Named
<1>8. \A e \in uploadedParts : uploads'[upload].parts[e.partNumber] # Hole
  BY <1>1 DEF Inv, ListedPartsAreStored, Grows, TypeOK, CallOK, Entries
<1>9. \A e \in uploadedParts' : uploads'[upload'].parts[e.partNumber] # Hole
  BY <1>1, <1>4, <1>8
<1>10. record.state = "saved" =>
          \A e \in record.parts :
             record.upload \in Uploads /\ e.partNumber \in Parts
  BY NumbersAreOne DEF Inv, TypeOK, CallerOK, RecordFiles, Entries, Named
<1>11. record'.state = "saved" =>
          \A e \in record'.parts :
             uploads'[record'.upload].parts[e.partNumber] # Hole
  BY <1>10 DEF Inv, ListedPartsAreStored, Grows
<1>12. ListedPartsAreStored'
  BY <1>9, <1>11 DEF ListedPartsAreStored
<1> QED BY <1>3, <1>6, <1>7, <1>12 DEF Inv, TypeOK

\* What the service may do with a PUT.
LEMMA PutService ==
    ASSUME Inv, pc = "put", UNCHANGED published,
           UNCHANGED uploads \/ (CanPut /\ Put)
    PROVE  ServiceOK' /\ Grows
<1>1. part \in Parts
  BY DEF Inv, Named
<1>2. CASE UNCHANGED uploads
  BY <1>2, SameService DEF Inv, TypeOK, ServiceOK
<1>3. CASE CanPut /\ Put
  BY <1>1, <1>3, PutKeeps DEF CanPut, Inv, TypeOK, ServiceOK
<1> QED BY <1>2, <1>3

LEMMA PutStores ==
    ASSUME Inv, pc = "put", CanPut, Put
    PROVE  /\ uploads'[upload].parts[part] # Hole
           /\ uploads'[upload].parts[part] \in 0 .. NumVersions
<1>1. part \in Parts
  BY DEF Inv, Named
<1>2. uploads'[upload].parts[part] = file
  BY <1>1, PutKeeps DEF CanPut
<1>3. file \in Versions
  BY DEF Inv, TypeOK, CallerOK
<1> QED BY <1>2, <1>3, NumbersAreOne

LEMMA PutSucceedsKeeps == ASSUME Inv, PutSucceeds PROVE Inv'
<1> USE DEF PutSucceeds
<1>1. ServiceOK' /\ Grows
  BY PutService
<1>2. uploads'[upload].parts[part] # Hole
  BY PutStores
<1>3. BudgetOK'
  BY CalmType DEF Inv, TypeOK
<1>4. file \in 0 .. NumVersions
  BY NumbersAreOne DEF Inv, TypeOK, CallerOK
<1> QED BY <1>1, <1>2, <1>3, <1>4, AnswerKeeps

LEMMA PutFindsPartKeeps == ASSUME Inv, PutFindsPart PROVE Inv'
<1> USE DEF PutFindsPart
<1>1. ServiceOK' /\ Grows
  BY PutService
<1>2. BudgetOK'
  BY EventType, CalmType DEF Inv, TypeOK
<1>3. /\ uploads'[upload].parts[part] # Hole
      /\ uploads'[upload].parts[part] \in 0 .. NumVersions
  <2>1. CASE IsThere /\ UNCHANGED uploads
    <3>1. upload \in Uploads /\ part \in Parts
      BY NumbersAreOne DEF Inv, TypeOK, CallOK, Named
    <3>2. uploads[upload].parts[part] \in 0 .. NumVersions
      BY <3>1, NumbersAreOne DEF Inv, TypeOK, ServiceOK, Contents
    <3> QED BY <2>1, <3>2 DEF IsThere
  <2>2. CASE Put
    BY <2>2, PutStores
  <2> QED BY <2>1, <2>2
<1>4. PICK crc \in {NoCrc, uploads'[upload].parts[part]} : Answer(TRUE, crc)
  OBVIOUS
<1>5. crc \in 0 .. NumVersions
  BY <1>3, VersionsAssumption DEF NoCrc
<1> QED BY <1>1, <1>2, <1>3, <1>4, <1>5, AnswerKeeps

LEMMA PutFailsKeeps == ASSUME Inv, PutFails PROVE Inv'
<1> USE DEF PutFails
<1>1. ServiceOK' /\ Grows
  BY PutService
<1>2. BudgetOK'
  BY EventType, CalmType DEF Inv, TypeOK
<1>3. NoCrc \in 0 .. NumVersions
  BY VersionsAssumption DEF NoCrc
<1> QED BY <1>1, <1>2, <1>3, AnswerKeeps

-----------------------------------------------------------------------------
(* After the loop. *)

LEMMA CheckEnableKeeps == ASSUME Inv, CheckEnable PROVE Inv'
<1> USE DEF CheckEnable
<1>1. CASE enable
  BY <1>1, GoOnCalmly DEF Pcs
<1>2. CASE ~enable
  <2>1. BudgetOK'
    BY <1>2, CalmType DEF Inv, TypeOK
  <2> QED BY <1>2, <2>1, ReturnCalmly DEF Results
<1> QED BY <1>1, <1>2

LEMMA CheckControlKeeps == ASSUME Inv, CheckControl PROVE Inv'
<1> USE DEF CheckControl
<1>1. CASE /\ pc' = "verify" /\ Calm
           /\ UNCHANGED <<outside, call, result, record>>
  BY <1>1, GoOnCalmly DEF Pcs
<1>2. CASE Return("stopped") /\ CalmEnd /\ UNCHANGED record
  <2>1. BudgetOK'
    BY <1>2, CalmType DEF Inv, TypeOK
  <2> QED BY <1>2, <2>1, ReturnCalmly DEF Results
<1>3. CASE ReturnDropping("canceled")
  BY <1>3, ReturnDroppingKeeps DEF Results
<1> QED BY <1>1, <1>2, <1>3

LEMMA CheckOutcomesKeeps == ASSUME Inv, CheckOutcomes PROVE Inv'
<1> USE DEF CheckOutcomes
<1>1. Verdict \in Results
  BY DEF Verdict, Results, Inv, TypeOK, CallOK
<1>2. CASE Verdict = "none"
  BY <1>2, GoOnCalmly DEF Pcs
<1>3. CASE Verdict # "none"
  <2>1. BudgetOK'
    BY <1>3, CalmType DEF Inv, TypeOK
  <2> QED BY <1>1, <1>3, <2>1, ReturnCalmly
<1> QED BY <1>2, <1>3

\* The service publishes the parts of an upload.
LEMMA PublishKeeps ==
    ASSUME Inv, Publish
    PROVE  ServiceOK' /\ Grows
<1>1. upload \in Uploads
  BY NumbersAreOne DEF Inv, TypeOK, CallOK, Publish, IsOpen
<1>2. uploads' = [uploads EXCEPT ![upload].state = "completed"]
  BY DEF Publish
<1>3. /\ uploads' \in [Uploads ->
             [state : {"unused", "open", "completed", "gone"},
              parts : Contents]]
      /\ Grows
  BY <1>1, <1>2, StateKeeps DEF Inv, TypeOK
<1>4. published' \in Contents
  BY <1>1 DEF Publish, Inv, TypeOK, ServiceOK
<1> QED BY <1>3, <1>4 DEF ServiceOK

LEMMA CompleteKeeps == ASSUME Inv, Complete PROVE Inv'
<1>1. UNCHANGED <<outside, record, call, result>>
  BY DEF Complete
<1>2. pc' \in {"answered", "refused"}
  BY DEF Complete
<1>3. ServiceOK' /\ Grows
  <2>1. CASE Publish
    BY <2>1, PublishKeeps
  <2>2. CASE UNCHANGED service
    BY <2>2, SameService DEF service, Inv, TypeOK, ServiceOK
  <2> QED BY <2>1, <2>2 DEF Complete
<1>4. BudgetOK'
  BY EventType, CalmType DEF Complete, Inv, TypeOK
<1> QED BY <1>1, <1>2, <1>3, <1>4, GoOn DEF NotWritten, Pcs

LEMMA ReturnRefusedKeeps == ASSUME Inv, ReturnRefused PROVE Inv'
BY ReturnDroppingKeeps DEF ReturnRefused, Results

LEMMA CheckAnswerKeeps == ASSUME Inv, CheckAnswer PROVE Inv'
<1>1. UNCHANGED service
  BY DEF CheckAnswer
<1>2. CASE /\ Return("FileSizeCheckError") /\ CalmEnd /\ UNCHANGED record
  <2>1. BudgetOK'
    BY <1>2, CalmType DEF Inv, TypeOK
  <2> QED BY <1>1, <1>2, <2>1, ReturnCalmly DEF Results
<1>3. CASE /\ pc' \in {"finish", "checkHash", "crcDiffers"} /\ Calm
           /\ UNCHANGED <<outside, call, result, record>>
  BY <1>1, <1>3, GoOnCalmly DEF Pcs
<1> QED BY <1>2, <1>3 DEF CheckAnswer

LEMMA ReadFirstOfNoneKeeps == ASSUME Inv, ReadFirstOfNone PROVE Inv'
<1>1. BudgetOK'
  BY CalmType DEF ReadFirstOfNone, Inv, TypeOK
<1> QED BY <1>1, ReturnCalmly DEF ReadFirstOfNone, Results

LEMMA ReturnCrcDiffersKeeps == ASSUME Inv, ReturnCrcDiffers PROVE Inv'
BY ReturnDroppingKeeps DEF ReturnCrcDiffers, Results

LEMMA CompareSha1Keeps == ASSUME Inv, CompareSha1 PROVE Inv'
<1>1. UNCHANGED service
  BY DEF CompareSha1
<1>2. CASE /\ \E code \in {"stopped", "canceled"} : Return(code)
           /\ CalmEnd /\ UNCHANGED record
  <2>1. BudgetOK'
    BY <1>2, CalmType DEF Inv, TypeOK
  <2> QED BY <1>1, <1>2, <2>1, ReturnCalmly DEF Results
<1>3. CASE /\ pc' = "finish" /\ Calm
           /\ UNCHANGED <<outside, call, result, record>>
  BY <1>1, <1>3, GoOnCalmly DEF Pcs
<1>4. CASE ReturnDropping("Sha1CheckError")
  BY <1>1, <1>4, ReturnDroppingKeeps DEF Results
<1> QED BY <1>2, <1>3, <1>4 DEF CompareSha1

LEMMA FinishKeeps == ASSUME Inv, Finish PROVE Inv'
BY ReturnDroppingKeeps DEF Finish, Results

-----------------------------------------------------------------------------
(* The environment. *)

\* The caller acts, or the file changes: the call and the service stay.
LEMMA OutsideKeeps ==
    ASSUME Inv, UNCHANGED <<record, service, pc, call, result>>, BudgetOK',
           file' \in Versions, enable' \in {enable, TRUE, FALSE},
           control' \in {"none", "stop", "cancel"}
    PROVE  Inv'
<1> USE DEF service, call, lists
<1>1. CallerOK' /\ (record'.state = "saved" => record'.upload # NoUpload)
  BY CallerKeeps DEF NotWritten
<1>2. CallOK'
  BY DEF Inv, TypeOK, CallOK
<1>3. ServiceOK'
  BY DEF Inv, TypeOK, ServiceOK
<1>4. Named'
  BY <1>1 DEF Inv, Named
<1>5. ListedPartsAreStored'
  BY DEF Inv, ListedPartsAreStored
<1> QED BY <1>1, <1>2, <1>3, <1>4, <1>5 DEF Inv, TypeOK

LEMMA AskToQuitKeeps == ASSUME Inv, AskToQuit PROVE Inv'
<1>1. BudgetOK'
  BY EventType DEF AskToQuit, Inv, TypeOK
<1>2. /\ file' \in Versions /\ control' \in {"none", "stop", "cancel"}
      /\ UNCHANGED <<record, service, pc, call, result>>
  BY DEF AskToQuit, Inv, TypeOK, CallerOK
<1>3. enable' \in {enable, TRUE, FALSE}
  BY Zenon DEF AskToQuit
<1> QED BY <1>1, <1>2, <1>3, OutsideKeeps

LEMMA WithdrawKeeps == ASSUME Inv, Withdraw PROVE Inv'
<1>1. BudgetOK'
  BY EventType DEF Withdraw, Inv, TypeOK
<1>2. file' \in Versions
  BY DEF Withdraw, Inv, TypeOK, CallerOK
<1> QED BY <1>1, <1>2, OutsideKeeps DEF Withdraw

LEMMA ChangeFileKeeps == ASSUME Inv, ChangeFile PROVE Inv'
<1>1. BudgetOK'
  BY EventType DEF ChangeFile, Inv, TypeOK
<1>2. file' \in Versions
  BY VersionsAssumption DEF ChangeFile, Versions, Inv, TypeOK, CallerOK
<1>3. control' \in {"none", "stop", "cancel"}
  BY DEF ChangeFile, Inv, TypeOK, CallerOK
<1> QED BY <1>1, <1>2, <1>3, OutsideKeeps DEF ChangeFile

LEMMA ExpireUploadKeeps == ASSUME Inv, ExpireUpload PROVE Inv'
<1> USE DEF outside, call, lists
<1>1. PICK u \in Uploads : uploads' = [uploads EXCEPT ![u].state = "gone"]
  BY DEF ExpireUpload
<1>2. UNCHANGED <<outside, record, published, pc, call, result>>
  BY DEF ExpireUpload
<1>3. ServiceOK' /\ Grows
  BY <1>1, <1>2, StateKeeps DEF Inv, TypeOK, ServiceOK
<1>4. BudgetOK'
  BY EventType DEF ExpireUpload, Inv, TypeOK
<1>5. file' \in Versions /\ control' \in {"none", "stop", "cancel"}
  BY <1>2 DEF Inv, TypeOK, CallerOK
<1>6. CallerOK' /\ (record'.state = "saved" => record'.upload # NoUpload)
  BY <1>2, <1>5, CallerKeeps DEF NotWritten
<1>7. CallOK'
  BY <1>2 DEF Inv, TypeOK, CallOK
<1>8. Named'
  BY <1>2, <1>6 DEF Inv, Named
<1>9. ListedPartsAreStored'
  BY <1>2, <1>3, ListedStays DEF NotWritten
<1> QED BY <1>3, <1>4, <1>6, <1>7, <1>8, <1>9 DEF Inv, TypeOK

LEMMA CrashKeeps == ASSUME Inv, Crash PROVE Inv'
<1>1. BudgetOK'
  BY EventType DEF Crash, Inv, TypeOK
<1>2. ServiceOK' /\ Grows
  <2>1. CASE UNCHANGED service
    BY <2>1, SameService DEF service, Inv, TypeOK, ServiceOK
  <2>2. CASE pc = "put" /\ CanPut /\ Put /\ UNCHANGED published
    BY <2>2, PutService
  <2>3. CASE Publish
    BY <2>3, PublishKeeps
  <2> QED BY <2>1, <2>2, <2>3 DEF Crash
<1>3. Return("none") /\ UNCHANGED record
  BY DEF Crash
<1> QED BY <1>1, <1>2, <1>3, ReturnKeeps DEF NotWritten, Results

-----------------------------------------------------------------------------
LEMMA InitInv == ASSUME Init PROVE Inv
<1> USE DEF Init
<1>1. CallerOK
  BY PartsAreNumbers, RecordTypes DEF CallerOK
<1>2. ServiceOK
  BY ContentType DEF ServiceOK, Unused
<1>3. CallOK
  BY PartsAreNumbers, NumbersAreOne DEF CallOK, Pcs, Results
<1>4. BudgetOK
  BY DEF BudgetOK
<1>5. Named
  BY RecordTypes DEF Named
<1>6. ListedPartsAreStored
  BY RecordTypes DEF ListedPartsAreStored
<1> QED BY <1>1, <1>2, <1>3, <1>4, <1>5, <1>6 DEF Inv, TypeOK

LEMMA StepKeeps == ASSUME Inv, Step PROVE Inv'
BY LoadRecordKeeps, CreateKeeps, ComputeSha1Keeps, RapidCreateKeeps,
   ReturnRapidKeeps, OpenRecordKeeps, WriteRecordKeeps, PlanKeeps, PopKeeps,
   GetUrlKeeps, PutSucceedsKeeps, PutFindsPartKeeps, PutFailsKeeps,
   CheckEnableKeeps, CheckControlKeeps, CheckOutcomesKeeps, CompleteKeeps,
   ReturnRefusedKeeps, CheckAnswerKeeps, ReadFirstOfNoneKeeps,
   ReturnCrcDiffersKeeps, CompareSha1Keeps, FinishKeeps, Zenon
DEF Step

LEMMA NextInv == ASSUME Inv, [Next]_vars PROVE Inv'
<1>1. CASE Start
  BY <1>1, StartKeeps
<1>2. CASE Step
  BY <1>2, StepKeeps
<1>3. CASE Environment
  BY <1>3, AskToQuitKeeps, WithdrawKeeps, ChangeFileKeeps, ExpireUploadKeeps,
     CrashKeeps, Zenon DEF Environment
<1>4. CASE UNCHANGED vars
  <2> USE <1>4 DEF vars, outside, service, call, lists, budget
  <2>1. TypeOK'
    BY DEF Inv, TypeOK, CallerOK, ServiceOK, CallOK, BudgetOK
  <2>2. Named' /\ ListedPartsAreStored'
    BY DEF Inv, Named, ListedPartsAreStored
  <2> QED BY <2>1, <2>2 DEF Inv
<1> QED BY <1>1, <1>2, <1>3, <1>4, Zenon DEF Next

LEMMA Invariance == Spec => []Inv
<1>1. Init => Inv
  BY InitInv
<1>2. Inv /\ [Next]_vars => Inv'
  BY NextInv
<1> QED BY <1>1, <1>2, PTL DEF Spec

\* Every variable of the uploader, of its record and of the service has its
\* type in every reachable state (ResumableUploader::Upload and what it calls).
THEOREM UploadTypeCorrect == Spec => []TypeOK
<1>1. Inv => TypeOK
  BY DEF Inv
<1> QED BY <1>1, Invariance, PTL

\* A part that the record file or the running call lists as uploaded is with
\* the service, whatever was lost, repeated, resumed or crashed: the loop of
\* Upload lists a part only after a PUT that stored it or found it stored.
THEOREM ListedPartsStayStored == Spec => []ListedPartsAreStored
<1>1. Inv => ListedPartsAreStored
  BY DEF Inv
<1> QED BY <1>1, Invariance, PTL

-----------------------------------------------------------------------------
(* Whole versions.                                                         *)

VersionsDiffer ==
    \A v, w \in Versions : PartCount[v] = PartCount[w] /\ FileMtime[v] = FileMtime[w] => v = w

(* The record was written for version v. *)
IsFor(v) == record.state = "saved" /\ record.size = PartCount[v] /\ record.mtime = FileMtime[v]

(* The local file only goes forward, and so does what calls and records are about. *)
Ordered ==
    /\ target <= file
    /\ hashed # NoVersion => target <= hashed /\ hashed <= file
    /\ record.state = "saved" => \E v \in Versions : v <= target /\ IsFor(v)
    /\ pc \in {"idle", "load"} => hashed = NoVersion

(* What an upload of the version the local file has now may hold. *)
OfFile(u) ==
    \A p \in Parts : uploads[u].parts[p] # Hole => uploads[u].parts[p] = file /\ p <= PartCount[file]
Clean(u) ==
    /\ uploads[u].state # "unused"
    /\ OfFile(u)
    /\ uploads[u].state = "completed" => published = uploads[u].parts

(* A record, or a call, that is about that version names such an upload, and both name the same one. *)
FreshEmpty == \A u \in Uploads : uploads[u].state = "unused" => uploads[u].parts = EmptyFile
Agreed ==
    /\ FreshEmpty
    /\ IsFor(file) => Clean(record.upload)
    /\ target = file /\ upload # NoUpload => Clean(upload) /\ (IsFor(file) => record.upload = upload)
    /\ target = file /\ pc \in {"create", "hash", "rapid"} => ~IsFor(file)

(* How far the call has come. *)
Progress ==
    /\ pc \in {"answered", "checkHash", "compare", "crcDiffers", "finish"}
          => upload # NoUpload /\ uploads[upload].state = "completed"
    /\ pc \in {"checkHash", "compare", "crcDiffers", "finish"} => SizeMatches
    /\ pc = "rapidDone" => hashed # NoVersion /\ published = Content(hashed)
    /\ pc # "idle" => result = "none"

WholeInv == Inv /\ Ordered /\ Agreed /\ Progress /\ OkMeansWhole

(* What a step may do to the service: the uploads that matter stay clean. *)
Concerned(u) == (IsFor(file) /\ u = record.upload) \/ (target = file /\ u = upload)
Tame == FreshEmpty' /\ \A u \in Uploads : Concerned(u) /\ Clean(u) => Clean(u)'

-----------------------------------------------------------------------------
(* What the invariant says of the record and of a whole upload. *)

LEMMA UploadsInRange ==
    ASSUME Inv
    PROVE  /\ upload # NoUpload => upload \in Uploads
           /\ record.state = "saved" => record.upload \in Uploads
           /\ file \in Versions /\ target \in Versions /\ Versions \subseteq Nat
BY NumbersAreOne DEF Inv, TypeOK, CallOK, CallerOK, RecordFiles, Named, Versions

\* A record that is for the version of now was written for the version the last call worked with.
LEMMA RecordOfNow ==
    ASSUME WholeInv, VersionsDiffer, IsFor(file)
    PROVE  target = file
<1>1. file \in Versions /\ target \in Versions /\ Versions \subseteq Nat
  BY UploadsInRange DEF WholeInv
<1>2. PICK v \in Versions : v <= target /\ IsFor(v)
  BY DEF WholeInv, Ordered, IsFor
<1>3. v = file
  BY <1>1, <1>2 DEF IsFor, VersionsDiffer
<1> QED BY <1>1, <1>2, <1>3 DEF WholeInv, Ordered

\* An upload of as many parts as the version has, all of them of this version, is the version.
LEMMA FullIsWhole ==
    ASSUME Inv, NEW u \in Uploads, OfFile(u), Size(uploads[u].parts) = PartCount[file]
    PROVE  uploads[u].parts = Content(file)
<1> DEFINE held == {p \in Parts : uploads[u].parts[p] # Hole}
<1>1. file \in Versions /\ PartCount[file] \in Nat /\ 1 .. PartCount[file] \subseteq Parts
  BY UploadsInRange, PartsAreNumbers
<1>2. held \in SUBSET (1 .. PartCount[file])
  BY <1>1, PartsAreNumbers DEF OfFile, Parts
<1>3. IsFiniteSet(1 .. PartCount[file]) /\ Cardinality(1 .. PartCount[file]) = PartCount[file]
  BY <1>1, FS_Interval
<1>4. held = 1 .. PartCount[file]
  BY <1>2, <1>3, FS_Subset DEF Size
<1>5. uploads[u].parts \in [Parts -> {Hole} \cup Versions]
  BY DEF Inv, TypeOK, ServiceOK, Contents
<1>6. \A p \in Parts : uploads[u].parts[p] = IF p <= PartCount[file] THEN file ELSE Hole
  BY <1>1, <1>4, PartsAreNumbers DEF OfFile, Parts
<1> QED BY <1>5, <1>6 DEF Content

-----------------------------------------------------------------------------
(* Steps by what they leave alone. *)

\* A step within a call.
LEMMA WithinCall ==
    ASSUME WholeInv, VersionsDiffer, Inv', Progress', Tame, NotWritten,
           UNCHANGED <<file, target, upload, result>>, hashed' \in {hashed, file, NoVersion},
           pc # "idle", pc' # "idle", pc' = "load" => hashed' = NoVersion,
           pc' \in {"create", "hash", "rapid"} => pc \in {"create", "hash", "rapid"}
    PROVE  WholeInv'
<1>1. /\ file \in Versions /\ target \in Versions /\ Versions \subseteq Nat
      /\ upload # NoUpload => upload \in Uploads
      /\ record.state = "saved" => record.upload \in Uploads
  BY UploadsInRange DEF WholeInv
<1>2. record'.state = "saved" => record' = record
  BY RecordTypes DEF NotWritten
<1>3. Ordered'
  BY <1>1, <1>2 DEF WholeInv, Ordered, IsFor
<1>4. IsFor(file)' => IsFor(file) /\ record' = record
  BY <1>2 DEF IsFor
<1>5. IsFor(file)' => Clean(record.upload)'
  BY <1>1, <1>4 DEF WholeInv, Agreed, Tame, Concerned, IsFor
<1>6. target = file /\ upload # NoUpload => Clean(upload)'
  BY <1>1 DEF WholeInv, Agreed, Tame, Concerned
<1>7. Agreed'
  BY <1>4, <1>5, <1>6 DEF WholeInv, Agreed, Tame
<1>8. OkMeansWhole'
  BY DEF WholeInv, Progress, OkMeansWhole
<1> QED BY <1>3, <1>7, <1>8 DEF WholeInv

\* The end of a call.
LEMMA CallEnds ==
    ASSUME WholeInv, VersionsDiffer, Inv', Tame, NotWritten, NEW code, Return(code),
           code = "ok" /\ file = target => published' = Content(target)
    PROVE  WholeInv'
<1> USE DEF Return, Forget
<1>1. /\ file \in Versions /\ target \in Versions /\ Versions \subseteq Nat
      /\ record.state = "saved" => record.upload \in Uploads
  BY UploadsInRange DEF WholeInv
<1>2. record'.state = "saved" => record' = record
  BY RecordTypes DEF NotWritten
<1>3. Ordered'
  BY <1>1, <1>2 DEF WholeInv, Ordered, IsFor
<1>4. IsFor(file)' => IsFor(file) /\ record' = record
  BY <1>2 DEF IsFor
<1>5. IsFor(file)' => Clean(record.upload)'
  BY <1>1, <1>4 DEF WholeInv, Agreed, Tame, Concerned, IsFor
<1>6. Agreed'
  BY <1>5 DEF Agreed, Tame
<1>7. Progress' /\ OkMeansWhole'
  BY DEF Progress, OkMeansWhole
<1> QED BY <1>3, <1>6, <1>7 DEF WholeInv

\* The service does nothing.
LEMMA ServiceRests ==
    ASSUME WholeInv, UNCHANGED <<file, service>>
    PROVE  Tame
BY DEF WholeInv, Agreed, FreshEmpty, Tame, Clean, OfFile, service

LEMMA EndsQuietly ==
    ASSUME WholeInv, VersionsDiffer, Inv', UNCHANGED service, NotWritten,
           NEW code, code # "ok", Return(code)
    PROVE  WholeInv'
BY ServiceRests, CallEnds DEF Return, Forget

LEMMA EndsDropping ==
    ASSUME WholeInv, VersionsDiffer, Inv', UNCHANGED service,
           NEW code, ReturnDropping(code), code = "ok" /\ file = target => published = Content(target)
    PROVE  WholeInv'
<1>1. NotWritten
  BY DEF ReturnDropping, DropRecord, NotWritten
<1> QED BY <1>1, ServiceRests, CallEnds DEF ReturnDropping, Return, Forget, service

\* A step within a call that neither asks the service nor reports progress.
LEMMA GoesOn ==
    ASSUME WholeInv, VersionsDiffer, Inv', UNCHANGED service, NotWritten,
           UNCHANGED <<file, target, upload, hashed, result>>,
           pc # "idle",
           pc' \notin {"idle", "load", "rapidDone", "answered", "checkHash", "compare", "crcDiffers", "finish"},
           pc' \in {"create", "hash", "rapid"} => pc \in {"create", "hash", "rapid"}
    PROVE  WholeInv'
<1>1. Progress'
  BY DEF WholeInv, Progress
<1> QED BY <1>1, ServiceRests, WithinCall

\* A PUT of the file as it is now, of a part that it has.
LEMMA PutIsTame ==
    ASSUME WholeInv, CanPut, Put, part \in Parts, UNCHANGED <<file, published>>
    PROVE  Tame
<1>1. upload \in Uploads /\ file \in Versions
  BY UploadsInRange DEF WholeInv, CanPut, IsOpen
<1>2. /\ \A u \in Uploads : uploads'[u].state = uploads[u].state
      /\ \A u \in Uploads \ {upload} : uploads'[u] = uploads[u]
      /\ \A p \in Parts : uploads'[upload].parts[p] = IF p = part THEN file ELSE uploads[upload].parts[p]
  BY <1>1 DEF Put, WholeInv, Inv, TypeOK, ServiceOK, Contents
<1>3. FreshEmpty'
  BY <1>1, <1>2 DEF WholeInv, Agreed, FreshEmpty, CanPut, IsOpen
<1>4. \A u \in Uploads : Clean(u) => Clean(u)'
  BY <1>1, <1>2 DEF Clean, OfFile, CanPut, IsOpen
<1> QED BY <1>3, <1>4 DEF Tame

\* The upload of the call becomes the file.
LEMMA PublishIsTame ==
    ASSUME WholeInv, VersionsDiffer, Publish, UNCHANGED file
    PROVE  /\ Tame /\ upload # NoUpload
           /\ uploads'[upload].state = "completed"
<1>1. upload \in Uploads /\ upload # NoUpload
  BY UploadsInRange DEF WholeInv, Publish, IsOpen
<1>2. /\ \A u \in Uploads : uploads'[u].parts = uploads[u].parts
      /\ \A u \in Uploads \ {upload} : uploads'[u] = uploads[u]
      /\ uploads'[upload].state = "completed" /\ published' = uploads[upload].parts
  BY <1>1 DEF Publish, WholeInv, Inv, TypeOK, ServiceOK
<1>3. FreshEmpty'
  BY <1>1, <1>2 DEF WholeInv, Agreed, FreshEmpty
<1>4. \A u \in Uploads : Concerned(u) => u = upload
  BY <1>1, RecordOfNow DEF Concerned, WholeInv, Agreed
<1>5. \A u \in Uploads : u = upload /\ Clean(u) => Clean(u)'
  BY <1>1, <1>2 DEF Clean, OfFile
<1> QED BY <1>1, <1>2, <1>3, <1>4, <1>5 DEF Tame

-----------------------------------------------------------------------------
(* The steps of a call up to the loop. *)

LEMMA StartWhole == ASSUME WholeInv, VersionsDiffer, Start PROVE WholeInv'
<1> USE DEF Start, Idle, outside, service, lists
<1>1. Inv'
  BY StartKeeps DEF WholeInv
<1>2. /\ file \in Versions /\ target \in Versions /\ Versions \subseteq Nat
      /\ record.state = "saved" => record.upload \in Uploads
  BY UploadsInRange DEF WholeInv
<1>3. Ordered'
  BY <1>2 DEF WholeInv, Ordered, IsFor
<1>4. upload' = NoUpload
  BY DEF WholeInv, Inv, Named
<1>5. Agreed'
  BY <1>2, <1>4 DEF WholeInv, Agreed, FreshEmpty, IsFor, Clean, OfFile
<1>6. Progress' /\ OkMeansWhole'
  BY DEF Progress, OkMeansWhole
<1> QED BY <1>1, <1>3, <1>5, <1>6 DEF WholeInv

LEMMA LoadRecordWhole == ASSUME WholeInv, VersionsDiffer, LoadRecord PROVE WholeInv'
<1> USE DEF outside, service
<1>1. Inv' /\ pc = "load" /\ UNCHANGED <<outside, service, target, hashed, result>>
  BY LoadRecordKeeps DEF WholeInv, LoadRecord
<1>2. CASE RecordIsValid /\ upload' = record.upload /\ pc' = "plan" /\ UNCHANGED record
  <2>1. Ordered'
    BY <1>1, <1>2 DEF WholeInv, Ordered, IsFor
  <2>2. IsFor(target)
    BY <1>2 DEF RecordIsValid, IsFor
  <2>3. Agreed'
    BY <1>1, <1>2, <2>2 DEF WholeInv, Agreed, FreshEmpty, IsFor, Clean, OfFile
  <2>4. Progress' /\ OkMeansWhole'
    BY <1>1, <1>2 DEF WholeInv, Progress, OkMeansWhole
  <2> QED BY <1>1, <2>1, <2>3, <2>4 DEF WholeInv
<1>3. CASE ~RecordIsValid /\ NotWritten /\ pc' = "create" /\ UNCHANGED upload
  <2>1. record'.state = "saved" => record' = record
    BY <1>3, RecordTypes DEF NotWritten
  <2>2. Ordered'
    BY <1>1, <1>3, <2>1 DEF WholeInv, Ordered, IsFor
  <2>3. ~IsFor(target)' /\ upload = NoUpload
    BY <1>1, <1>3, <2>1 DEF RecordIsValid, IsFor, WholeInv, Inv, Named
  <2>4. Agreed'
    BY <1>1, <1>3, <2>1, <2>3 DEF WholeInv, Agreed, FreshEmpty, IsFor, Clean, OfFile
  <2>5. Progress' /\ OkMeansWhole'
    BY <1>1, <1>3 DEF WholeInv, Progress, OkMeansWhole
  <2> QED BY <1>1, <2>2, <2>4, <2>5 DEF WholeInv
<1> QED BY <1>2, <1>3 DEF LoadRecord, DropRecord, NotWritten

\* A new upload holds nothing, and no record for the version of now names another.
LEMMA NewUploadWhole ==
    ASSUME WholeInv, VersionsDiffer, Inv', NewUpload, pc \in {"create", "rapid"},
           UNCHANGED <<outside, record, published, hashed, result, target>>
    PROVE  WholeInv'
<1> USE DEF outside
<1>1. PICK u \in Uploads :
         /\ uploads[u].state = "unused"
         /\ uploads' = [uploads EXCEPT ![u].state = "open"]
         /\ upload' = IF HasCheckpoint THEN u ELSE NoUpload
         /\ pc' = IF HasCheckpoint THEN "open" ELSE "plan"
  BY DEF NewUpload
<1>2. /\ \A w \in Uploads : uploads'[w].parts = uploads[w].parts
      /\ \A w \in Uploads \ {u} : uploads'[w] = uploads[w]
      /\ uploads'[u].state = "open"
  BY <1>1 DEF WholeInv, Inv, TypeOK, ServiceOK
<1>3. record.state = "saved" => record.upload \in Uploads
  BY UploadsInRange DEF WholeInv
<1>4. Ordered'
  BY <1>1 DEF WholeInv, Ordered, IsFor
<1>5. FreshEmpty'
  BY <1>2 DEF WholeInv, Agreed, FreshEmpty
<1>6. \A w \in Uploads : Clean(w) => Clean(w)'
  BY <1>1, <1>2 DEF Clean, OfFile
<1>7. OfFile(u)'
  BY <1>1, <1>2 DEF OfFile, EmptyFile, WholeInv, Agreed, FreshEmpty
<1>8. Clean(u)'
  BY <1>2, <1>7 DEF Clean
<1>9. IsFor(file)' = IsFor(file) /\ (target = file => ~IsFor(file))
  BY DEF IsFor, WholeInv, Agreed
<1>10. IsFor(file)' => Clean(record.upload)'
  BY <1>3, <1>6, <1>9 DEF WholeInv, Agreed, IsFor
<1>11. upload' # NoUpload => Clean(upload)'
  <2>1. upload' # NoUpload => upload' = u
    BY <1>1
  <2> QED BY <1>8, <2>1
<1>12. Agreed'
  BY <1>1, <1>5, <1>9, <1>10, <1>11 DEF Agreed
<1>13. Progress' /\ OkMeansWhole'
  BY <1>1 DEF WholeInv, Progress, OkMeansWhole
<1> QED BY <1>4, <1>12, <1>13 DEF WholeInv

LEMMA CreateWhole == ASSUME WholeInv, VersionsDiffer, Create PROVE WholeInv'
<1>1. Inv' /\ pc = "create" /\ UNCHANGED <<record, published>>
  BY CreateKeeps DEF WholeInv, Create
<1>2. CASE NewUpload /\ UNCHANGED <<outside, hashed, result, target>>
  BY <1>1, <1>2, NewUploadWhole
<1>3. CASE pc' = "hash" /\ UNCHANGED <<outside, uploads, call, result>>
  BY <1>1, <1>3, GoesOn DEF NotWritten, outside, service, call
<1>4. CASE (Return("ServiceError") \/ Return("SameNameFileExist")) /\ UNCHANGED uploads
  BY <1>1, <1>4, EndsQuietly DEF NotWritten, service
<1> QED BY <1>2, <1>3, <1>4 DEF Create

LEMMA ComputeSha1Whole == ASSUME WholeInv, VersionsDiffer, ComputeSha1 PROVE WholeInv'
<1> USE DEF outside, service
<1>1. /\ Inv' /\ pc \in {"hash", "checkHash"} /\ hashed' \in {hashed, file, NoVersion}
      /\ pc' = (IF pc = "hash" THEN "rapid" ELSE "compare")
      /\ UNCHANGED <<outside, record, service, target, upload, result>>
  BY ComputeSha1Keeps DEF WholeInv, ComputeSha1
<1>2. Progress'
  BY <1>1 DEF WholeInv, Progress, SizeMatches
<1> QED BY <1>1, <1>2, ServiceRests, WithinCall DEF NotWritten

\* The service makes the file of the version whose SHA-1 it was given.
LEMMA RapidCreateWhole == ASSUME WholeInv, VersionsDiffer, RapidCreate PROVE WholeInv'
<1>1. Inv' /\ pc = "rapid" /\ UNCHANGED record
  BY RapidCreateKeeps DEF WholeInv, RapidCreate
<1>2. CASE /\ Return("stopped") \/ Return("canceled") \/ Return("ServiceError")
           /\ UNCHANGED service
  BY <1>1, <1>2, EndsQuietly DEF NotWritten
<1>3. CASE NewUpload /\ UNCHANGED <<outside, published, hashed, result, target>>
  BY <1>1, <1>3, NewUploadWhole
<1>4. CASE /\ hashed # NoVersion /\ published' = Content(hashed) /\ pc' = "rapidDone"
           /\ UNCHANGED <<outside, uploads, call, result>>
  <2> USE DEF outside, call
  <2>1. Progress'
    BY <1>1, <1>4 DEF WholeInv, Progress
  <2>2. upload = NoUpload
    BY <1>1 DEF WholeInv, Inv, Named
  <2>3. NoUpload \notin Uploads
    BY NumbersAreOne
  <2>4. \A u \in Uploads : ~Concerned(u)
    BY <1>1, <2>2, <2>3, RecordOfNow DEF Concerned, WholeInv, Agreed
  <2>5. Tame
    BY <1>4, <2>4 DEF Tame, WholeInv, Agreed, FreshEmpty
  <2> QED BY <1>1, <1>4, <2>1, <2>5, WithinCall DEF NotWritten
<1> QED BY <1>2, <1>3, <1>4 DEF RapidCreate

LEMMA ReturnRapidWhole == ASSUME WholeInv, VersionsDiffer, ReturnRapid PROVE WholeInv'
<1>1. Inv' /\ Return("ok") /\ UNCHANGED <<record, service>> /\ pc = "rapidDone"
  BY ReturnRapidKeeps DEF WholeInv, ReturnRapid
<1>2. file \in Nat /\ target \in Nat /\ hashed \in Nat
  BY UploadsInRange DEF WholeInv, Inv, TypeOK, CallOK
<1>3. file = target => published' = Content(target)
  BY <1>1, <1>2 DEF WholeInv, Progress, Ordered, service
<1> QED BY <1>1, <1>3, ServiceRests, CallEnds DEF NotWritten, Return, Forget

LEMMA OpenRecordWhole == ASSUME WholeInv, VersionsDiffer, OpenRecord PROVE WholeInv'
<1>1. Inv'
  BY OpenRecordKeeps DEF WholeInv
<1> QED BY <1>1, GoesOn DEF OpenRecord, NotWritten, outside, call

\* The record is now for the version of the call, and names the upload of the call.
LEMMA WriteRecordWhole == ASSUME WholeInv, VersionsDiffer, WriteRecord PROVE WholeInv'
<1> USE DEF WriteRecord, outside, service, call
<1>1. Inv'
  BY WriteRecordKeeps DEF WholeInv
<1>2. /\ file \in Versions /\ target \in Versions /\ Versions \subseteq Nat
      /\ upload # NoUpload
  BY UploadsInRange DEF WholeInv, Inv, Named
<1>3. /\ record'.state = "saved" /\ record'.upload = upload
      /\ record'.size = PartCount[target] /\ record'.mtime = FileMtime[target]
  BY DEF Saved
<1>4. IsFor(target)'
  BY <1>3 DEF IsFor
<1>5. Ordered'
  BY <1>2, <1>4 DEF WholeInv, Ordered
<1>6. IsFor(file)' => target = file
  BY <1>2, <1>3 DEF IsFor, VersionsDiffer
<1>7. Agreed'
  BY <1>2, <1>3, <1>6 DEF WholeInv, Agreed, FreshEmpty, Clean, OfFile
<1>8. Progress' /\ OkMeansWhole'
  BY DEF WholeInv, Progress, OkMeansWhole
<1> QED BY <1>1, <1>5, <1>7, <1>8 DEF WholeInv

-----------------------------------------------------------------------------
(* The loop over the parts. *)

LEMMA PlanWhole == ASSUME WholeInv, VersionsDiffer, Plan PROVE WholeInv'
<1>1. Inv'
  BY PlanKeeps DEF WholeInv
<1> QED BY <1>1, GoesOn DEF Plan, NotWritten, outside

LEMMA PopWhole == ASSUME WholeInv, VersionsDiffer, Pop PROVE WholeInv'
<1>1. Inv'
  BY PopKeeps DEF WholeInv
<1>2. pc' \in {"joined", "url"}
  BY DEF Pop
<1> QED BY <1>1, <1>2, GoesOn DEF Pop, NotWritten, outside

LEMMA GetUrlWhole == ASSUME WholeInv, VersionsDiffer, GetUrl PROVE WholeInv'
<1>1. Inv'
  BY GetUrlKeeps DEF WholeInv
<1>2. CASE pc' = "put" /\ UNCHANGED <<outside, call, result>>
  BY <1>1, <1>2, GoesOn DEF GetUrl, NotWritten, outside, call
<1>3. CASE Return("ServiceError")
  BY <1>1, <1>3, EndsQuietly DEF GetUrl, NotWritten
<1> QED BY <1>2, <1>3 DEF GetUrl

\* Whatever a PUT did, the call goes on.
LEMMA PutWhole ==
    ASSUME WholeInv, VersionsDiffer, Inv', pc = "put", NEW ok \in BOOLEAN, NEW crc, Answer(ok, crc),
           UNCHANGED uploads \/ (CanPut /\ Put),
           UNCHANGED <<outside, record, published, target, upload, hashed, result>>
    PROVE  WholeInv'
<1> USE DEF outside
<1>1. pc' \in {"openAgain", "pop"}
  BY DEF Answer
<1>2. part \in Parts
  BY DEF WholeInv, Inv, Named
<1>3. Tame
  BY <1>2, PutIsTame, ServiceRests DEF service
<1>4. Progress'
  BY <1>1 DEF WholeInv, Progress
<1> QED BY <1>1, <1>3, <1>4, WithinCall DEF NotWritten

LEMMA PutSucceedsWhole == ASSUME WholeInv, VersionsDiffer, PutSucceeds PROVE WholeInv'
<1>1. Inv'
  BY PutSucceedsKeeps DEF WholeInv
<1> QED BY <1>1, PutWhole DEF PutSucceeds

LEMMA PutFindsPartWhole == ASSUME WholeInv, VersionsDiffer, PutFindsPart PROVE WholeInv'
<1>1. Inv'
  BY PutFindsPartKeeps DEF WholeInv
<1>2. PICK crc \in {NoCrc, uploads'[upload].parts[part]} : Answer(TRUE, crc)
  BY DEF PutFindsPart
<1> QED BY <1>1, <1>2, PutWhole DEF PutFindsPart

LEMMA PutFailsWhole == ASSUME WholeInv, VersionsDiffer, PutFails PROVE WholeInv'
<1>1. Inv'
  BY PutFailsKeeps DEF WholeInv
<1> QED BY <1>1, PutWhole DEF PutFails

-----------------------------------------------------------------------------
(* After the loop. *)

LEMMA CheckEnableWhole == ASSUME WholeInv, VersionsDiffer, CheckEnable PROVE WholeInv'
<1>1. Inv'
  BY CheckEnableKeeps DEF WholeInv
<1>2. CASE enable
  BY <1>1, <1>2, GoesOn DEF CheckEnable, NotWritten, outside, call
<1>3. CASE ~enable
  BY <1>1, <1>3, EndsQuietly DEF CheckEnable, NotWritten
<1> QED BY <1>2, <1>3

LEMMA CheckControlWhole == ASSUME WholeInv, VersionsDiffer, CheckControl PROVE WholeInv'
<1>1. Inv'
  BY CheckControlKeeps DEF WholeInv
<1>2. CASE pc' = "verify" /\ UNCHANGED <<outside, call, result, record>>
  BY <1>1, <1>2, GoesOn DEF CheckControl, NotWritten, outside, call
<1>3. CASE Return("stopped") /\ UNCHANGED record
  BY <1>1, <1>3, EndsQuietly DEF CheckControl, NotWritten
<1>4. CASE ReturnDropping("canceled")
  BY <1>1, <1>4, EndsDropping DEF CheckControl
<1> QED BY <1>2, <1>3, <1>4 DEF CheckControl

LEMMA CheckOutcomesWhole == ASSUME WholeInv, VersionsDiffer, CheckOutcomes PROVE WholeInv'
<1>1. Inv'
  BY CheckOutcomesKeeps DEF WholeInv
<1>2. CASE Verdict = "none"
  BY <1>1, <1>2, GoesOn DEF CheckOutcomes, NotWritten, outside, call
<1>3. CASE Verdict # "none"
  <2>1. Verdict # "ok"
    BY DEF Verdict, WholeInv, Inv, TypeOK, CallOK
  <2> QED BY <1>1, <1>3, <2>1, EndsQuietly DEF CheckOutcomes, NotWritten
<1> QED BY <1>2, <1>3

LEMMA CompleteWhole == ASSUME WholeInv, VersionsDiffer, Complete PROVE WholeInv'
<1> USE DEF outside, call
<1>1. /\ Inv' /\ pc = "complete" /\ pc' \in {"answered", "refused"}
      /\ UNCHANGED <<outside, record, call, result>>
  BY CompleteKeeps DEF WholeInv, Complete
<1>2. Tame
  BY <1>1, PublishIsTame, ServiceRests DEF Complete
<1>3. pc' = "answered" => upload # NoUpload /\ uploads'[upload].state = "completed"
  BY PublishIsTame DEF Complete, service, outside
<1>4. Progress'
  BY <1>1, <1>3 DEF WholeInv, Progress
<1> QED BY <1>1, <1>2, <1>4, WithinCall DEF NotWritten

LEMMA ReturnRefusedWhole == ASSUME WholeInv, VersionsDiffer, ReturnRefused PROVE WholeInv'
<1>1. Inv'
  BY ReturnRefusedKeeps DEF WholeInv
<1> QED BY <1>1, EndsDropping DEF ReturnRefused

\* A step between two checks, when those before have found the size right.
LEMMA ChecksGoOn ==
    ASSUME WholeInv, VersionsDiffer, Inv', UNCHANGED <<outside, call, result, record, service>>,
           pc \in {"answered", "compare"}, pc' \in {"finish", "checkHash", "crcDiffers"}, SizeMatches
    PROVE  WholeInv'
<1> USE DEF outside, call
<1>1. Progress'
  BY DEF WholeInv, Progress, SizeMatches, service
<1> QED BY <1>1, ServiceRests, WithinCall DEF NotWritten

LEMMA CheckAnswerWhole == ASSUME WholeInv, VersionsDiffer, CheckAnswer PROVE WholeInv'
<1>1. Inv' /\ UNCHANGED service /\ pc = "answered"
  BY CheckAnswerKeeps DEF WholeInv, CheckAnswer
<1>2. CASE Return("FileSizeCheckError") /\ UNCHANGED record
  BY <1>1, <1>2, EndsQuietly DEF NotWritten
<1>3. CASE /\ SizeMatches /\ pc' \in {"finish", "checkHash", "crcDiffers"}
           /\ UNCHANGED <<outside, call, result, record>>
  BY <1>1, <1>3, ChecksGoOn
<1> QED BY <1>2, <1>3 DEF CheckAnswer

LEMMA ReadFirstOfNoneWhole == ASSUME WholeInv, VersionsDiffer, ReadFirstOfNone PROVE WholeInv'
<1>1. Inv'
  BY ReadFirstOfNoneKeeps DEF WholeInv
<1> QED BY <1>1, EndsQuietly DEF ReadFirstOfNone, NotWritten

LEMMA ReturnCrcDiffersWhole == ASSUME WholeInv, VersionsDiffer, ReturnCrcDiffers PROVE WholeInv'
<1>1. Inv'
  BY ReturnCrcDiffersKeeps DEF WholeInv
<1> QED BY <1>1, EndsDropping DEF ReturnCrcDiffers

LEMMA CompareSha1Whole == ASSUME WholeInv, VersionsDiffer, CompareSha1 PROVE WholeInv'
<1>1. Inv' /\ UNCHANGED service /\ pc = "compare"
  BY CompareSha1Keeps DEF WholeInv, CompareSha1
<1>2. CASE (Return("stopped") \/ Return("canceled")) /\ UNCHANGED record
  BY <1>1, <1>2, EndsQuietly DEF NotWritten
<1>3. CASE pc' = "finish" /\ UNCHANGED <<outside, call, result, record>>
  <2>1. SizeMatches
    BY <1>1 DEF WholeInv, Progress
  <2> QED BY <1>1, <1>3, <2>1, ChecksGoOn
<1>4. CASE ReturnDropping("Sha1CheckError")
  BY <1>1, <1>4, EndsDropping
<1> QED BY <1>2, <1>3, <1>4 DEF CompareSha1

\* The upload was completed with all the parts of the version: it was published, and is.
LEMMA FinishWhole == ASSUME WholeInv, VersionsDiffer, Finish PROVE WholeInv'
<1>1. Inv' /\ UNCHANGED service /\ pc = "finish" /\ ReturnDropping("ok")
  BY FinishKeeps DEF WholeInv, Finish
<1>2. upload # NoUpload /\ uploads[upload].state = "completed" /\ SizeMatches
  BY <1>1 DEF WholeInv, Progress
<1>3. upload \in Uploads
  BY <1>2, UploadsInRange DEF WholeInv
<1>4. file = target => published = Content(target)
  BY <1>2, <1>3, FullIsWhole DEF WholeInv, Agreed, Clean, SizeMatches
<1> QED BY <1>1, <1>4, EndsDropping

-----------------------------------------------------------------------------
(* The environment. *)

LEMMA CallerWhole ==
    ASSUME WholeInv, VersionsDiffer, Inv', UNCHANGED <<file, record, service, pc, call, result>>
    PROVE  WholeInv'
<1> USE DEF service, call
<1>1. Ordered'
  BY DEF WholeInv, Ordered, IsFor
<1>2. Agreed'
  BY DEF WholeInv, Agreed, FreshEmpty, IsFor, Clean, OfFile
<1>3. Progress' /\ OkMeansWhole'
  BY DEF WholeInv, Progress, OkMeansWhole, SizeMatches
<1> QED BY <1>1, <1>2, <1>3 DEF WholeInv

LEMMA AskToQuitWhole == ASSUME WholeInv, VersionsDiffer, AskToQuit PROVE WholeInv'
<1>1. Inv'
  BY AskToQuitKeeps DEF WholeInv
<1> QED BY <1>1, CallerWhole DEF AskToQuit

LEMMA WithdrawWhole == ASSUME WholeInv, VersionsDiffer, Withdraw PROVE WholeInv'
<1>1. Inv'
  BY WithdrawKeeps DEF WholeInv
<1> QED BY <1>1, CallerWhole DEF Withdraw

\* No record and no call is about a version that comes after them.
LEMMA ChangeFileWhole == ASSUME WholeInv, VersionsDiffer, ChangeFile PROVE WholeInv'
<1> USE DEF service, call
<1>1. /\ Inv' /\ file' = file + 1
      /\ UNCHANGED <<record, service, pc, call, result>>
  BY ChangeFileKeeps DEF WholeInv, ChangeFile
<1>2. /\ file \in Versions /\ target \in Versions /\ Versions \subseteq Nat
      /\ file' \in Versions /\ hashed \in Nat
  BY <1>1, UploadsInRange DEF WholeInv, Inv, TypeOK, CallerOK, CallOK
<1>3. Ordered'
  BY <1>1, <1>2 DEF WholeInv, Ordered, IsFor
<1>4. target # file'
  BY <1>1, <1>2 DEF WholeInv, Ordered
<1>5. ~IsFor(file)'
  <2>1. ASSUME IsFor(file)' PROVE FALSE
    <3>1. PICK v \in Versions : v <= target /\ IsFor(v)
      BY <1>1, <2>1 DEF WholeInv, Ordered, IsFor
    <3>2. v = file'
      BY <1>1, <1>2, <2>1, <3>1 DEF IsFor, VersionsDiffer
    <3> QED BY <1>1, <1>2, <3>1, <3>2 DEF WholeInv, Ordered
  <2> QED BY <2>1
<1>6. Agreed'
  BY <1>1, <1>4, <1>5 DEF WholeInv, Agreed, FreshEmpty
<1>7. Progress' /\ OkMeansWhole'
  BY <1>1, <1>4 DEF WholeInv, Progress, OkMeansWhole, SizeMatches
<1> QED BY <1>1, <1>3, <1>6, <1>7 DEF WholeInv

LEMMA ExpireUploadWhole == ASSUME WholeInv, VersionsDiffer, ExpireUpload PROVE WholeInv'
<1> USE DEF outside, call
<1>1. PICK u \in Uploads : uploads[u].state = "open" /\ uploads' = [uploads EXCEPT ![u].state = "gone"]
  BY DEF ExpireUpload
<1>2. Inv' /\ UNCHANGED <<outside, record, published, pc, call, result>>
  BY ExpireUploadKeeps DEF WholeInv, ExpireUpload
<1>3. /\ \A w \in Uploads : uploads'[w].parts = uploads[w].parts
      /\ \A w \in Uploads \ {u} : uploads'[w] = uploads[w]
      /\ uploads'[u].state = "gone"
  BY <1>1 DEF WholeInv, Inv, TypeOK, ServiceOK
<1>4. upload # NoUpload => upload \in Uploads
  BY UploadsInRange DEF WholeInv
<1>5. \A w \in Uploads : Clean(w) => Clean(w)'
  BY <1>1, <1>2, <1>3 DEF Clean, OfFile
<1>6. FreshEmpty'
  BY <1>3 DEF WholeInv, Agreed, FreshEmpty
<1>7. Ordered'
  BY <1>2 DEF WholeInv, Ordered, IsFor
<1>8. IsFor(file)' = IsFor(file)
  BY <1>2 DEF IsFor
<1>9. IsFor(file)' => Clean(record.upload)'
  <2>1. IsFor(file) => record.upload \in Uploads /\ Clean(record.upload)
    BY UploadsInRange DEF WholeInv, Agreed, IsFor
  <2>2. record' = record
    BY <1>2
  <2> QED BY <1>5, <1>8, <2>1, <2>2
<1>10. target = file /\ upload # NoUpload => Clean(upload)'
  <2>1. target = file /\ upload # NoUpload => Clean(upload)
    BY DEF WholeInv, Agreed
  <2> QED BY <1>2, <1>4, <1>5, <2>1
<1>11. Agreed'
  BY <1>2, <1>6, <1>8, <1>9, <1>10 DEF WholeInv, Agreed
<1>12. upload # NoUpload /\ uploads[upload].state = "completed" => uploads'[upload] = uploads[upload]
  BY <1>1, <1>3, <1>4
<1>13. \A w \in Uploads : Size(uploads'[w].parts) = Size(uploads[w].parts)
  BY <1>3
<1>14. Progress'
  BY <1>2, <1>12, <1>13, <1>4 DEF WholeInv, Progress, SizeMatches
<1>15. OkMeansWhole'
  BY <1>2 DEF WholeInv, OkMeansWhole
<1> QED BY <1>2, <1>7, <1>11, <1>14, <1>15 DEF WholeInv

LEMMA CrashWhole == ASSUME WholeInv, VersionsDiffer, Crash PROVE WholeInv'
<1>1. Inv' /\ Return("none") /\ UNCHANGED <<file, record>>
  BY CrashKeeps DEF WholeInv, Crash, Return, Forget
<1>2. Tame
  <2>1. CASE UNCHANGED service
    BY <1>1, <2>1, ServiceRests
  <2>2. CASE pc = "put" /\ CanPut /\ Put /\ UNCHANGED published
    <3>1. part \in Parts
      BY <2>2 DEF WholeInv, Inv, Named
    <3> QED BY <1>1, <2>2, <3>1, PutIsTame
  <2>3. CASE Publish
    BY <1>1, <2>3, PublishIsTame
  <2> QED BY <2>1, <2>2, <2>3 DEF Crash
<1> QED BY <1>1, <1>2, CallEnds DEF NotWritten

-----------------------------------------------------------------------------
LEMMA InitWhole == ASSUME Init PROVE WholeInv
<1> USE DEF Init
<1>1. Inv
  BY InitInv
<1>2. Ordered
  BY RecordTypes DEF Ordered
<1>3. Agreed
  BY RecordTypes DEF Agreed, FreshEmpty, IsFor, Unused
<1>4. Progress /\ OkMeansWhole
  BY DEF Progress, OkMeansWhole
<1> QED BY <1>1, <1>2, <1>3, <1>4 DEF WholeInv

LEMMA StepWhole == ASSUME WholeInv, VersionsDiffer, Step PROVE WholeInv'
BY LoadRecordWhole, CreateWhole, ComputeSha1Whole, RapidCreateWhole, ReturnRapidWhole,
   OpenRecordWhole, WriteRecordWhole, PlanWhole, PopWhole, GetUrlWhole, PutSucceedsWhole,
   PutFindsPartWhole, PutFailsWhole, CheckEnableWhole, CheckControlWhole, CheckOutcomesWhole,
   CompleteWhole, ReturnRefusedWhole, CheckAnswerWhole, ReadFirstOfNoneWhole,
   ReturnCrcDiffersWhole, CompareSha1Whole, FinishWhole, Zenon
DEF Step

LEMMA NextWhole == ASSUME WholeInv, VersionsDiffer, [Next]_vars PROVE WholeInv'
<1>1. CASE Start
  BY <1>1, StartWhole
<1>2. CASE Step
  BY <1>2, StepWhole
<1>3. CASE Environment
  BY <1>3, AskToQuitWhole, WithdrawWhole, ChangeFileWhole, ExpireUploadWhole, CrashWhole, Zenon
  DEF Environment
<1>4. CASE UNCHANGED vars
  <2>1. Inv'
    BY <1>4, NextInv DEF WholeInv
  <2> QED BY <1>4, <2>1, CallerWhole DEF vars, outside
<1> QED BY <1>1, <1>2, <1>3, <1>4, Zenon DEF Next

\* Whenever Upload returns success and the file is still the version the call began with, the file of the service is that
\* version, whole, whatever was lost, repeated, resumed, withdrawn, edited or crashed in this call and those before: the record
\* leads back only to uploads that hold nothing but parts of this version, and the size check finds every hole.
THEOREM UploadOkMeansWhole == ASSUME VersionsDiffer PROVE Spec => []OkMeansWhole
<1>1. Init => WholeInv
  BY InitWhole
<1>2. WholeInv /\ [Next]_vars => WholeInv'
  BY NextWhole
<1>3. WholeInv => OkMeansWhole
  BY DEF WholeInv
<1> QED BY <1>1, <1>2, <1>3, PTL DEF Spec

-----------------------------------------------------------------------------
(* The refinement of AtomicPublish, for callers that leave the file alone during a call and do not take back that they want *)
(* to quit: otherwise what is completed may be a mixture of versions, or have a hole where the loop dropped a part.         *)
Steady == VersionsDiffer /\ Events \cap {"edit", "withdraw"} = {}

Missing == (1 .. PartCount[target]) \ Numbers(uploadedParts)

(* The parts that no list has are in the queue, or being put, until the loop ends; then there are none, or the call fails. *)
AllAccounted ==
    /\ pc # "idle" => target = file
    /\ outcomes.failure = "none" =>
          /\ pc \in {"pop", "openAgain", "writeAgain"} => Missing \subseteq partsToUpload
          /\ pc \in {"url", "put"} => Missing \subseteq partsToUpload \cup {part}
          /\ pc = "joined" /\ ~Quitting => Missing = {}
          /\ pc = "control" /\ control = "none" => Missing = {}
          /\ pc = "verify" => Missing = {}
    /\ pc = "complete" => Missing = {}

LoopPcs == {"pop", "openAgain", "writeAgain", "url", "put", "joined", "control", "verify", "complete"}

LEMMA ElsewhereAccounted ==
    ASSUME AllAccounted, pc # "idle", UNCHANGED <<file, target>>, pc' \notin LoopPcs
    PROVE  AllAccounted'
BY DEF AllAccounted, LoopPcs

LEMMA StartAccounted == ASSUME AllAccounted, Start PROVE AllAccounted'
BY DEF Start, outside, AllAccounted

LEMMA BeforeLoopAccounted ==
    ASSUME AllAccounted, LoadRecord \/ Create \/ ComputeSha1 \/ RapidCreate \/ ReturnRapid
    PROVE  AllAccounted'
<1>1. pc # "idle" /\ UNCHANGED <<file, target>>
  BY DEF LoadRecord, Create, ComputeSha1, RapidCreate, ReturnRapid, outside, call, Return, Forget
<1>2. pc' \notin LoopPcs
  BY DEF LoadRecord, Create, NewUpload, ComputeSha1, RapidCreate, ReturnRapid, Return, Forget, LoopPcs
<1> QED BY <1>1, <1>2, ElsewhereAccounted

LEMMA RecordAccounted == ASSUME AllAccounted, OpenRecord \/ WriteRecord PROVE AllAccounted'
<1>1. UNCHANGED <<file, target, uploadedParts, partsToUpload, outcomes>>
  BY DEF OpenRecord, WriteRecord, outside, call, lists
<1>2. /\ pc' \notin LoopPcs \/ (pc \in {"openAgain", "writeAgain"} /\ pc' \in {"pop", "writeAgain"})
      /\ pc # "idle"
  BY DEF OpenRecord, WriteRecord, LoopPcs
<1> QED BY <1>1, <1>2, ElsewhereAccounted DEF AllAccounted, Missing

LEMMA PlanAccounted == ASSUME AllAccounted, Plan PROVE AllAccounted'
BY DEF Plan, outside, AllAccounted, Missing, ToUpload

LEMMA PopAccounted == ASSUME AllAccounted, Pop PROVE AllAccounted'
<1> USE DEF Pop, outside
<1>1. Quitting' = Quitting /\ Missing' = Missing
  BY DEF Quitting, Missing
<1>2. CASE partsToUpload = {} /\ pc' = "joined"
  BY <1>1, <1>2 DEF AllAccounted
<1>3. CASE \E p \in partsToUpload :
             /\ Take(p)
             /\ IF Quitting THEN pc' = "joined" /\ part' = NoPart
                            ELSE pc' = "url" /\ part' = p
  BY <1>1, <1>3 DEF AllAccounted, Take
<1> QED BY <1>2, <1>3

LEMMA GetUrlAccounted == ASSUME AllAccounted, GetUrl PROVE AllAccounted'
<1>1. CASE pc' = "put" /\ UNCHANGED <<outside, call>>
  BY <1>1 DEF GetUrl, outside, call, lists, AllAccounted, Missing
<1>2. CASE Return("ServiceError")
  BY <1>2 DEF GetUrl, Return, Forget, AllAccounted
<1> QED BY <1>1, <1>2 DEF GetUrl

LEMMA PutAccounted ==
    ASSUME AllAccounted, Inv, PutSucceeds \/ PutFindsPart \/ PutFails PROVE AllAccounted'
<1>1. pc = "put" /\ UNCHANGED <<file, target, partsToUpload>>
  BY DEF PutSucceeds, PutFindsPart, PutFails, outside
<1>2. CASE \E crc : Answer(TRUE, crc)
  <2>1. PICK crc : Answer(TRUE, crc)
    BY <1>2
  <2>2. /\ uploadedParts' = uploadedParts \cup {Entry(part, crc)}
        /\ outcomes'.failure = outcomes.failure
        /\ pc' \in {"openAgain", "pop"}
    BY <2>1 DEF Answer, Inv, TypeOK, CallOK
  <2>3. Entry(part, crc).partNumber = part
    BY DEF Entry
  <2>4. Missing' \subseteq Missing \ {part}
    BY <1>1, <2>2, <2>3 DEF Missing, Numbers
  <2> QED BY <1>1, <2>2, <2>4 DEF AllAccounted
<1>3. CASE Answer(FALSE, NoCrc)
  BY <1>1, <1>3 DEF Answer, AllAccounted
<1> QED BY <1>2, <1>3 DEF PutSucceeds, PutFindsPart, PutFails

LEMMA ChecksAccounted ==
    ASSUME AllAccounted, CheckEnable \/ CheckControl \/ CheckOutcomes PROVE AllAccounted'
<1> USE DEF outside, call, lists
<1>1. CASE UNCHANGED <<outside, call>>
  <2>1. Missing' = Missing
    BY <1>1 DEF Missing
  <2>2. CASE pc = "joined" /\ enable /\ pc' = "control"
    BY <1>1, <2>1, <2>2 DEF AllAccounted, Quitting
  <2>3. CASE pc = "control" /\ control = "none" /\ pc' = "verify"
    BY <1>1, <2>1, <2>3 DEF AllAccounted
  <2>4. CASE pc = "verify" /\ Verdict = "none" /\ pc' = "complete"
    BY <1>1, <2>1, <2>4 DEF AllAccounted, Verdict
  <2>5. CASE pc' = "idle"
    BY <2>5 DEF AllAccounted
  <2> QED BY <2>2, <2>3, <2>4, <2>5 DEF CheckEnable, CheckControl, CheckOutcomes, Return, Forget, ReturnDropping
<1>2. CASE pc' = "idle"
  BY <1>2 DEF AllAccounted
<1> QED BY <1>1, <1>2 DEF CheckEnable, CheckControl, CheckOutcomes, Return, Forget, ReturnDropping

LEMMA AfterLoopAccounted ==
    ASSUME AllAccounted,
           \/ Complete \/ ReturnRefused \/ CheckAnswer \/ ReadFirstOfNone
           \/ ReturnCrcDiffers \/ CompareSha1 \/ Finish
    PROVE  AllAccounted'
<1>1. pc # "idle" /\ UNCHANGED <<file, target>>
  BY DEF Complete, ReturnRefused, CheckAnswer, ReadFirstOfNone, ReturnCrcDiffers, CompareSha1, Finish,
     outside, call, ReturnDropping, Return, Forget
<1>2. pc' \notin LoopPcs
  BY DEF Complete, ReturnRefused, CheckAnswer, ReadFirstOfNone, ReturnCrcDiffers, CompareSha1, Finish,
     ReturnDropping, Return, Forget, LoopPcs
<1> QED BY <1>1, <1>2, ElsewhereAccounted

LEMMA EnvironmentAccounted == ASSUME AllAccounted, Steady, Environment PROVE AllAccounted'
<1> USE DEF call, lists, outside, Steady, Event
<1>1. CASE AskToQuit
  <2>1. (Quitting' /\ control' # "none") \/ (UNCHANGED control /\ ~enable')
    BY <1>1 DEF AskToQuit, Quitting
  <2>2. UNCHANGED <<file, target, pc, uploadedParts, partsToUpload, part, outcomes>>
    BY <1>1 DEF AskToQuit
  <2>3. Missing' = Missing /\ Quitting'
    BY <2>1, <2>2 DEF Missing, Quitting
  <2> QED BY <2>1, <2>2, <2>3 DEF AllAccounted
<1>2. CASE Withdraw
  BY <1>2 DEF Withdraw
<1>3. CASE ChangeFile
  BY <1>3 DEF ChangeFile, AllAccounted, Idle
<1>4. CASE ExpireUpload
  BY <1>4 DEF ExpireUpload, AllAccounted, Missing, Quitting
<1>5. CASE Crash
  BY <1>5 DEF Crash, Return, Forget, AllAccounted
<1> QED BY <1>1, <1>2, <1>3, <1>4, <1>5 DEF Environment

LEMMA NextAccounted == ASSUME WholeInv, AllAccounted, Steady, [Next]_vars PROVE AllAccounted'
<1>1. CASE Start
  BY <1>1, StartAccounted
<1>2. CASE Step
  <2>1. Inv
    BY DEF WholeInv
  <2> QED BY <1>2, <2>1, BeforeLoopAccounted, RecordAccounted, PlanAccounted, PopAccounted, GetUrlAccounted,
             PutAccounted, ChecksAccounted, AfterLoopAccounted, Zenon DEF Step
<1>3. CASE Environment
  BY <1>3, EnvironmentAccounted
<1>4. CASE UNCHANGED vars
  BY <1>4 DEF vars, outside, call, lists, AllAccounted, Missing, Quitting
<1> QED BY <1>1, <1>2, <1>3, <1>4, Zenon DEF Next

\* What is completed is the version the call began with.
LEMMA CompletedIsWhole ==
    ASSUME WholeInv, AllAccounted, pc = "complete", upload # NoUpload
    PROVE  uploads[upload].parts = Content(target)
<1>1. target = file /\ Missing = {} /\ upload \in Uploads /\ file \in Versions
  BY UploadsInRange DEF AllAccounted, WholeInv
<1>2. OfFile(upload)
  BY <1>1 DEF WholeInv, Agreed, Clean
<1>3. PartCount[file] \in Nat /\ 1 .. PartCount[file] \subseteq Parts /\ Parts \subseteq Nat
  BY <1>1, PartsAreNumbers
<1>4. ASSUME NEW p \in 1 .. PartCount[file] PROVE uploads[upload].parts[p] = file
  <2>1. PICK e \in uploadedParts : e.partNumber = p
    BY <1>1 DEF Missing, Numbers
  <2>2. uploads[upload].parts[p] # Hole
    BY <2>1 DEF WholeInv, Inv, ListedPartsAreStored
  <2> QED BY <1>2, <1>3, <2>2 DEF OfFile
<1>5. uploads[upload].parts \in [Parts -> {Hole} \cup Versions]
  BY <1>1 DEF WholeInv, Inv, TypeOK, ServiceOK, Contents
<1>6. \A p \in Parts : uploads[upload].parts[p] = IF p <= PartCount[file] THEN file ELSE Hole
  BY <1>2, <1>3, <1>4 DEF OfFile, Parts
<1> QED BY <1>1, <1>5, <1>6 DEF Content

\* What a reader of the file sees: where the call stands, and its result.
AnsweredPcs == {"rapidDone", "answered", "checkHash", "compare", "crcDiffers", "finish"}
Phase == IF pc \in AnsweredPcs THEN "published"
         ELSE IF ~Idle THEN "running"
         ELSE IF result = "ok" THEN "succeeded"
         ELSE IF result = "none" THEN "idle" ELSE "failed"

Unseen == UNCHANGED <<published, Phase>>

LEMMA EndIsSeen ==
    ASSUME pc # "idle", NEW code, code # "ok" \/ pc \in AnsweredPcs, Return(code), UNCHANGED published
    PROVE  Atomic!Next
<1> USE DEF Return, Forget, Idle, AnsweredPcs
<1>1. CASE code = "none"
  BY <1>1 DEF Atomic!Next, Atomic!Die
<1>2. CASE code = "ok"
  BY <1>2 DEF Atomic!Next, Atomic!Succeed
<1>3. CASE code \notin {"none", "ok"}
  BY <1>3 DEF Atomic!Next, Atomic!Fail
<1> QED BY <1>1, <1>2, <1>3

LEMMA MovesOnUnseen ==
    ASSUME pc # "idle", pc' # "idle", UNCHANGED published, pc \in AnsweredPcs <=> pc' \in AnsweredPcs
    PROVE  Unseen
BY DEF Unseen, Phase, Idle

LEMMA BeforeLoopRefines ==
    ASSUME WholeInv, LoadRecord \/ Create \/ ComputeSha1 \/ RapidCreate \/ ReturnRapid
    PROVE  Atomic!Next \/ Unseen
<1> USE DEF AnsweredPcs, service
<1>1. CASE LoadRecord
  BY <1>1, MovesOnUnseen DEF LoadRecord
<1>2. CASE Create
  <2>1. CASE pc' \in {"open", "plan", "hash"} /\ UNCHANGED published
    BY <1>2, <2>1, MovesOnUnseen DEF Create
  <2>2. CASE (Return("ServiceError") \/ Return("SameNameFileExist")) /\ UNCHANGED published
    BY <1>2, <2>2, EndIsSeen DEF Create
  <2> QED BY <1>2, <2>1, <2>2 DEF Create, NewUpload
<1>3. CASE ComputeSha1
  BY <1>3, MovesOnUnseen DEF ComputeSha1
<1>4. CASE RapidCreate
  <2>1. CASE hashed # NoVersion /\ published' = Content(hashed) /\ pc' = "rapidDone"
    <3>1. hashed \in Versions
      BY <2>1, VersionsAssumption DEF WholeInv, Inv, TypeOK, CallOK, Versions, NoVersion
    <3> QED BY <1>4, <2>1, <3>1 DEF RapidCreate, Idle, Atomic!Next, Atomic!Publish
  <2>2. CASE NewUpload /\ UNCHANGED published
    BY <1>4, <2>2, MovesOnUnseen DEF RapidCreate, NewUpload
  <2>3. CASE (\E code \in {"stopped", "canceled", "ServiceError"} : Return(code)) /\ UNCHANGED published
    BY <1>4, <2>3, EndIsSeen DEF RapidCreate
  <2> QED BY <1>4, <2>1, <2>2, <2>3 DEF RapidCreate
<1>5. CASE ReturnRapid
  BY <1>5, EndIsSeen DEF ReturnRapid
<1> QED BY <1>1, <1>2, <1>3, <1>4, <1>5

LEMMA LoopRefines ==
    ASSUME OpenRecord \/ WriteRecord \/ Plan \/ Pop \/ GetUrl \/ PutSucceeds \/ PutFindsPart \/ PutFails
    PROVE  Atomic!Next \/ Unseen
<1> USE DEF AnsweredPcs, service
<1>1. CASE GetUrl
  BY <1>1, EndIsSeen, MovesOnUnseen DEF GetUrl
<1>2. CASE OpenRecord \/ WriteRecord \/ Plan \/ Pop
  BY <1>2, MovesOnUnseen DEF OpenRecord, WriteRecord, Plan, Pop
<1>3. CASE PutSucceeds \/ PutFindsPart \/ PutFails
  BY <1>3, MovesOnUnseen DEF PutSucceeds, PutFindsPart, PutFails, Answer
<1> QED BY <1>1, <1>2, <1>3

\* The service makes the file: seen, or not yet.
LEMMA PublishesWhole ==
    ASSUME WholeInv, AllAccounted, pc = "complete", Publish
    PROVE  published' \in {Content(v) : v \in Versions}
<1>1. upload # NoUpload /\ target \in Versions
  BY UploadsInRange DEF WholeInv, Publish, IsOpen
<1> QED BY <1>1, CompletedIsWhole DEF Publish

LEMMA CompleteRefines == ASSUME WholeInv, AllAccounted, Complete PROVE Atomic!Next \/ Unseen
<1> USE DEF AnsweredPcs, service, Complete, Idle
<1>1. CASE Publish /\ pc' = "answered"
  BY <1>1, PublishesWhole DEF Atomic!Next, Atomic!Publish
<1>2. CASE upload # NoUpload /\ uploads[upload].state = "completed" /\ pc' = "answered" /\ UNCHANGED service
  <2>1. target = file /\ target \in Versions
    BY UploadsInRange DEF WholeInv, AllAccounted
  <2>2. published = uploads[upload].parts
    BY <1>2, <2>1 DEF WholeInv, Agreed, Clean
  <2>3. published' \in {Content(v) : v \in Versions}
    BY <1>2, <2>1, <2>2, CompletedIsWhole
  <2> QED BY <1>2, <2>3 DEF Atomic!Next, Atomic!Publish
<1>3. CASE Publish /\ pc' = "refused"
  BY <1>3, PublishesWhole DEF Atomic!Next, Atomic!PublishUnseen
<1>4. CASE pc' = "refused" /\ UNCHANGED service
  BY <1>4, MovesOnUnseen
<1> QED BY <1>1, <1>2, <1>3, <1>4

LEMMA EndRefines ==
    ASSUME WholeInv,
           \/ CheckEnable \/ CheckControl \/ CheckOutcomes \/ ReturnRefused \/ CheckAnswer
           \/ ReadFirstOfNone \/ ReturnCrcDiffers \/ CompareSha1 \/ Finish
    PROVE  Atomic!Next \/ Unseen
<1> USE DEF AnsweredPcs, service, ReturnDropping
<1>1. CASE CheckEnable \/ CheckControl
  BY <1>1, EndIsSeen, MovesOnUnseen DEF CheckEnable, CheckControl
<1>2. CASE CheckOutcomes
  <2>1. Verdict # "ok"
    BY DEF Verdict, WholeInv, Inv, TypeOK, CallOK
  <2> QED BY <1>2, <2>1, EndIsSeen, MovesOnUnseen DEF CheckOutcomes
<1>3. CASE ReturnRefused \/ ReadFirstOfNone \/ ReturnCrcDiffers \/ Finish
  BY <1>3, EndIsSeen DEF ReturnRefused, ReadFirstOfNone, ReturnCrcDiffers, Finish
<1>4. CASE CheckAnswer
  BY <1>4, EndIsSeen, MovesOnUnseen DEF CheckAnswer
<1>5. CASE CompareSha1
  BY <1>5, EndIsSeen, MovesOnUnseen DEF CompareSha1
<1> QED BY <1>1, <1>2, <1>3, <1>4, <1>5

LEMMA EnvironmentRefines == ASSUME WholeInv, AllAccounted, Environment PROVE Atomic!Next \/ Unseen
<1> USE DEF service
<1>1. CASE AskToQuit \/ Withdraw \/ ChangeFile \/ ExpireUpload
  BY <1>1 DEF AskToQuit, Withdraw, ChangeFile, ExpireUpload, Unseen, Phase, Idle
<1>2. CASE Crash
  <2>1. CASE pc = "complete" /\ Publish
    BY <1>2, <2>1, PublishesWhole DEF Crash, Return, Forget, Idle, Atomic!Next, Atomic!PublishUnseen
  <2>2. CASE UNCHANGED published
    BY <1>2, <2>2, EndIsSeen DEF Crash, Idle
  <2> QED BY <1>2, <2>1, <2>2 DEF Crash
<1> QED BY <1>1, <1>2 DEF Environment

LEMMA StepRefines ==
    ASSUME WholeInv, AllAccounted, [Next]_vars
    PROVE  [Atomic!Next]_<<published, Phase>>
<1>1. CASE Start
  BY <1>1 DEF Start, Idle, service, Atomic!Next, Atomic!Begin
<1>2. CASE Step
  BY <1>2, BeforeLoopRefines, LoopRefines, CompleteRefines, EndRefines DEF Step, Unseen
<1>3. CASE Environment
  BY <1>3, EnvironmentRefines DEF Unseen
<1>4. CASE UNCHANGED vars
  BY <1>4 DEF vars, service, call, Phase, Idle
<1> QED BY <1>1, <1>2, <1>3, <1>4, Zenon DEF Next

\* The uploader implements AtomicPublish: the file of the service is only ever replaced by a whole version, and a call reports
\* success after that only.  For callers that leave the file alone during a call and do not take back a request to quit.
THEOREM UploadIsAtomic == ASSUME Steady PROVE Spec => ImplementsAtomicPublish
<1>1. Init => WholeInv /\ AllAccounted
  BY InitWhole DEF Init, AllAccounted
<1>2. WholeInv /\ AllAccounted /\ [Next]_vars => WholeInv' /\ AllAccounted'
  BY NextWhole, NextAccounted DEF Steady
<1>3. WholeInv /\ AllAccounted /\ [Next]_vars => [Atomic!Next]_<<published, Phase>>
  BY StepRefines
<1>4. Init => Atomic!Init
  BY DEF Init, Idle, Atomic!Init
<1> QED BY <1>1, <1>2, <1>3, <1>4, PTL DEF Spec, ImplementsAtomicPublish, Atomic!Spec, Phase, AnsweredPcs

-----------------------------------------------------------------------------
(***************************************************************************)
(* Of two calls in a row that meet no failure the second delivers          *)
(* (SecondQuietCallDelivers), whatever the calls before them left in the   *)
(* record and with the service; if the service forgets no upload and       *)
(* records can be opened, as in the run upload_recovery, and the SHA-1     *)
(* stands in for a CRC that was read of nothing.                           *)
(***************************************************************************)
Recoverable ==
    /\ Steady /\ Events \cap {"expire", "open"} = {}
    /\ HasCheckpoint /\ (HasCrc => HasSha1)

Base == WholeInv /\ AllAccounted

(* A record that a call would resume from names an upload that takes parts, or lists all of them. *)
Useful ==
    IsFor(file) /\ uploads[record.upload].state # "open"
        => 1 .. PartCount[file] \subseteq Numbers(record.parts)

(* The record lists what the call does, but while it is written, and a part is in one place only. *)
ListedPcs == {"plan", "pop", "url", "put", "joined", "control", "verify", "complete"}
Followed ==
    /\ pc \in ListedPcs => IsFor(target) /\ record.upload = upload /\ record.parts = uploadedParts
    /\ pc \in {"pop", "openAgain", "writeAgain", "url", "put"} =>
          /\ partsToUpload \subseteq 1 .. PartCount[target]
          /\ partsToUpload \cap Numbers(uploadedParts) = {}
    /\ pc \in {"url", "put"} =>
          /\ part \in 1 .. PartCount[target]
          /\ part \notin partsToUpload \cup Numbers(uploadedParts)
    /\ pc \in {"open", "write", "openAgain", "writeAgain"} => IsOpen

(* What was completed is the version the call began with. *)
CompletedPcs == {"answered", "checkHash", "compare", "crcDiffers", "finish"}
Completed ==
    /\ pc \in CompletedPcs => uploads[upload].parts = Content(target)
    /\ pc = "answered" => uploadedParts # {}

(* A call that meets no failure has nothing to complain of, unless its upload is closed, and its record does not stay. *)
Smooth ==
    /\ enable /\ control = "none"
    /\ outcomes.failure = "none" /\ outcomes.size <= Cardinality(uploadedParts)
    /\ pc = "load" => outcomes.size = 0
    /\ pc \in {"rapid", "compare"} => hashed = target
    /\ pc = "rapidDone" => published = Content(target) /\ ~IsFor(file)
    /\ pc \in {"url", "put"} => IsOpen
    /\ pc # "crcDiffers"

(* The call after such a call works with an upload of its own. *)
Fresh ==
    /\ pc = "load" => ~IsFor(file)
    /\ pc \in {"open", "write", "plan"} \cup LoopPcs => IsOpen
    /\ pc # "refused"

Quietly ==
    /\ pc = "idle" => /\ enable /\ control = "none" /\ uploadedParts = {}
                      /\ outcomes = [size |-> 0, failure |-> "none"]
                      /\ quietCalls >= 1 => target = file /\ ~IsFor(file)
    /\ pc # "idle" /\ quietCalls >= 0 => Smooth
    /\ pc # "idle" /\ quietCalls >= 1 => Fresh

QuietInv == Base /\ Useful /\ Followed /\ Completed /\ Quietly /\ SecondQuietCallDelivers

-----------------------------------------------------------------------------
(* Facts about one state, and about steps by what they leave alone. *)

LEMMA BaseInvariance == ASSUME Steady PROVE Spec => []Base
<1>1. Init => Base
  BY InitWhole DEF Init, AllAccounted, Base
<1>2. Base /\ [Next]_vars => Base'
  BY NextWhole, NextAccounted DEF Steady, Base
<1> QED BY <1>1, <1>2, PTL DEF Spec

LEMMA NoHarm ==
    ASSUME Recoverable
    PROVE  ~Event("open") /\ ~Event("expire") /\ ~Event("edit") /\ ~Event("withdraw")
BY DEF Recoverable, Steady, Event

LEMMA QuietBasics ==
    ASSUME QuietInv
    PROVE  /\ WholeInv /\ Inv /\ (pc # "idle" => target = file)
           /\ file \in Versions /\ target \in Versions
           /\ PartCount[target] \in Nat /\ PartCount[target] >= 1 /\ 1 .. PartCount[target] \subseteq Parts
           /\ upload # NoUpload => upload \in Uploads
           /\ record.state = "saved" => record.upload \in Uploads /\ record.upload # NoUpload
           /\ quietCalls \in Nat \cup {-1}
           /\ outcomes.size \in Nat
<1>1. WholeInv /\ Inv /\ (pc # "idle" => target = file)
  BY DEF QuietInv, Base, WholeInv, AllAccounted
<1>2. PartCount[target] \in Nat /\ PartCount[target] >= 1 /\ 1 .. PartCount[target] \subseteq Parts
  BY <1>1, PartsAreNumbers, UploadsInRange DEF Parts
<1>3. quietCalls \in Nat \cup {-1} /\ outcomes.size \in Nat
  BY <1>1 DEF Inv, TypeOK, BudgetOK, CallOK
<1> QED BY <1>1, <1>2, <1>3, UploadsInRange DEF Inv, Named

(* A part the call may ask a url for goes to an upload that takes it. *)
LEMMA StillOpen ==
    ASSUME QuietInv, pc \in ListedPcs, NEW p \in 1 .. PartCount[target], p \notin Numbers(uploadedParts)
    PROVE  IsOpen
<1>1. target = file
  BY QuietBasics DEF ListedPcs
<1>2. IsFor(file) /\ record.upload = upload /\ record.parts = uploadedParts
  BY <1>1 DEF QuietInv, Followed
<1>3. uploads[upload].state = "open"
  BY <1>1, <1>2 DEF QuietInv, Useful
<1> QED BY <1>2, <1>3, QuietBasics DEF IsOpen, IsFor

LEMMA EntriesFinite ==
    ASSUME NEW list, list \subseteq Entries
    PROVE  IsFiniteSet(list) /\ Cardinality(list) \in Nat
<1> DEFINE pairs == Parts \X (0 .. NumVersions)
           pair == [e \in list |-> <<e.partNumber, e.crc>>]
<1>1. IsFiniteSet(Parts) /\ IsFiniteSet(0 .. NumVersions)
  BY VersionsAssumption, FS_Interval DEF Parts
<1>2. IsFiniteSet(pairs)
  BY <1>1, FS_Product
<1>3. \A e \in Entries : \A f \in Entries : e.partNumber = f.partNumber /\ e.crc = f.crc => e = f
  BY DEF Entries
<1>4. \A e \in list : e \in Entries /\ <<e.partNumber, e.crc>> \in pairs
  BY DEF Entries
<1>5. pair \in Injection(list, pairs)
  BY <1>3, <1>4 DEF Injection, IsInjective
<1>6. IsFiniteSet(list)
  BY <1>2, <1>5, FS_Injection
<1> QED BY <1>6, FS_CardinalityType

LEMMA AnswerMatches ==
    ASSUME QuietInv, pc = "answered"
    PROVE  SizeMatches /\ uploadedParts # {}
<1>1. {p \in Parts : Content(target)[p] # Hole} = 1 .. PartCount[target]
  BY QuietBasics, NumbersAreOne, VersionsAssumption DEF Content, Parts
<1>2. Cardinality(1 .. PartCount[target]) = PartCount[target]
  BY QuietBasics, FS_Interval
<1>3. Size(Content(target)) = PartCount[target]
  BY <1>1, <1>2 DEF Size
<1> QED BY <1>3 DEF QuietInv, Completed, CompletedPcs, SizeMatches

LEMMA Loud == ASSUME NEW kind, Event(kind) PROVE quietCalls' = -1
BY DEF Event

LEMMA Calmly == ASSUME Calm PROVE quietCalls' = quietCalls
BY DEF Calm, budget

OpenStay == \A u \in Uploads : uploads[u].state = "open" => uploads'[u].state = "open"

LEMMA UsefulStays ==
    ASSUME QuietInv, file' = file, NotWritten, OpenStay
    PROVE  Useful'
<1>1. IsFor(file)' => record' = record /\ IsFor(file)
  BY RecordTypes DEF NotWritten, IsFor
<1> QED BY <1>1, QuietBasics DEF QuietInv, Useful, OpenStay, IsFor

LEMMA SameUploads == ASSUME UNCHANGED service PROVE OpenStay
BY DEF service, OpenStay

(* A call that goes on, and one that ends. *)
LEMMA GoesOnQuietly ==
    ASSUME QuietInv, Calm, pc # "idle", pc' # "idle",
           quietCalls >= 0 => Smooth',
           quietCalls >= 1 => Fresh'
    PROVE  Quietly' /\ SecondQuietCallDelivers'
BY Calmly DEF Quietly, SecondQuietCallDelivers, Idle

LEMMA EventQuietly ==
    ASSUME NEW kind, Event(kind), NEW code, pc' # "idle" \/ Return(code)
    PROVE  Quietly' /\ SecondQuietCallDelivers'
<1>1. quietCalls' = -1
  BY Loud
<1> QED BY <1>1 DEF Quietly, SecondQuietCallDelivers, Idle, Return, Forget

LEMMA EndsLoudly ==
    ASSUME Base', Useful', NEW kind, Event(kind), NEW code, Return(code)
    PROVE  QuietInv'
<1>1. Quietly' /\ SecondQuietCallDelivers'
  BY EventQuietly
<1>2. Followed' /\ Completed'
  BY DEF Return, Forget, Followed, Completed, ListedPcs, CompletedPcs
<1> QED BY <1>1, <1>2 DEF QuietInv

LEMMA EndsCalmly ==
    ASSUME QuietInv, Base', Useful', pc # "idle", NEW code, Return(code), CalmEnd,
           quietCalls >= 0 => ~IsFor(file)',
           quietCalls >= 1 => code = "ok" /\ published' = Content(target)
    PROVE  QuietInv'
<1>1. quietCalls' = quietCalls + 1 /\ quietCalls \in Nat \cup {-1} /\ target = file
  BY QuietBasics DEF CalmEnd
<1>2. Quietly' /\ SecondQuietCallDelivers'
  BY <1>1 DEF Return, Forget, Quietly, SecondQuietCallDelivers, Idle
<1>3. Followed' /\ Completed'
  BY DEF Return, Forget, Followed, Completed, ListedPcs, CompletedPcs
<1> QED BY <1>2, <1>3 DEF QuietInv

(* A call that ends otherwise than by success had something to complain of before. *)
LEMMA EndsWithReason ==
    ASSUME QuietInv, Base', Useful', pc # "idle", NEW code, Return(code), CalmEnd, ~Smooth
    PROVE  QuietInv'
<1>1. ~(quietCalls >= 0)
  BY DEF QuietInv, Quietly
<1> QED BY <1>1, QuietBasics, EndsCalmly

LEMMA StaysSmooth ==
    ASSUME Smooth, UNCHANGED <<enable, control, uploadedParts, outcomes>>,
           pc' \notin {"load", "rapid", "compare", "rapidDone", "url", "put", "crcDiffers"}
    PROVE  Smooth'
BY DEF Smooth

LEMMA StaysFresh ==
    ASSUME QuietInv, Fresh, UNCHANGED upload, OpenStay, pc' \notin {"load", "refused"},
           pc' \in {"open", "write", "plan"} \cup LoopPcs => pc \in {"open", "write", "plan"} \cup LoopPcs
    PROVE  Fresh'
<1>1. IsOpen => IsOpen'
  BY QuietBasics DEF IsOpen, OpenStay
<1> QED BY <1>1 DEF Fresh

-----------------------------------------------------------------------------
(* The steps of a call up to the loop. *)

LEMMA StartQuiet == ASSUME QuietInv, Base', Start PROVE QuietInv'
<1> USE DEF Start, Idle, outside, lists
<1>1. Useful'
  BY UsefulStays, SameUploads DEF NotWritten
<1>2. Followed' /\ Completed'
  BY DEF Followed, Completed, ListedPcs, CompletedPcs
<1>3. /\ UNCHANGED <<enable, control, uploadedParts, outcomes>>
      /\ enable /\ control = "none" /\ uploadedParts = {}
      /\ outcomes.size = 0 /\ outcomes.failure = "none"
  BY DEF QuietInv, Quietly
<1>4. outcomes.size <= Cardinality(uploadedParts)
  BY <1>3, FS_EmptySet
<1>5. Smooth'
  BY <1>3, <1>4 DEF Smooth
<1>6. quietCalls' >= 1 => quietCalls >= 1
  BY QuietBasics
<1>7. quietCalls >= 1 => ~IsFor(file)'
  BY DEF QuietInv, Quietly, IsFor
<1>8. quietCalls >= 1 => Fresh'
  BY <1>7 DEF Fresh, LoopPcs
<1>9. Quietly' /\ SecondQuietCallDelivers'
  BY <1>5, <1>6, <1>8 DEF Quietly, SecondQuietCallDelivers
<1> QED BY <1>1, <1>2, <1>9 DEF QuietInv

LEMMA LoadRecordQuiet == ASSUME QuietInv, Recoverable, Base', LoadRecord PROVE QuietInv'
<1> USE DEF outside
<1>1. pc = "load" /\ pc' \in {"plan", "create"} /\ target = file /\ UNCHANGED <<outside, service, target, outcomes>>
  BY QuietBasics DEF LoadRecord
<1>2. NotWritten
  BY DEF LoadRecord, DropRecord, NotWritten
<1>3. Useful'
  BY <1>1, <1>2, UsefulStays, SameUploads
<1>4. Completed'
  BY <1>1 DEF Completed, CompletedPcs
<1>5. CASE RecordIsValid /\ upload' = record.upload /\ uploadedParts' = record.parts /\ pc' = "plan" /\ UNCHANGED record /\ Calm
  <2>1. IsFor(target) /\ IsFor(target)'
    BY <1>1, <1>5 DEF RecordIsValid, IsFor
  <2>2. Followed'
    BY <1>5, <2>1 DEF Followed
  <2>3. record.parts \subseteq Entries
    BY <2>1, QuietBasics DEF IsFor, Inv, TypeOK, CallerOK, RecordFiles
  <2>4. Cardinality(record.parts) \in Nat
    BY <2>3, EntriesFinite
  <2>5. quietCalls >= 0 => Smooth'
    BY <1>1, <1>5, <2>4 DEF QuietInv, Quietly, Smooth
  <2>6. ~(quietCalls >= 1)
    BY <1>1, <2>1 DEF QuietInv, Quietly, Fresh
  <2>7. Quietly' /\ SecondQuietCallDelivers'
    BY <1>1, <1>5, <2>5, <2>6, GoesOnQuietly
  <2> QED BY <1>3, <1>4, <2>2, <2>7 DEF QuietInv
<1>6. CASE pc' = "create" /\ UNCHANGED <<upload, uploadedParts>>
  <2>1. Followed'
    BY <1>6 DEF Followed, ListedPcs
  <2>2. CASE Calm
    <3>1. quietCalls >= 0 => Smooth'
      BY <1>1, <1>6, StaysSmooth DEF QuietInv, Quietly
    <3>2. quietCalls >= 1 => Fresh'
      BY <1>1, <1>6 DEF Fresh, LoopPcs
    <3>3. Quietly' /\ SecondQuietCallDelivers'
      BY <1>1, <2>2, <3>1, <3>2, GoesOnQuietly
    <3> QED BY <1>3, <1>4, <2>1, <3>3 DEF QuietInv
  <2>3. CASE Event("remove")
    <3>1. Quietly' /\ SecondQuietCallDelivers'
      BY <1>6, <2>3, EventQuietly
    <3> QED BY <1>3, <1>4, <2>1, <3>1 DEF QuietInv
  <2> QED BY <1>6, <2>2, <2>3 DEF LoadRecord
<1> QED BY <1>5, <1>6 DEF LoadRecord

LEMMA NewUploadQuiet ==
    ASSUME QuietInv, Recoverable, Base', NewUpload, Calm, pc \in {"create", "rapid"},
           UNCHANGED <<outside, record, lists, target>>
    PROVE  QuietInv'
<1> USE DEF outside, lists
<1>1. PICK u \in Uploads :
         /\ uploads[u].state = "unused"
         /\ uploads' = [uploads EXCEPT ![u].state = "open"]
         /\ upload' = u /\ pc' = "open"
  BY DEF NewUpload, Recoverable
<1>2. /\ \A w \in Uploads \ {u} : uploads'[w] = uploads[w]
      /\ uploads'[u].state = "open"
  BY <1>1, QuietBasics DEF Inv, TypeOK, ServiceOK
<1>3. OpenStay
  BY <1>2 DEF OpenStay
<1>4. Useful'
  BY <1>3, UsefulStays DEF NotWritten
<1>5. IsOpen'
  BY <1>1, <1>2, NumbersAreOne DEF IsOpen
<1>6. Followed' /\ Completed'
  BY <1>1, <1>5 DEF Followed, Completed, ListedPcs, CompletedPcs
<1>7. quietCalls >= 0 => Smooth'
  BY <1>1, StaysSmooth DEF QuietInv, Quietly
<1>8. Fresh'
  BY <1>1, <1>5 DEF Fresh
<1>9. Quietly' /\ SecondQuietCallDelivers'
  BY <1>1, <1>7, <1>8, GoesOnQuietly
<1> QED BY <1>4, <1>6, <1>9 DEF QuietInv

LEMMA CreateQuiet == ASSUME QuietInv, Recoverable, Base', Create PROVE QuietInv'
<1>1. pc = "create" /\ UNCHANGED <<record, published>>
  BY DEF Create
<1>2. CASE NewUpload /\ Calm /\ UNCHANGED <<outside, lists, hashed, result, target>>
  BY <1>1, <1>2, NewUploadQuiet
<1>3. CASE pc' = "hash" /\ UNCHANGED <<outside, uploads, call, result>> /\ Calm
  <2> USE <1>1, <1>3 DEF outside, call, lists
  <2>1. Useful'
    BY UsefulStays, SameUploads DEF NotWritten, service
  <2>2. Followed' /\ Completed'
    BY DEF Followed, Completed, ListedPcs, CompletedPcs
  <2>3. quietCalls >= 0 => Smooth'
    BY StaysSmooth DEF QuietInv, Quietly
  <2>4. Fresh'
    BY DEF Fresh, LoopPcs
  <2>5. Quietly' /\ SecondQuietCallDelivers'
    BY <2>3, <2>4, GoesOnQuietly
  <2> QED BY <2>1, <2>2, <2>5 DEF QuietInv
<1>4. CASE UNCHANGED uploads /\ \/ Event("service") /\ Return("ServiceError")
                                \/ Event("exist") /\ Return("SameNameFileExist")
  <2>1. Useful'
    BY <1>1, <1>4, UsefulStays DEF NotWritten, OpenStay, Return, Forget
  <2> QED BY <1>4, <2>1, EndsLoudly
<1> QED BY <1>2, <1>3, <1>4 DEF Create

LEMMA ComputeSha1Quiet == ASSUME QuietInv, Base', ComputeSha1 PROVE QuietInv'
<1> USE DEF outside, lists, service
<1>1. /\ pc \in {"hash", "checkHash"} /\ pc' \in {"rapid", "compare"}
      /\ (pc' = "compare" => pc = "checkHash")
      /\ UNCHANGED <<outside, record, service, target, upload, lists, result>>
      /\ Calm /\ target = file
  BY QuietBasics DEF ComputeSha1
<1>2. Useful'
  BY <1>1, UsefulStays, SameUploads DEF NotWritten
<1>3. Followed' /\ Completed'
  BY <1>1 DEF QuietInv, Followed, Completed, ListedPcs, CompletedPcs
<1>4. ASSUME quietCalls >= 0 PROVE Smooth'
  <2>1. Smooth
    BY <1>1, <1>4 DEF QuietInv, Quietly
  <2>2. hashed' = target
    BY <1>1, <2>1 DEF ComputeSha1, Smooth
  <2> QED BY <1>1, <2>1, <2>2 DEF Smooth
<1>5. Fresh'
  BY <1>1 DEF Fresh, LoopPcs
<1>6. Quietly' /\ SecondQuietCallDelivers'
  BY <1>1, <1>4, <1>5, GoesOnQuietly
<1> QED BY <1>2, <1>3, <1>6 DEF QuietInv

LEMMA RapidCreateQuiet == ASSUME QuietInv, Recoverable, Base', RapidCreate PROVE QuietInv'
<1>1. pc = "rapid" /\ target = file /\ UNCHANGED record
  BY QuietBasics DEF RapidCreate
<1>2. CASE (\E code \in {"stopped", "canceled"} : AskedToQuit(code) /\ Return(code)) /\ CalmEnd /\ UNCHANGED service
  <2>1. ~Smooth
    BY <1>2 DEF AskedToQuit, Smooth
  <2>2. Useful'
    BY <1>1, <1>2, UsefulStays, SameUploads DEF NotWritten, Return, Forget
  <2> QED BY <1>1, <1>2, <2>1, <2>2, EndsWithReason
<1>3. CASE /\ hashed # NoVersion /\ published' = Content(hashed) /\ pc' = "rapidDone"
           /\ Calm /\ UNCHANGED <<outside, uploads, call, result>>
  <2> USE <1>1, <1>3 DEF outside, call, lists
  <2>1. Useful'
    BY UsefulStays DEF NotWritten, OpenStay
  <2>2. Followed' /\ Completed'
    BY DEF Followed, Completed, ListedPcs, CompletedPcs
  <2>3. ~IsFor(file)'
    BY QuietBasics DEF WholeInv, Agreed, IsFor
  <2>4. ASSUME quietCalls >= 0 PROVE Smooth'
    <3>1. Smooth
      BY <2>4 DEF QuietInv, Quietly
    <3>2. published' = Content(target)
      BY <3>1 DEF Smooth
    <3>3. published' = Content(target)'
      BY <3>2 DEF Content
    <3> QED BY <2>3, <3>1, <3>3 DEF Smooth
  <2>5. Fresh'
    BY DEF Fresh, LoopPcs
  <2>6. Quietly' /\ SecondQuietCallDelivers'
    BY <2>4, <2>5, GoesOnQuietly
  <2> QED BY <2>1, <2>2, <2>6 DEF QuietInv
<1>4. CASE NewUpload /\ Calm /\ UNCHANGED <<outside, published, lists, hashed, result, target>>
  BY <1>1, <1>4, NewUploadQuiet
<1>5. CASE Event("service") /\ Return("ServiceError") /\ UNCHANGED service
  <2>1. Useful'
    BY <1>1, <1>5, UsefulStays, SameUploads DEF NotWritten, Return, Forget
  <2> QED BY <1>5, <2>1, EndsLoudly
<1> QED BY <1>2, <1>3, <1>4, <1>5 DEF RapidCreate

LEMMA ReturnRapidQuiet == ASSUME QuietInv, Base', ReturnRapid PROVE QuietInv'
<1>1. pc = "rapidDone" /\ Return("ok") /\ CalmEnd /\ UNCHANGED <<record, service, file>>
  BY DEF ReturnRapid, Return, Forget
<1>2. Useful'
  BY <1>1, UsefulStays, SameUploads DEF NotWritten
<1>3. quietCalls >= 0 => ~IsFor(file) /\ published = Content(target)
  BY <1>1 DEF QuietInv, Quietly, Smooth
<1>4. quietCalls >= 0 => ~IsFor(file)' /\ published' = Content(target)
  BY <1>1, <1>3 DEF IsFor, service
<1> QED BY <1>1, <1>2, <1>4, QuietBasics, EndsCalmly

-----------------------------------------------------------------------------
(* The steps of the loop. *)

LEMMA OpenRecordQuiet == ASSUME QuietInv, Recoverable, Base', OpenRecord PROVE QuietInv'
<1> USE DEF outside, call, lists, service
<1>1. /\ pc \in {"open", "openAgain"} /\ record' = Damaged /\ Calm
      /\ pc' \in {"write", "writeAgain"} /\ (pc' = "writeAgain" => pc = "openAgain")
      /\ UNCHANGED <<outside, service, call, result>>
  BY NoHarm DEF OpenRecord
<1>2. Useful'
  BY <1>1, UsefulStays, SameUploads DEF NotWritten
<1>3. IsOpen' = IsOpen
  BY <1>1 DEF IsOpen
<1>4. Followed' /\ Completed'
  BY <1>1, <1>3 DEF QuietInv, Followed, Completed, ListedPcs, CompletedPcs
<1>5. quietCalls >= 0 => Smooth'
  BY <1>1, StaysSmooth DEF QuietInv, Quietly
<1>6. quietCalls >= 1 => Fresh'
  BY <1>1, <1>3 DEF QuietInv, Followed, Fresh, LoopPcs
<1>7. Quietly' /\ SecondQuietCallDelivers'
  BY <1>1, <1>5, <1>6, GoesOnQuietly
<1> QED BY <1>2, <1>4, <1>7 DEF QuietInv

LEMMA WriteRecordQuiet == ASSUME QuietInv, Base', WriteRecord PROVE QuietInv'
<1> USE DEF outside, call, lists, service
<1>1. /\ pc \in {"write", "writeAgain"} /\ record' = Saved(uploadedParts) /\ Calm
      /\ pc' \in {"plan", "pop"} /\ (pc' = "pop" => pc = "writeAgain")
      /\ UNCHANGED <<outside, service, call, result>> /\ target = file
  BY QuietBasics DEF WriteRecord
<1>2. IsOpen /\ IsOpen'
  BY <1>1 DEF QuietInv, Followed, IsOpen
<1>3. /\ IsFor(target)' /\ record'.upload = upload /\ record'.parts = uploadedParts
  BY <1>1 DEF Saved, IsFor
<1>4. Useful'
  BY <1>1, <1>2, <1>3 DEF Useful, IsOpen
<1>5. Followed' /\ Completed'
  BY <1>1, <1>3 DEF QuietInv, Followed, Completed, CompletedPcs
<1>6. quietCalls >= 0 => Smooth'
  BY <1>1, StaysSmooth DEF QuietInv, Quietly
<1>7. Fresh'
  BY <1>1, <1>2 DEF Fresh
<1>8. Quietly' /\ SecondQuietCallDelivers'
  BY <1>1, <1>6, <1>7, GoesOnQuietly
<1> QED BY <1>4, <1>5, <1>8 DEF QuietInv

LEMMA PlanQuiet == ASSUME QuietInv, Base', Plan PROVE QuietInv'
<1> USE DEF outside, service
<1>1. /\ pc = "plan" /\ pc' = "pop" /\ partsToUpload' = ToUpload /\ Calm
      /\ UNCHANGED <<outside, record, service, target, upload, uploadedParts, outcomes>>
  BY DEF Plan
<1>2. Useful'
  BY <1>1, UsefulStays, SameUploads DEF NotWritten
<1>3. IsFor(target)' = IsFor(target)
  BY <1>1 DEF IsFor
<1>4. Followed' /\ Completed'
  BY <1>1, <1>3 DEF QuietInv, Followed, Completed, ListedPcs, CompletedPcs, ToUpload
<1>5. quietCalls >= 0 => Smooth'
  BY <1>1, StaysSmooth DEF QuietInv, Quietly
<1>6. quietCalls >= 1 => Fresh'
  BY <1>1, StaysFresh, SameUploads DEF QuietInv, Quietly
<1>7. Quietly' /\ SecondQuietCallDelivers'
  BY <1>1, <1>5, <1>6, GoesOnQuietly
<1> QED BY <1>2, <1>4, <1>7 DEF QuietInv

LEMMA PopQuiet == ASSUME QuietInv, Base', Pop PROVE QuietInv'
<1> USE DEF outside, service
<1>1. /\ pc = "pop" /\ pc' \in {"joined", "url"} /\ Calm
      /\ UNCHANGED <<outside, record, service, target, upload, uploadedParts, outcomes>>
  BY DEF Pop
<1>2. Useful'
  BY <1>1, UsefulStays, SameUploads DEF NotWritten
<1>3. IsFor(target)' = IsFor(target) /\ IsOpen' = IsOpen
  BY <1>1 DEF IsFor, IsOpen
<1>4. pc' = "url" => /\ part' \in partsToUpload
                     /\ partsToUpload' = partsToUpload \ {part'}
  BY DEF Pop, Take
<1>5. Followed'
  <2>1. IsFor(target)' /\ record'.upload = upload' /\ record'.parts = uploadedParts'
    BY <1>1, <1>3 DEF QuietInv, Followed, ListedPcs
  <2>2. /\ partsToUpload \subseteq 1 .. PartCount[target]
        /\ partsToUpload \cap Numbers(uploadedParts) = {}
    BY <1>1 DEF QuietInv, Followed
  <2>3. pc' = "url" =>
          /\ partsToUpload' \subseteq 1 .. PartCount[target]
          /\ partsToUpload' \cap Numbers(uploadedParts) = {}
          /\ part' \in 1 .. PartCount[target]
          /\ part' \notin partsToUpload' \cup Numbers(uploadedParts)
    BY <1>4, <2>2
  <2>4. Numbers(uploadedParts)' = Numbers(uploadedParts) /\ (1 .. PartCount[target])' = 1 .. PartCount[target]
    BY <1>1 DEF Numbers
  <2> QED BY <1>1, <2>1, <2>3, <2>4 DEF Followed
<1>6. Completed'
  BY <1>1 DEF Completed, CompletedPcs
<1>7. pc' = "url" => IsOpen'
  BY <1>1, <1>3, <1>4, StillOpen DEF QuietInv, Followed, ListedPcs
<1>8. quietCalls >= 0 => Smooth'
  BY <1>1, <1>7 DEF QuietInv, Quietly, Smooth
<1>9. quietCalls >= 1 => Fresh'
  BY <1>1, StaysFresh, SameUploads DEF QuietInv, Quietly, LoopPcs
<1>10. Quietly' /\ SecondQuietCallDelivers'
  BY <1>1, <1>8, <1>9, GoesOnQuietly
<1> QED BY <1>2, <1>5, <1>6, <1>10 DEF QuietInv

LEMMA GetUrlQuiet == ASSUME QuietInv, Base', GetUrl PROVE QuietInv'
<1> USE DEF outside, call, lists, service
<1>1. pc = "url" /\ IsOpen /\ UNCHANGED <<record, service, file, target>>
  BY StillOpen DEF QuietInv, Followed, ListedPcs, GetUrl, Return, Forget
<1>2. Useful'
  BY <1>1, UsefulStays, SameUploads DEF NotWritten
<1>3. CASE pc' = "put" /\ Calm /\ UNCHANGED <<outside, call, result>>
  <2>1. IsOpen'
    BY <1>1, <1>3 DEF IsOpen
  <2>2. IsFor(target)' = IsFor(target) /\ Numbers(uploadedParts)' = Numbers(uploadedParts)
    BY <1>1, <1>3 DEF IsFor, Numbers
  <2>3. Followed' /\ Completed'
    BY <1>1, <1>3, <2>2 DEF QuietInv, Followed, Completed, ListedPcs, CompletedPcs
  <2>4. quietCalls >= 0 => Smooth'
    BY <1>1, <1>3, <2>1 DEF QuietInv, Quietly, Smooth
  <2>5. Fresh'
    BY <1>3, <2>1 DEF Fresh
  <2>6. Quietly' /\ SecondQuietCallDelivers'
    BY <1>1, <1>3, <2>4, <2>5, GoesOnQuietly
  <2> QED BY <1>2, <2>3, <2>6 DEF QuietInv
<1>4. CASE Event("service") /\ Return("ServiceError")
  BY <1>2, <1>4, EndsLoudly
<1> QED BY <1>1, <1>3, <1>4 DEF GetUrl

(* A part that counts joins the list; it was not there before. *)
LEMMA PartJoins ==
    ASSUME QuietInv, Recoverable, pc = "put", NEW crc, Answer(TRUE, crc), IsOpen, OpenStay,
           UNCHANGED <<file, record, target, upload, partsToUpload>>
    PROVE  /\ Useful' /\ Followed' /\ Completed' /\ IsOpen'
           /\ Cardinality(uploadedParts') = Cardinality(uploadedParts) + 1
           /\ outcomes'.size = outcomes.size + 1 /\ outcomes'.failure = outcomes.failure
           /\ pc' = "openAgain"
<1> USE DEF Answer
<1>1. /\ uploadedParts' = uploadedParts \cup {Entry(part, crc)} /\ pc' = "openAgain"
      /\ outcomes'.size = outcomes.size + 1 /\ outcomes'.failure = outcomes.failure
  BY QuietBasics DEF Recoverable, Inv, TypeOK, CallOK
<1>2. Useful'
  BY UsefulStays DEF NotWritten
<1>3. Entry(part, crc).partNumber = part
  BY DEF Entry
<1>4. part \notin partsToUpload \cup Numbers(uploadedParts)
  BY DEF QuietInv, Followed
<1>5. IsOpen'
  BY QuietBasics DEF IsOpen, OpenStay
<1>6. Numbers(uploadedParts)' = Numbers(uploadedParts) \cup {part}
  BY <1>1, <1>3 DEF Numbers
<1>7. Followed' /\ Completed'
  BY <1>1, <1>4, <1>5, <1>6 DEF QuietInv, Followed, Completed, ListedPcs, CompletedPcs
<1>8. Entry(part, crc) \notin uploadedParts
  BY <1>3, <1>4 DEF Numbers
<1>9. uploadedParts \subseteq Entries
  BY QuietBasics DEF Inv, TypeOK, CallOK
<1>10. Cardinality(uploadedParts') = Cardinality(uploadedParts) + 1
  BY <1>1, <1>8, <1>9, EntriesFinite, FS_AddElement
<1> QED BY <1>1, <1>2, <1>5, <1>7, <1>10

LEMMA PartCounts ==
    ASSUME QuietInv, Recoverable, Base', pc = "put", NEW crc, Answer(TRUE, crc), IsOpen, OpenStay, Calm,
           UNCHANGED <<outside, record, target, upload, partsToUpload>>
    PROVE  QuietInv'
<1> USE DEF outside
<1>1. /\ Useful' /\ Followed' /\ Completed' /\ IsOpen' /\ pc' = "openAgain"
      /\ Cardinality(uploadedParts') = Cardinality(uploadedParts) + 1
      /\ outcomes'.size = outcomes.size + 1 /\ outcomes'.failure = outcomes.failure
  BY PartJoins
<1>2. outcomes.size \in Nat /\ Cardinality(uploadedParts) \in Nat
  BY QuietBasics, EntriesFinite DEF Inv, TypeOK, CallOK
<1>3. ASSUME quietCalls >= 0 PROVE Smooth'
  <2>1. Smooth
    BY <1>3 DEF QuietInv, Quietly
  <2>2. outcomes'.size <= Cardinality(uploadedParts')
    BY <1>1, <1>2, <2>1 DEF Smooth
  <2> QED BY <1>1, <2>1, <2>2 DEF Smooth
<1>4. Fresh'
  BY <1>1 DEF Fresh
<1>5. Quietly' /\ SecondQuietCallDelivers'
  BY <1>1, <1>3, <1>4, GoesOnQuietly
<1> QED BY <1>1, <1>5 DEF QuietInv

(* A PUT closes no upload. *)
LEMMA PutOpens == ASSUME QuietInv, UNCHANGED uploads \/ (CanPut /\ Put) PROVE OpenStay
BY QuietBasics DEF Inv, TypeOK, ServiceOK, Put, CanPut, IsOpen, OpenStay

LEMMA PutSucceedsQuiet == ASSUME QuietInv, Recoverable, Base', PutSucceeds PROVE QuietInv'
BY PutOpens, PartCounts DEF PutSucceeds, CanPut

LEMMA PutFindsPartQuiet == ASSUME QuietInv, Recoverable, Base', PutFindsPart PROVE QuietInv'
<1>1. PICK crc : Answer(TRUE, crc)
  BY DEF PutFindsPart
<1>2. /\ pc = "put" /\ CanPut /\ IsOpen /\ OpenStay
      /\ UNCHANGED <<outside, record, target, upload, partsToUpload>>
  BY PutOpens DEF PutFindsPart, CanPut
<1>3. CASE Calm
  BY <1>1, <1>2, <1>3, PartCounts
<1>4. CASE Event("lost")
  <2>1. Useful' /\ Followed' /\ Completed' /\ pc' = "openAgain"
    BY <1>1, <1>2, PartJoins DEF outside
  <2>2. Quietly' /\ SecondQuietCallDelivers'
    BY <1>4, <2>1, EventQuietly
  <2> QED BY <2>1, <2>2 DEF QuietInv
<1> QED BY <1>3, <1>4 DEF PutFindsPart

(* A PUT fails only where something fails, or the caller wants to quit. *)
LEMMA PutFailsQuiet == ASSUME QuietInv, Base', PutFails PROVE QuietInv'
<1> USE DEF outside
<1>1. /\ pc = "put" /\ pc' = "pop" /\ OpenStay
      /\ UNCHANGED <<outside, record, target, upload, partsToUpload, uploadedParts, hashed>>
  BY PutOpens DEF PutFails, Answer
<1>2. Useful'
  BY <1>1, UsefulStays DEF NotWritten
<1>3. IsFor(target)' = IsFor(target) /\ Numbers(uploadedParts)' = Numbers(uploadedParts)
  BY <1>1 DEF IsFor, Numbers
<1>4. Followed' /\ Completed'
  BY <1>1, <1>3 DEF QuietInv, Followed, Completed, ListedPcs, CompletedPcs
<1>5. part <= PartCount[file]
  BY <1>1, QuietBasics DEF QuietInv, Followed
<1>6. CASE Event("put")
  <2>1. Quietly' /\ SecondQuietCallDelivers'
    BY <1>1, <1>6, EventQuietly
  <2> QED BY <1>2, <1>4, <2>1 DEF QuietInv
<1>7. CASE (Quitting \/ ~CanPut) /\ Calm
  <2>1. ~Smooth
    BY <1>1, <1>5, <1>7 DEF Quitting, CanPut, Smooth
  <2>2. ~(quietCalls >= 0) /\ ~(quietCalls >= 1)
    BY <1>1, <2>1, QuietBasics DEF QuietInv, Quietly
  <2>3. Quietly' /\ SecondQuietCallDelivers'
    BY <1>1, <1>7, <2>2, GoesOnQuietly
  <2> QED BY <1>2, <1>4, <2>3 DEF QuietInv
<1> QED BY <1>6, <1>7 DEF PutFails

-----------------------------------------------------------------------------
(* The steps after the loop. *)

LEMMA CheckPassedQuiet ==
    ASSUME QuietInv, Base', Calm, UNCHANGED <<outside, call, record, service>>,
           pc \in {"joined", "control", "verify"}, pc' \in {"control", "verify", "complete"}
    PROVE  QuietInv'
<1> USE DEF outside, call, lists
<1>1. Useful'
  BY UsefulStays, SameUploads DEF NotWritten
<1>2. IsFor(target)' = IsFor(target)
  BY DEF IsFor
<1>3. Followed' /\ Completed'
  BY <1>2 DEF QuietInv, Followed, Completed, ListedPcs, CompletedPcs
<1>4. quietCalls >= 0 => Smooth'
  BY StaysSmooth DEF QuietInv, Quietly
<1>5. quietCalls >= 1 => Fresh'
  BY StaysFresh, SameUploads DEF QuietInv, Quietly, LoopPcs
<1>6. Quietly' /\ SecondQuietCallDelivers'
  BY <1>4, <1>5, GoesOnQuietly
<1> QED BY <1>1, <1>3, <1>6 DEF QuietInv

(* A call that ends otherwise than by success had something to complain of; or it drops its record. *)
LEMMA ComplainsQuiet ==
    ASSUME QuietInv, Base', pc # "idle", NEW code, Return(code), CalmEnd, UNCHANGED <<record, service>>, ~Smooth
    PROVE  QuietInv'
<1>1. Useful'
  BY UsefulStays, SameUploads DEF NotWritten, Return, Forget
<1> QED BY <1>1, EndsWithReason

LEMMA DroppingQuiet ==
    ASSUME QuietInv, Recoverable, Base', pc # "idle", NEW code, ReturnDropping(code), UNCHANGED service,
           quietCalls >= 1 => code = "ok" /\ published = Content(target)
    PROVE  QuietInv'
<1>1. Return(code) /\ UNCHANGED file /\ NotWritten
  BY DEF ReturnDropping, DropRecord, NotWritten, Return, Forget
<1>2. Useful'
  BY <1>1, UsefulStays, SameUploads
<1>3. CASE Event("remove")
  BY <1>1, <1>2, <1>3, EndsLoudly
<1>4. CASE DropRecord /\ CalmEnd
  <2>1. record' = NoRecord
    BY <1>4 DEF DropRecord, Recoverable
  <2>2. ~IsFor(file)'
    BY <2>1, RecordTypes DEF IsFor
  <2>3. published' = published
    BY DEF service
  <2> QED BY <1>1, <1>2, <1>4, <2>2, <2>3, EndsCalmly
<1> QED BY <1>1, <1>3, <1>4 DEF ReturnDropping

LEMMA ChecksQuiet ==
    ASSUME QuietInv, Recoverable, Base', CheckEnable \/ CheckControl \/ CheckOutcomes PROVE QuietInv'
<1>1. CASE CheckEnable
  <2>1. CASE ~enable
    BY <1>1, <2>1, ComplainsQuiet DEF CheckEnable, Smooth
  <2>2. CASE enable
    BY <1>1, <2>2, CheckPassedQuiet DEF CheckEnable
  <2> QED BY <2>1, <2>2
<1>2. CASE CheckControl
  <2>1. CASE control = "stop" /\ Return("stopped") /\ CalmEnd /\ UNCHANGED record
    BY <1>2, <2>1, ComplainsQuiet DEF CheckControl, Smooth
  <2>2. CASE control = "cancel" /\ ReturnDropping("canceled")
    <3>1. pc = "control" /\ UNCHANGED service /\ ~Smooth
      BY <1>2, <2>2 DEF CheckControl, Smooth
    <3>2. ~(quietCalls >= 1)
      BY <3>1, QuietBasics DEF QuietInv, Quietly
    <3> QED BY <2>2, <3>1, <3>2, DroppingQuiet
  <2>3. CASE control = "none" /\ pc' = "verify" /\ Calm /\ UNCHANGED <<outside, call, result, record>>
    BY <1>2, <2>3, CheckPassedQuiet DEF CheckControl
  <2> QED BY <1>2, <2>1, <2>2, <2>3 DEF CheckControl
<1>3. CASE CheckOutcomes
  <2>1. CASE Verdict = "none"
    BY <1>3, <2>1, CheckPassedQuiet DEF CheckOutcomes
  <2>2. CASE Verdict # "none"
    <3>1. Cardinality(uploadedParts) \in Nat /\ outcomes.size \in Nat
      BY QuietBasics, EntriesFinite DEF Inv, TypeOK, CallOK
    <3>2. ~Smooth
      BY <2>2, <3>1 DEF Verdict, Smooth
    <3> QED BY <1>3, <2>2, <3>2, ComplainsQuiet DEF CheckOutcomes
  <2> QED BY <2>1, <2>2
<1> QED BY <1>1, <1>2, <1>3

(* When the upload is to be completed the list is complete. *)
LEMMA ListIsComplete ==
    ASSUME QuietInv, pc = "complete"
    PROVE  /\ 1 .. PartCount[target] \subseteq Numbers(uploadedParts)
           /\ uploadedParts # {} /\ record.parts = uploadedParts /\ target = file
<1>1. Missing = {}
  BY DEF QuietInv, Base, AllAccounted
<1>2. 1 .. PartCount[target] \subseteq Numbers(uploadedParts)
  BY <1>1 DEF Missing
<1>3. 1 \in 1 .. PartCount[target]
  BY QuietBasics
<1>4. uploadedParts # {}
  BY <1>2, <1>3 DEF Numbers
<1> QED BY <1>2, <1>4, QuietBasics DEF QuietInv, Followed, ListedPcs

LEMMA CompleteQuiet == ASSUME QuietInv, Recoverable, Base', Complete PROVE QuietInv'
<1> USE DEF outside, call, lists, service
<1>1. /\ pc = "complete" /\ target = file /\ UNCHANGED <<outside, record, call, result>>
      /\ pc' \in {"answered", "refused"} /\ (Publish \/ UNCHANGED service)
  BY QuietBasics DEF Complete
<1>2. 1 .. PartCount[target] \subseteq Numbers(uploadedParts) /\ uploadedParts # {} /\ record.parts = uploadedParts
  BY <1>1, ListIsComplete
<1>3. Useful'
  BY <1>1, <1>2 DEF Useful, Numbers
<1>4. Followed'
  BY <1>1 DEF Followed, ListedPcs
<1>5. upload # NoUpload => uploads'[upload].parts = uploads[upload].parts
  BY <1>1, QuietBasics DEF Publish, Inv, TypeOK, ServiceOK
<1>6. upload # NoUpload => uploads[upload].parts = Content(target)
  BY <1>1, CompletedIsWhole DEF QuietInv, Base
<1>7. pc' = "answered" => upload # NoUpload /\ Calm
  BY DEF Complete, Publish, IsOpen
<1>8. Content(target)' = Content(target)
  BY <1>1 DEF Content
<1>9. Completed'
  BY <1>1, <1>2, <1>5, <1>6, <1>7, <1>8 DEF Completed, CompletedPcs
<1>10. quietCalls >= 0 => Smooth'
  BY <1>1, StaysSmooth DEF QuietInv, Quietly
<1>11. CASE pc' = "answered"
  <2>1. Fresh'
    BY <1>11 DEF Fresh, LoopPcs
  <2>2. Quietly' /\ SecondQuietCallDelivers'
    BY <1>1, <1>7, <1>10, <1>11, <2>1, GoesOnQuietly
  <2> QED BY <1>3, <1>4, <1>9, <2>2 DEF QuietInv
<1>12. CASE IsOpen /\ Event("service")
  <2>1. Quietly' /\ SecondQuietCallDelivers'
    BY <1>1, <1>12, EventQuietly
  <2> QED BY <1>3, <1>4, <1>9, <2>1 DEF QuietInv
<1>13. CASE ~IsOpen /\ Calm
  <2>1. ~(quietCalls >= 1)
    BY <1>1, <1>13 DEF QuietInv, Quietly, Fresh, LoopPcs
  <2>2. Quietly' /\ SecondQuietCallDelivers'
    BY <1>1, <1>10, <1>13, <2>1, GoesOnQuietly
  <2> QED BY <1>3, <1>4, <1>9, <2>2 DEF QuietInv
<1> QED BY <1>11, <1>12, <1>13 DEF Complete

LEMMA ReturnRefusedQuiet == ASSUME QuietInv, Recoverable, Base', ReturnRefused PROVE QuietInv'
<1>1. pc = "refused" /\ ~(quietCalls >= 1)
  BY DEF ReturnRefused, QuietInv, Quietly, Fresh
<1> QED BY <1>1, DroppingQuiet DEF ReturnRefused

LEMMA CheckAnswerQuiet == ASSUME QuietInv, Recoverable, Base', CheckAnswer PROVE QuietInv'
<1> USE DEF outside, call, lists
<1>1. pc = "answered" /\ SizeMatches
  BY AnswerMatches DEF CheckAnswer
<1>2. /\ pc' \in {"finish", "checkHash"} /\ Calm
      /\ UNCHANGED <<outside, call, result, record, service>>
  BY <1>1 DEF CheckAnswer, Recoverable
<1>3. Useful'
  BY <1>2, UsefulStays, SameUploads DEF NotWritten
<1>4. Followed' /\ Completed'
  BY <1>1, <1>2 DEF QuietInv, Followed, Completed, ListedPcs, CompletedPcs, service
<1>5. quietCalls >= 0 => Smooth'
  BY <1>1, <1>2, StaysSmooth DEF QuietInv, Quietly
<1>6. Fresh'
  BY <1>2 DEF Fresh, LoopPcs
<1>7. Quietly' /\ SecondQuietCallDelivers'
  BY <1>1, <1>2, <1>5, <1>6, GoesOnQuietly
<1> QED BY <1>3, <1>4, <1>7 DEF QuietInv

LEMMA ReadFirstOfNoneQuiet == ASSUME QuietInv, ReadFirstOfNone PROVE FALSE
BY AnswerMatches DEF ReadFirstOfNone

LEMMA ReturnCrcDiffersQuiet == ASSUME QuietInv, Recoverable, Base', ReturnCrcDiffers PROVE QuietInv'
<1>1. pc = "crcDiffers" /\ ~Smooth
  BY DEF ReturnCrcDiffers, Smooth
<1>2. ~(quietCalls >= 1)
  BY <1>1, QuietBasics DEF QuietInv, Quietly
<1> QED BY <1>1, <1>2, DroppingQuiet DEF ReturnCrcDiffers

LEMMA CompareSha1Quiet == ASSUME QuietInv, Recoverable, Base', CompareSha1 PROVE QuietInv'
<1> USE DEF outside, call, lists
<1>1. pc = "compare" /\ UNCHANGED service
  BY DEF CompareSha1
<1>2. CASE (\E code \in {"stopped", "canceled"} : AskedToQuit(code) /\ Return(code)) /\ CalmEnd /\ UNCHANGED record
  <2>1. ~Smooth
    BY <1>2 DEF AskedToQuit, Smooth
  <2> QED BY <1>1, <1>2, <2>1, ComplainsQuiet
<1>3. CASE pc' = "finish" /\ Calm /\ UNCHANGED <<outside, call, result, record>>
  <2>1. Useful'
    BY <1>1, <1>3, UsefulStays, SameUploads DEF NotWritten
  <2>2. Followed' /\ Completed'
    BY <1>1, <1>3 DEF QuietInv, Followed, Completed, ListedPcs, CompletedPcs, service
  <2>3. quietCalls >= 0 => Smooth'
    BY <1>1, <1>3, StaysSmooth DEF QuietInv, Quietly
  <2>4. Fresh'
    BY <1>3 DEF Fresh, LoopPcs
  <2>5. Quietly' /\ SecondQuietCallDelivers'
    BY <1>1, <1>3, <2>3, <2>4, GoesOnQuietly
  <2> QED BY <2>1, <2>2, <2>5 DEF QuietInv
<1>4. CASE ~(hashed # NoVersion /\ Content(hashed) = uploads[upload].parts) /\ ReturnDropping("Sha1CheckError")
  <2>1. uploads[upload].parts = Content(target)
    BY <1>1 DEF QuietInv, Completed, CompletedPcs
  <2>2. target # NoVersion
    BY QuietBasics, NumbersAreOne DEF Hole, NoVersion
  <2>3. ~Smooth
    BY <1>1, <1>4, <2>1, <2>2 DEF Smooth
  <2>4. ~(quietCalls >= 1)
    BY <1>1, <2>3, QuietBasics DEF QuietInv, Quietly
  <2> QED BY <1>1, <1>4, <2>4, DroppingQuiet
<1> QED BY <1>2, <1>3, <1>4 DEF CompareSha1

LEMMA FinishQuiet == ASSUME QuietInv, Recoverable, Base', Finish PROVE QuietInv'
<1>1. pc = "finish" /\ target = file
  BY QuietBasics DEF Finish
<1>2. upload # NoUpload /\ uploads[upload].state = "completed"
  BY <1>1, QuietBasics DEF WholeInv, Progress
<1>3. published = uploads[upload].parts
  BY <1>1, <1>2, QuietBasics DEF WholeInv, Agreed, Clean
<1>4. published = Content(target)
  BY <1>1, <1>3 DEF QuietInv, Completed, CompletedPcs
<1> QED BY <1>1, <1>4, DroppingQuiet DEF Finish

-----------------------------------------------------------------------------
(* What the environment does, and the theorem. *)

LEMMA AskToQuitQuiet == ASSUME QuietInv, Base', AskToQuit PROVE QuietInv'
<1> USE DEF call, lists, service
<1>1. pc # "idle" /\ UNCHANGED <<file, record, service, pc, call, result>>
  BY DEF AskToQuit, Idle
<1>2. Useful'
  BY <1>1, UsefulStays, SameUploads DEF NotWritten
<1>3. IsFor(target)' = IsFor(target) /\ IsOpen' = IsOpen
  BY <1>1 DEF IsFor, IsOpen
<1>4. Followed' /\ Completed'
  BY <1>1, <1>3 DEF QuietInv, Followed, Completed
<1>5. PICK kind \in {"stop", "cancel", "disable"} : Event(kind)
  BY DEF AskToQuit
<1>6. Quietly' /\ SecondQuietCallDelivers'
  BY <1>1, <1>5, EventQuietly
<1> QED BY <1>2, <1>4, <1>6 DEF QuietInv

(* No record is about a version the file has only now. *)
LEMMA ChangeFileQuiet == ASSUME QuietInv, Recoverable, Base', ChangeFile PROVE QuietInv'
<1>1. /\ pc = "idle" /\ pc' = "idle" /\ Event("modify") /\ file' = file + 1
      /\ UNCHANGED <<enable, control, record, target, uploadedParts, outcomes>>
  BY NoHarm DEF ChangeFile, Idle, call, lists
<1>2. /\ target <= file /\ file \in Nat /\ file' \in Versions /\ Versions \subseteq Nat
      /\ record.state = "saved" => \E v \in Versions : v <= target /\ IsFor(v)
  BY <1>1, QuietBasics, VersionsAssumption DEF ChangeFile, WholeInv, Ordered, Versions
<1>3. ASSUME IsFor(file)' PROVE FALSE
  <2>1. PICK v \in Versions : v <= target /\ IsFor(v)
    BY <1>1, <1>2, <1>3 DEF IsFor
  <2>2. v = file'
    BY <1>1, <1>2, <1>3, <2>1 DEF IsFor, Recoverable, Steady, VersionsDiffer
  <2>3. target \in Nat
    BY <1>2, QuietBasics
  <2> QED BY <1>1, <1>2, <2>1, <2>2, <2>3
<1>4. Useful'
  BY <1>3 DEF Useful
<1>5. Followed' /\ Completed'
  BY <1>1 DEF Followed, Completed, ListedPcs, CompletedPcs
<1>6. quietCalls' = -1
  BY <1>1, Loud
<1>7. Quietly' /\ SecondQuietCallDelivers'
  BY <1>1, <1>6 DEF QuietInv, Quietly, SecondQuietCallDelivers
<1> QED BY <1>4, <1>5, <1>7 DEF QuietInv

LEMMA CrashQuiet == ASSUME QuietInv, Base', Crash PROVE QuietInv'
<1>1. /\ pc # "idle" /\ Event("crash") /\ Return("none") /\ UNCHANGED <<file, record>>
  BY DEF Crash, Idle, Return, Forget
<1>2. Useful'
  <2>1. CASE pc = "complete" /\ Publish
    <3>1. 1 .. PartCount[target] \subseteq Numbers(record.parts) /\ target = file
      BY <2>1, ListIsComplete
    <3> QED BY <1>1, <3>1 DEF Useful, Numbers
  <2>2. CASE UNCHANGED service \/ (CanPut /\ Put)
    BY <1>1, <2>2, PutOpens, UsefulStays DEF NotWritten, service
  <2> QED BY <2>1, <2>2 DEF Crash
<1> QED BY <1>1, <1>2, EndsLoudly

LEMMA EnvironmentQuiet == ASSUME QuietInv, Recoverable, Base', Environment PROVE QuietInv'
<1>1. ~Withdraw /\ ~ExpireUpload
  BY NoHarm DEF Withdraw, ExpireUpload
<1> QED BY <1>1, AskToQuitQuiet, ChangeFileQuiet, CrashQuiet DEF Environment

LEMMA InitQuiet == ASSUME Init, Base PROVE QuietInv
<1> USE DEF Init
<1>1. Useful
  BY RecordTypes DEF Useful, IsFor
<1>2. Followed /\ Completed
  BY DEF Followed, Completed, ListedPcs, CompletedPcs
<1>3. Quietly /\ SecondQuietCallDelivers
  BY DEF Quietly, SecondQuietCallDelivers
<1> QED BY <1>1, <1>2, <1>3 DEF QuietInv

LEMMA NextQuiet == ASSUME QuietInv, Recoverable, [Next]_vars, Base' PROVE QuietInv'
<1>1. CASE Start
  BY <1>1, StartQuiet
<1>2. CASE Step
  BY <1>2, LoadRecordQuiet, CreateQuiet, ComputeSha1Quiet, RapidCreateQuiet, ReturnRapidQuiet,
     OpenRecordQuiet, WriteRecordQuiet, PlanQuiet, PopQuiet, GetUrlQuiet,
     PutSucceedsQuiet, PutFindsPartQuiet, PutFailsQuiet, ChecksQuiet, CompleteQuiet,
     ReturnRefusedQuiet, CheckAnswerQuiet, ReadFirstOfNoneQuiet, ReturnCrcDiffersQuiet,
     CompareSha1Quiet, FinishQuiet, Zenon
  DEF Step
<1>3. CASE Environment
  BY <1>3, EnvironmentQuiet
<1>4. CASE UNCHANGED vars
  <2> USE <1>4 DEF vars, outside, service, call, lists, budget
  <2>1. Useful'
    BY DEF QuietInv, Useful, IsFor, Numbers
  <2>2. IsFor(target)' = IsFor(target) /\ IsOpen' = IsOpen /\ IsFor(file)' = IsFor(file)
    BY DEF IsFor, IsOpen
  <2>3. Followed' /\ Completed'
    BY <2>2 DEF QuietInv, Followed, Completed
  <2>4. Smooth' = Smooth /\ Fresh' = Fresh
    BY <2>2 DEF Smooth, Fresh
  <2>5. Quietly' /\ SecondQuietCallDelivers'
    BY <2>2, <2>4 DEF QuietInv, Quietly, SecondQuietCallDelivers, Idle
  <2> QED BY <2>1, <2>3, <2>5 DEF QuietInv
<1> QED BY <1>1, <1>2, <1>3, <1>4, Zenon DEF Next

\* Of two uploads in a row that meet no failure the second delivers, whatever the calls before them left in the record and with
\* the service: a call that finds a record it cannot use up to the end drops it, and the next creates an upload of its own.
THEOREM SecondQuietUploadDelivers == ASSUME Recoverable PROVE Spec => []SecondQuietCallDelivers
<1>1. Spec => []Base
  BY BaseInvariance DEF Recoverable
<1>2. Init /\ Base => QuietInv
  BY InitQuiet
<1>3. QuietInv /\ [Next]_vars /\ Base' => QuietInv'
  BY NextQuiet
<1>4. QuietInv => SecondQuietCallDelivers
  BY DEF QuietInv
<1> QED BY <1>1, <1>2, <1>3, <1>4, PTL DEF Spec
=============================================================================
