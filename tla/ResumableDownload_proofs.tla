---------------------- MODULE ResumableDownload_proofs ----------------------
(***************************************************************************)
(* Proofs about ResumableDownload for every number of workers, versions,   *)
(* parts, calls and events and every choice of the options.                *)
(*                                                                         *)
(* The first part is about types, mutual exclusion under lock_, and the    *)
(* accounting of the parts.  The others prove that a resumable download    *)
(* publishes whole versions only, and reports success only of the version  *)
(* it was asked for (OkMeansWhole), and that it implements AtomicPublish:  *)
(* the second with CRC and size checks on, where versions may be alike in  *)
(* size, hash and modification time and urls may serve whatever is there,  *)
(* and without the events that let a record outlive the bytes it vouches   *)
(* for, as in the run download_crc; the third without the CRC.  The fourth *)
(* is about calls that meet no failure.                                    *)
(***************************************************************************)
EXTENDS ResumableDownload, TLAPS, FiniteSetTheorems

(* A worker has a part exactly while it is at work on it. *)
Working == {"check", "begin", "beginAgain", "get", "getAgain", "refresh",
            "refreshing", "assign", "publish"}
Holding == \A w \in Workers : workerPc[w] \in Working <=> part[w] # NoPart

(* A record lists a part once, so a call that loads it starts accounted. *)
RecordsListOnce ==
    \A h \in Hashes : \A d, e \in records[h].parts :
        d.partNumber = e.partNumber => d = e

(* The threads run only while the calling thread waits for them, and before  *)
(* it starts them there is no queue.                                         *)
Phases ==
    /\ mainPc # "join" => \A w \in Workers : workerPc[w] = "done"
    /\ mainPc \in {"idle", "load", "prepare", "write", "plan"}
          => partsToDownload = {}

Inv == /\ TypeOK
       /\ Holding
       /\ PartsAccounted
       /\ LockDiscipline
       /\ RecordsListOnce
       /\ Phases

-----------------------------------------------------------------------------
(* What the helpers return. *)

LEMMA PartsAreNumbers ==
    /\ Parts \subseteq Nat /\ 0 \notin Parts
    /\ \A v \in Versions : PartCount[v] \in Parts /\ PartCount[v] \in Nat
    /\ \A v \in Versions : 1 .. PartCount[v] \subseteq Parts
    /\ \A v \in Versions : ContentHash[v] \in Hashes
    /\ 1 \in Versions
BY VersionsAssumption DEF Versions, Parts, Hashes

LEMMA RecordTypes ==
    /\ NoRecord \in RecordFiles
    /\ Damaged \in RecordFiles
    /\ \A v \in Versions, s \in SUBSET Entries : Saved(v, s) \in RecordFiles
<1>1. NoRecord \in RecordFiles
  BY DEF NoRecord, RecordFiles
<1>2. Damaged \in RecordFiles
  BY DEF Damaged, NoRecord, RecordFiles
<1>3. \A v \in Versions, s \in SUBSET Entries : Saved(v, s) \in RecordFiles
  BY PartsAreNumbers, VersionsAssumption DEF Saved, RecordFiles
<1> QED BY <1>1, <1>2, <1>3

LEMMA PartlyType ==
    \A old \in Holdings, v \in Versions : Partly(old, v) \in Holdings
BY DEF Partly, Holdings

LEMMA EntryType ==
    \A p \in Parts, v \in Versions :
        Entry(p, v) \in Entries /\ Entry(p, v).partNumber = p
BY VersionsAssumption DEF Entry, Entries, NoCrc, Versions

\* Writing a record of the right type keeps the records typed.
LEMMA WriteRecordType ==
    ASSUME DiskOK, CallOK, NEW r \in RecordFiles, WriteRecord(r)
    PROVE  records' \in [Hashes -> RecordFiles]
BY PartsAreNumbers DEF DiskOK, CallOK, WriteRecord

\* Both ways an action may treat the bounds.
LEMMA EventType ==
    ASSUME BudgetOK, NEW kind, Event(kind)
    PROVE  BudgetOK'
<1>1. calls' \in Nat /\ events' \in Nat
  BY DEF BudgetOK, Event
<1>2. quiet' \in BOOLEAN
  BY Zenon DEF Event
<1> QED BY <1>1, <1>2, Zenon DEF BudgetOK

LEMMA CalmType ==
    ASSUME BudgetOK, Calm
    PROVE  BudgetOK'
BY DEF BudgetOK, Calm, budget

LEMMA DropRecordType ==
    ASSUME DiskOK, CallOK, BudgetOK, DropRecord
    PROVE  records' \in [Hashes -> RecordFiles] /\ BudgetOK'
<1>1. CASE WriteRecord(NoRecord) /\ Calm
  BY <1>1, WriteRecordType, RecordTypes, CalmType
<1>2. CASE Event("remove") /\ UNCHANGED records
  BY <1>2, EventType DEF DiskOK
<1> QED BY <1>1, <1>2 DEF DropRecord

LEMMA DropRecordListsOnce ==
    ASSUME DiskOK, RecordsListOnce, DropRecord
    PROVE  RecordsListOnce'
<1>1. \A h \in Hashes : records'[h] = records[h] \/ records'[h] = NoRecord
  BY DEF DropRecord, WriteRecord, DiskOK
<1>2. NoRecord.parts = {}
  BY DEF NoRecord
<1> QED BY <1>1, <1>2 DEF RecordsListOnce

\* What a GET brings is a version.
LEMMA ServedIsVersion ==
    ASSUME OutsideOK, ThreadsOK, NEW w \in Workers, CanServe(w)
    PROVE  Served(w) \in Versions
BY VersionsAssumption DEF OutsideOK, ThreadsOK, CanServe, Served, NoUrl, Versions

-----------------------------------------------------------------------------
(* The calling thread. *)

\* A call that ends leaves nothing of its memory behind.
LEMMA ReturnKeeps ==
    ASSUME Inv, NEW code \in Results, Return(code)
    PROVE  /\ OutsideOK' /\ CallOK' /\ ThreadsOK'
           /\ Holding' /\ PartsAccounted' /\ LockDiscipline' /\ Phases'
<1> USE DEF Return, Forget
<1>1. OutsideOK'
  <2>1. source' \in Versions /\ control' \in {"none", "stop", "cancel"}
    BY DEF Inv, TypeOK, OutsideOK
  <2>2. enable' \in BOOLEAN
    BY Zenon
  <2> QED BY <2>1, <2>2, Zenon DEF OutsideOK
<1>2. CallOK'
  BY VersionsAssumption
  DEF Inv, TypeOK, CallOK, MainPcs, NoUrl, Failures, Versions
<1>3. ThreadsOK'
  BY VersionsAssumption DEF ThreadsOK, WorkerPcs, NoPart, NoUrl, NoData
<1>4. Holding'
  BY DEF Holding, Working, NoPart
<1>5. PartsAccounted'
  BY DEF PartsAccounted, NoPart, Numbers
<1>6. LockDiscipline'
  BY DEF LockDiscipline
<1>7. Phases'
  BY DEF Phases
<1> QED BY <1>1, <1>2, <1>3, <1>4, <1>5, <1>6, <1>7

\* What the other parts of the invariant depend on does not change while the
\* threads, the queue and the list stay as they are.
LEMMA ThreadsUntouched ==
    ASSUME Inv,
           UNCHANGED <<workerPc, part, partsToDownload, downloadedParts, lock>>
    PROVE  Holding' /\ PartsAccounted' /\ LockDiscipline'
BY DEF Inv, Holding, PartsAccounted, LockDiscipline, Numbers

LEMMA StartKeeps == ASSUME Inv, Start PROVE Inv'
<1> USE DEF Start
<1>1. OutsideOK'
  BY Zenon DEF Inv, TypeOK, OutsideOK, outside
<1>2. DiskOK' /\ RecordsListOnce'
  BY DEF Inv, TypeOK, DiskOK, disk, RecordsListOnce
<1>3. CallOK'
  BY VersionsAssumption
  DEF Inv, TypeOK, OutsideOK, CallOK, MainPcs, Results, Failures, Versions
<1>4. ThreadsOK'
  BY DEF Inv, TypeOK, ThreadsOK, threads
<1>5. BudgetOK'
  <2>1. calls' \in Nat /\ events' \in Nat
    BY DEF Inv, TypeOK, BudgetOK
  <2>2. quiet' \in BOOLEAN
    BY Zenon
  <2> QED BY <2>1, <2>2, Zenon DEF BudgetOK
<1>6. Holding' /\ PartsAccounted' /\ LockDiscipline'
  BY ThreadsUntouched DEF threads
<1>7. Phases'
  BY DEF Inv, Phases, Idle, threads
<1> QED BY <1>1, <1>2, <1>3, <1>4, <1>5, <1>6, <1>7 DEF Inv, TypeOK

LEMMA LoadRecordKeeps == ASSUME Inv, LoadRecord PROVE Inv'
<1> USE DEF LoadRecord
<1>1. OutsideOK'
  BY Zenon DEF Inv, TypeOK, OutsideOK, outside
<1>2. DiskOK' /\ RecordsListOnce' /\ BudgetOK'
  BY DropRecordType, DropRecordListsOnce, CalmType
  DEF Inv, TypeOK, DiskOK, RecordsListOnce
<1>3. record \in RecordFiles /\ target \in Versions
  BY PartsAreNumbers DEF Inv, TypeOK, DiskOK, CallOK, record
<1>4. downloadedParts' \subseteq Entries
  BY <1>3 DEF RecordFiles
<1>5. \A d, e \in downloadedParts' : d.partNumber = e.partNumber => d = e
  BY <1>3, PartsAreNumbers DEF Inv, RecordsListOnce, record
<1>6. CallOK'
  BY <1>4 DEF Inv, TypeOK, CallOK, MainPcs
<1>7. ThreadsOK'
  BY DEF Inv, TypeOK, ThreadsOK, threads
<1>8. Holding' /\ LockDiscipline'
  BY DEF Inv, Holding, LockDiscipline, threads
<1>9. PartsAccounted'
  <2>1. partsToDownload' = {}
    BY DEF Inv, Phases
  <2>2. \A w \in Workers : workerPc[w] = "done" /\ part[w] = NoPart
    BY DEF Inv, Phases, Holding, Working
  <2>3. \A e \in Entries : e.partNumber # NoPart
    BY PartsAreNumbers DEF Entries, NoPart
  <2> QED BY <1>4, <1>5, <2>1, <2>2, <2>3 DEF PartsAccounted, Numbers, threads
<1>10. Phases'
  BY DEF Inv, Phases, threads
<1> QED BY <1>1, <1>2, <1>6, <1>7, <1>8, <1>9, <1>10 DEF Inv, TypeOK

LEMMA PrepareKeeps == ASSUME Inv, PrepareOpen \/ PrepareWrite PROVE Inv'
<1> USE DEF PrepareOpen, PrepareWrite
<1>1. OutsideOK'
  BY Zenon DEF Inv, TypeOK, OutsideOK, outside
<1>2. PICK r \in RecordFiles : /\ WriteRecord(r) \/ UNCHANGED records
                               /\ r.parts = {}
  <2>1. Saved(target, {}) \in RecordFiles
    BY RecordTypes DEF Inv, TypeOK, CallOK
  <2> QED BY <2>1, RecordTypes DEF Saved, Damaged, NoRecord
<1>3. DiskOK'
  BY <1>2, WriteRecordType DEF Inv, TypeOK, DiskOK
<1>4. RecordsListOnce'
  <2>1. \A h \in Hashes : records'[h] = records[h] \/ records'[h] = r
    BY <1>2 DEF Inv, TypeOK, DiskOK, WriteRecord
  <2> QED BY <1>2, <2>1 DEF Inv, RecordsListOnce
<1>5. CallOK'
  BY DEF Inv, TypeOK, CallOK, MainPcs, call
<1>6. ThreadsOK'
  BY DEF Inv, TypeOK, ThreadsOK, threads
<1>7. BudgetOK'
  BY CalmType, EventType DEF Inv, TypeOK
<1>8. Holding' /\ PartsAccounted' /\ LockDiscipline'
  BY ThreadsUntouched DEF threads, call
<1>9. Phases'
  BY DEF Inv, Phases, threads, call
<1> QED BY <1>1, <1>3, <1>4, <1>5, <1>6, <1>7, <1>8, <1>9 DEF Inv, TypeOK

LEMMA PlanKeeps == ASSUME Inv, Plan PROVE Inv'
<1> USE DEF Plan
<1>1. OutsideOK'
  BY Zenon DEF Inv, TypeOK, OutsideOK, outside
<1>2. DiskOK' /\ RecordsListOnce'
  BY DEF Inv, TypeOK, DiskOK, disk, RecordsListOnce
<1>3. /\ partsToDownload' \subseteq Parts
      /\ partsToDownload' \cap Numbers(downloadedParts) = {}
  BY PartsAreNumbers DEF Inv, TypeOK, CallOK, ToDownload
<1>4. CallOK'
  BY <1>3 DEF Inv, TypeOK, CallOK, MainPcs
<1>5. ThreadsOK'
  BY DEF Inv, TypeOK, ThreadsOK, WorkerPcs
<1>6. BudgetOK'
  BY CalmType DEF Inv, TypeOK
<1>7. \A w \in Workers : workerPc[w] = "done" /\ part[w] = NoPart
  BY DEF Inv, Phases, Holding, Working
<1>8. Holding'
  BY <1>7 DEF Holding, Working
<1>9. PartsAccounted'
  BY <1>3, <1>7, PartsAreNumbers DEF Inv, PartsAccounted, Numbers, NoPart
<1>10. LockDiscipline'
  BY <1>7 DEF Inv, LockDiscipline
<1>11. Phases'
  BY DEF Phases
<1> QED BY <1>1, <1>2, <1>4, <1>5, <1>6, <1>8, <1>9, <1>10, <1>11 DEF Inv, TypeOK

-----------------------------------------------------------------------------
(* The download threads. *)

\* A thread that is not done has a caller waiting for it, and a working thread
\* has a part.
LEMMA WorkerFacts ==
    ASSUME Inv, NEW w \in Workers
    PROVE  /\ workerPc[w] # "done" => mainPc = "join"
           /\ workerPc[w] \in Working => part[w] \in Parts
BY DEF Inv, TypeOK, ThreadsOK, Phases, Holding, Parts, NoPart

\* Most steps of a thread leave the disk, or what it shares, alone.
LEMMA OutsideUntouched == ASSUME Inv, UNCHANGED outside PROVE OutsideOK'
BY Zenon DEF Inv, TypeOK, OutsideOK, outside

LEMMA DiskUntouched ==
    ASSUME Inv, UNCHANGED disk
    PROVE  DiskOK' /\ RecordsListOnce'
BY DEF Inv, TypeOK, DiskOK, disk, RecordsListOnce

LEMMA PopKeeps == ASSUME Inv, NEW w \in Workers, Pop(w) PROVE Inv'
<1> USE DEF Pop
<1>1. OutsideOK' /\ DiskOK' /\ RecordsListOnce' /\ BudgetOK'
  BY OutsideUntouched, DiskUntouched, CalmType DEF Inv, TypeOK
<1>2. CallOK'
  BY DEF Inv, TypeOK, CallOK
<1>3. mainPc = "join" /\ part[w] = NoPart
  BY WorkerFacts DEF Inv, Holding, Working
<1>4. Phases'
  BY <1>3 DEF Phases
<1>5. CASE partsToDownload = {} /\ Goto(w, "done") /\ UNCHANGED <<partsToDownload, part>>
  <2>1. ThreadsOK'
    BY <1>5 DEF Inv, TypeOK, ThreadsOK, Goto, WorkerPcs
  <2>2. Holding' /\ LockDiscipline'
    BY <1>3, <1>5 DEF Inv, TypeOK, ThreadsOK, Holding, Working, LockDiscipline, Goto
  <2>3. PartsAccounted'
    BY <1>5 DEF Inv, PartsAccounted, Numbers
  <2> QED BY <1>1, <1>2, <1>4, <2>1, <2>2, <2>3 DEF Inv, TypeOK
<1>6. ASSUME NEW p \in partsToDownload,
             partsToDownload' = partsToDownload \ {p},
             part' = [part EXCEPT ![w] = p],
             Goto(w, "check")
      PROVE  Inv'
  <2>1. p \in Parts /\ p # NoPart /\ p \in 0 .. MaxParts
    BY <1>6 DEF Inv, TypeOK, CallOK, Parts, NoPart
  <2>2. ThreadsOK'
    BY <1>6, <2>1 DEF Inv, TypeOK, ThreadsOK, Goto, WorkerPcs
  <2>3. Holding' /\ LockDiscipline'
    BY <1>6, <2>1 DEF Inv, TypeOK, ThreadsOK, Holding, Working, LockDiscipline, Goto
  <2>4. PartsAccounted'
    BY <1>6, <2>1 DEF Inv, TypeOK, ThreadsOK, PartsAccounted, Numbers
  <2> QED BY <1>1, <1>2, <1>4, <2>2, <2>3, <2>4 DEF Inv, TypeOK
<1> QED BY <1>5, <1>6

LEMMA CheckKeeps == ASSUME Inv, NEW w \in Workers, Check(w) PROVE Inv'
<1> USE DEF Check
<1>1. OutsideOK' /\ DiskOK' /\ RecordsListOnce' /\ BudgetOK'
  BY OutsideUntouched, DiskUntouched, CalmType DEF Inv, TypeOK
<1>2. CallOK'
  BY DEF Inv, TypeOK, CallOK, call
<1>3. ThreadsOK'
  BY VersionsAssumption DEF Inv, TypeOK, ThreadsOK, Goto, WorkerPcs, NoPart
<1>4. Holding' /\ LockDiscipline'
  BY DEF Inv, TypeOK, ThreadsOK, Holding, Working, LockDiscipline, Goto, NoPart, call
<1>5. PartsAccounted'
  BY PartsAreNumbers
  DEF Inv, TypeOK, CallOK, ThreadsOK, PartsAccounted, Numbers, NoPart, call, Entries
<1>6. Phases'
  BY WorkerFacts DEF Phases
<1> QED BY <1>1, <1>2, <1>3, <1>4, <1>5, <1>6 DEF Inv, TypeOK

\* A step that moves a working thread, or one that works on, to another of its
\* own places without the lock.
LEMMA MoveKeeps ==
    ASSUME Inv, NEW w \in Workers, NEW pc \in Working \ {"refreshing", "assign"},
           workerPc[w] \in Working \ {"refreshing", "assign"},
           Goto(w, pc), UNCHANGED <<mainPc, call, part>>
    PROVE  Holding' /\ PartsAccounted' /\ LockDiscipline' /\ Phases'
<1>1. Holding'
  BY DEF Inv, TypeOK, ThreadsOK, Holding, Goto
<1>2. PartsAccounted'
  BY DEF Inv, PartsAccounted, Numbers, call
<1>3. LockDiscipline'
  BY DEF Inv, TypeOK, ThreadsOK, LockDiscipline, Goto, Working, call
<1>4. Phases'
  BY WorkerFacts DEF Phases, Working
<1> QED BY <1>1, <1>2, <1>3, <1>4

LEMMA ReadUrlKeeps == ASSUME Inv, NEW w \in Workers, ReadUrl(w) PROVE Inv'
<1>1. OutsideOK' /\ DiskOK' /\ RecordsListOnce' /\ BudgetOK'
  BY OutsideUntouched, DiskUntouched, CalmType DEF Inv, TypeOK, ReadUrl
<1>2. CallOK'
  BY DEF ReadUrl, Inv, TypeOK, CallOK, call
<1>3. ThreadsOK'
  <2>1. PICK u : /\ u \in {url} \cup UNION {{fetchUrl[x], NoUrl} :
                           x \in {y \in Workers : workerPc[y] = "assign"}}
                 /\ fetchUrl' = [fetchUrl EXCEPT ![w] = u]
    BY DEF ReadUrl
  <2>2. u \in 0 .. NumVersions
    BY <2>1, VersionsAssumption DEF Inv, TypeOK, CallOK, ThreadsOK, NoUrl
  <2> QED BY <2>1, <2>2 DEF ReadUrl, Inv, TypeOK, ThreadsOK, Goto, WorkerPcs
<1>4. Holding' /\ PartsAccounted' /\ LockDiscipline' /\ Phases'
  <2>1. \E pc \in {"get", "getAgain"} : Goto(w, pc)
    BY DEF ReadUrl
  <2> QED BY <2>1, MoveKeeps DEF ReadUrl, Working
<1> QED BY <1>1, <1>2, <1>3, <1>4 DEF Inv, TypeOK

LEMMA GetSucceedsKeeps ==
    ASSUME Inv, NEW w \in Workers, GetSucceeds(w) PROVE Inv'
<1> USE DEF GetSucceeds
<1>1. OutsideOK'
  BY OutsideUntouched
<1>2. Served(w) \in Versions
  BY ServedIsVersion DEF Inv, TypeOK
<1>3. DiskOK' /\ RecordsListOnce'
  BY <1>2, PartlyType DEF Inv, TypeOK, DiskOK, RecordsListOnce, Holdings
<1>4. CallOK'
  BY DEF Inv, TypeOK, CallOK, call
<1>5. ThreadsOK'
  BY <1>2 DEF Inv, TypeOK, ThreadsOK, Goto, WorkerPcs, Versions
<1>6. BudgetOK'
  BY CalmType, EventType DEF Inv, TypeOK
<1>7. Holding' /\ PartsAccounted' /\ LockDiscipline' /\ Phases'
  BY MoveKeeps DEF Working, Getting
<1> QED BY <1>1, <1>3, <1>4, <1>5, <1>6, <1>7 DEF Inv, TypeOK

LEMMA GetFailsKeeps ==
    ASSUME Inv, NEW w \in Workers, GetFails(w) PROVE Inv'
<1> USE DEF GetFails
<1>1. OutsideOK'
  BY OutsideUntouched
<1>2. DiskOK' /\ RecordsListOnce'
  <2>1. tempFile' \in [Parts -> Holdings]
    BY ServedIsVersion, PartlyType DEF Inv, TypeOK, DiskOK
  <2> QED BY <2>1 DEF Inv, TypeOK, DiskOK, RecordsListOnce
<1>3. CallOK'
  BY DEF Inv, TypeOK, CallOK, call
<1>4. ThreadsOK'
  BY VersionsAssumption DEF Inv, TypeOK, ThreadsOK, Goto, WorkerPcs, NoData
<1>5. BudgetOK'
  BY CalmType, EventType DEF Inv, TypeOK
<1>6. Holding' /\ PartsAccounted' /\ LockDiscipline' /\ Phases'
  BY MoveKeeps DEF Working, Getting
<1> QED BY <1>1, <1>2, <1>3, <1>4, <1>5, <1>6 DEF Inv, TypeOK

LEMMA GetDeniedKeeps ==
    ASSUME Inv, NEW w \in Workers, GetDenied(w) PROVE Inv'
<1> USE DEF GetDenied
<1>1. OutsideOK' /\ DiskOK' /\ RecordsListOnce' /\ BudgetOK'
  BY OutsideUntouched, DiskUntouched, EventType DEF Inv, TypeOK
<1>2. CallOK' /\ ThreadsOK'
  BY DEF Inv, TypeOK, CallOK, ThreadsOK, call, Goto, WorkerPcs
<1>3. Holding' /\ PartsAccounted' /\ LockDiscipline' /\ Phases'
  BY MoveKeeps DEF Working
<1> QED BY <1>1, <1>2, <1>3 DEF Inv, TypeOK

LEMMA RefreshBeginKeeps ==
    ASSUME Inv, NEW w \in Workers, RefreshBegin(w) PROVE Inv'
<1> USE DEF RefreshBegin, LockIsFree
<1>1. OutsideOK' /\ DiskOK' /\ RecordsListOnce' /\ BudgetOK'
  BY OutsideUntouched, DiskUntouched, CalmType DEF Inv, TypeOK
<1>2. CallOK' /\ ThreadsOK'
  BY DEF Inv, TypeOK, CallOK, ThreadsOK, Goto, WorkerPcs
<1>3. Holding' /\ LockDiscipline'
  BY DEF Inv, TypeOK, ThreadsOK, Holding, Working, LockDiscipline, Goto
<1>4. PartsAccounted'
  BY DEF Inv, PartsAccounted, Numbers
<1>5. Phases'
  BY WorkerFacts DEF Phases
<1> QED BY <1>1, <1>2, <1>3, <1>4, <1>5 DEF Inv, TypeOK

\* A thread that ends its round gives its part up.
LEMMA EndOfRoundKeeps ==
    ASSUME Inv, NEW w \in Workers, EndOfRound(w)
    PROVE  /\ part' \in [Workers -> 0 .. MaxParts]
           /\ fetchUrl' \in [Workers -> 0 .. NumVersions]
           /\ got' \in [Workers -> 0 .. NumVersions]
           /\ \A v \in Workers : part'[v] = IF v = w THEN NoPart ELSE part[v]
BY VersionsAssumption
DEF Inv, TypeOK, ThreadsOK, EndOfRound, NoPart, NoUrl, NoData

LEMMA PushOutcomeType ==
    ASSUME CallOK, NEW code \in Failures, PushOutcome(code)
    PROVE  outcomes' \in [size : Nat, failure : Failures]
BY DEF CallOK, PushOutcome

LEMMA RefreshFailsKeeps ==
    ASSUME Inv, NEW w \in Workers, RefreshFails(w) PROVE Inv'
<1> USE DEF RefreshFails, Unlock
<1>1. OutsideOK' /\ DiskOK' /\ RecordsListOnce' /\ BudgetOK'
  BY OutsideUntouched, DiskUntouched, CalmType, EventType DEF Inv, TypeOK
<1>2. CallOK'
  <2>1. outcomes' \in [size : Nat, failure : Failures]
    BY PushOutcomeType DEF Inv, TypeOK, Failures
  <2> QED BY <2>1 DEF Inv, TypeOK, CallOK
<1>3. ThreadsOK'
  BY EndOfRoundKeeps DEF Inv, TypeOK, ThreadsOK, Goto, WorkerPcs
<1>4. lock = {w}
  BY DEF Inv, TypeOK, CallOK, LockDiscipline
<1>5. Holding' /\ LockDiscipline'
  BY <1>4, EndOfRoundKeeps
  DEF Inv, TypeOK, ThreadsOK, Holding, Working, LockDiscipline, Goto
<1>6. PartsAccounted'
  BY EndOfRoundKeeps, PartsAreNumbers
  DEF Inv, TypeOK, CallOK, PartsAccounted, Numbers, NoPart, Entries
<1>7. Phases'
  BY WorkerFacts DEF Phases
<1> QED BY <1>1, <1>2, <1>3, <1>5, <1>6, <1>7 DEF Inv, TypeOK

LEMMA RefreshSucceedsKeeps ==
    ASSUME Inv, NEW w \in Workers, RefreshSucceeds(w) PROVE Inv'
<1> USE DEF RefreshSucceeds
<1>1. OutsideOK' /\ DiskOK' /\ RecordsListOnce' /\ BudgetOK'
  BY OutsideUntouched, DiskUntouched, CalmType DEF Inv, TypeOK
<1>2. CallOK' /\ ThreadsOK'
  BY DEF Inv, TypeOK, OutsideOK, CallOK, ThreadsOK, call, Goto, WorkerPcs, Versions
<1>3. Holding' /\ LockDiscipline'
  BY DEF Inv, TypeOK, ThreadsOK, Holding, Working, LockDiscipline, Goto, call
<1>4. PartsAccounted'
  BY DEF Inv, PartsAccounted, Numbers, call
<1>5. Phases'
  BY WorkerFacts DEF Phases
<1> QED BY <1>1, <1>2, <1>3, <1>4, <1>5 DEF Inv, TypeOK

LEMMA AssignUrlKeeps ==
    ASSUME Inv, NEW w \in Workers, AssignUrl(w) PROVE Inv'
<1> USE DEF AssignUrl, Unlock
<1>1. OutsideOK' /\ DiskOK' /\ RecordsListOnce' /\ BudgetOK'
  BY OutsideUntouched, DiskUntouched, CalmType DEF Inv, TypeOK
<1>2. CallOK' /\ ThreadsOK'
  BY DEF Inv, TypeOK, CallOK, ThreadsOK, Goto, WorkerPcs
<1>3. lock = {w}
  BY DEF Inv, TypeOK, CallOK, LockDiscipline
<1>4. Holding' /\ LockDiscipline'
  BY <1>3 DEF Inv, TypeOK, ThreadsOK, Holding, Working, LockDiscipline, Goto
<1>5. PartsAccounted'
  BY DEF Inv, PartsAccounted, Numbers
<1>6. Phases'
  BY WorkerFacts DEF Phases
<1> QED BY <1>1, <1>2, <1>4, <1>5, <1>6 DEF Inv, TypeOK

LEMMA PublishKeeps ==
    ASSUME Inv, NEW w \in Workers, Publish(w) PROVE Inv'
<1> USE DEF Publish, LockIsFree
<1>1. OutsideOK' /\ DiskOK' /\ RecordsListOnce' /\ BudgetOK'
  BY OutsideUntouched, DiskUntouched, CalmType DEF Inv, TypeOK
<1>2. part[w] \in Parts /\ mainPc = "join"
  BY WorkerFacts DEF Working
<1>3. got[w] # NoData => got[w] \in Versions
  BY VersionsAssumption DEF Inv, TypeOK, ThreadsOK, NoData, Versions
<1>4. outcomes' \in [size : Nat, failure : Failures]
  BY PushOutcomeType DEF Inv, TypeOK, Failures
<1>5. Phases'
  BY <1>2 DEF Phases
<1>6. CASE got[w] = NoData
  <2>1. CallOK'
    BY <1>4, <1>6 DEF Inv, TypeOK, CallOK
  <2>2. ThreadsOK'
    BY <1>6, EndOfRoundKeeps DEF Inv, TypeOK, ThreadsOK, Goto, WorkerPcs
  <2>3. Holding' /\ LockDiscipline'
    BY <1>6, EndOfRoundKeeps
    DEF Inv, TypeOK, ThreadsOK, Holding, Working, LockDiscipline, Goto
  <2>4. PartsAccounted'
    BY <1>6, EndOfRoundKeeps, PartsAreNumbers
    DEF Inv, TypeOK, CallOK, PartsAccounted, Numbers, NoPart, Entries
  <2> QED BY <1>1, <1>5, <2>1, <2>2, <2>3, <2>4 DEF Inv, TypeOK
<1>7. CASE got[w] # NoData
  <2> DEFINE e == Entry(part[w], got[w])
  <2>1. e \in Entries /\ e.partNumber = part[w]
    BY <1>2, <1>3, <1>7, EntryType
  <2>2. downloadedParts' = downloadedParts \cup {e}
    BY <1>7
  <2> HIDE DEF e
  <2>3. CallOK'
    BY <1>4, <1>7, <2>1, <2>2 DEF Inv, TypeOK, CallOK
  <2>4. ThreadsOK'
    BY <1>7, EndOfRoundKeeps DEF Inv, TypeOK, ThreadsOK, Goto, WorkerPcs
  <2>5. Holding' /\ LockDiscipline'
    BY <1>7, EndOfRoundKeeps
    DEF Inv, TypeOK, ThreadsOK, Holding, Working, LockDiscipline, Goto
  <2>6. Numbers(downloadedParts)' = Numbers(downloadedParts) \cup {part[w]}
    BY <2>1, <2>2 DEF Numbers
  <2>7. PartsAccounted'
    <3>1. \A d \in downloadedParts : d.partNumber # part[w]
      BY DEF Inv, PartsAccounted, Numbers
    <3>2. \A d, f \in downloadedParts' : d.partNumber = f.partNumber => d = f
      BY <2>1, <2>2, <3>1 DEF Inv, PartsAccounted
    <3>3. NoPart \notin Parts /\ Numbers(downloadedParts)' \subseteq Parts
      BY <1>2, <2>6, PartsAreNumbers DEF Inv, TypeOK, CallOK, Numbers, Entries, NoPart
    <3>4. \A v \in Workers : /\ part'[v] \notin partsToDownload'
                             /\ part'[v] \notin Numbers(downloadedParts)'
      BY <2>6, <3>3, <1>2, EndOfRoundKeeps
      DEF Inv, TypeOK, CallOK, PartsAccounted, NoPart
    <3>5. partsToDownload' \cap Numbers(downloadedParts)' = {}
      BY <2>6 DEF Inv, PartsAccounted
    <3>6. \A u, v \in Workers :
              u # v /\ part'[u] # NoPart => part'[u] # part'[v]
      BY EndOfRoundKeeps DEF Inv, PartsAccounted
    <3> QED BY <3>2, <3>4, <3>5, <3>6 DEF PartsAccounted
  <2> QED BY <1>1, <1>5, <2>3, <2>4, <2>5, <2>7 DEF Inv, TypeOK
<1> QED BY <1>6, <1>7

\* Rewriting the record: only the thread that holds the lock moves.
LEMMA SaveKeeps ==
    ASSUME Inv, NEW w \in Workers, SaveOpen(w) \/ SaveWrite(w) PROVE Inv'
<1> USE DEF SaveOpen, SaveWrite, Unlock
<1>1. OutsideOK'
  BY OutsideUntouched
<1>2. PICK r \in RecordFiles :
          /\ WriteRecord(r) \/ UNCHANGED records
          /\ r.parts = {} \/ r.parts = downloadedParts
  <2>1. /\ Saved(target, downloadedParts) \in RecordFiles
        /\ Saved(target, downloadedParts).parts = downloadedParts
    BY RecordTypes DEF Inv, TypeOK, CallOK, Saved
  <2>2. Damaged.parts = {}
    BY DEF Damaged, NoRecord
  <2> QED BY <2>1, <2>2, RecordTypes
<1>3. DiskOK'
  BY <1>2, WriteRecordType DEF Inv, TypeOK, DiskOK
<1>4. RecordsListOnce'
  <2>1. \A h \in Hashes : records'[h] = records[h] \/ records'[h] = r
    BY <1>2 DEF Inv, TypeOK, DiskOK, WriteRecord
  <2> QED BY <1>2, <2>1 DEF Inv, RecordsListOnce, PartsAccounted
<1>5. CallOK'
  BY DEF Inv, TypeOK, CallOK
<1>6. ThreadsOK'
  BY DEF Inv, TypeOK, ThreadsOK, Goto, WorkerPcs
<1>7. BudgetOK'
  BY CalmType, EventType DEF Inv, TypeOK
<1>8. lock = {w}
  BY DEF Inv, TypeOK, CallOK, LockDiscipline
<1>9. Holding' /\ LockDiscipline'
  BY <1>8 DEF Inv, TypeOK, ThreadsOK, Holding, Working, LockDiscipline, Goto
<1>10. PartsAccounted'
  BY DEF Inv, PartsAccounted, Numbers
<1>11. Phases'
  BY WorkerFacts DEF Phases
<1> QED BY <1>1, <1>3, <1>4, <1>5, <1>6, <1>7, <1>9, <1>10, <1>11 DEF Inv, TypeOK

LEMMA WorkerKeeps ==
    ASSUME Inv, NEW w \in Workers, Worker(w) PROVE Inv'
BY PopKeeps, CheckKeeps, ReadUrlKeeps, GetSucceedsKeeps, GetFailsKeeps,
   GetDeniedKeeps, RefreshBeginKeeps, RefreshFailsKeeps, RefreshSucceedsKeeps,
   AssignUrlKeeps, PublishKeeps, SaveKeeps
DEF Worker

-----------------------------------------------------------------------------
(* The end of a call. *)

\* A verdict is one of the codes a call returns.
LEMMA VerdictIsResult == ASSUME Inv PROVE Verdict \in Results
BY DEF Inv, TypeOK, CallOK, Verdict, Results

\* A call that ends keeps the invariant when what it does to the disk is typed.
LEMMA EndKeeps ==
    ASSUME Inv, NEW code \in Results, Return(code),
           DiskOK', RecordsListOnce', BudgetOK'
    PROVE  Inv'
BY ReturnKeeps DEF Inv, TypeOK

\* So does the calling thread when it only moves on, with its threads done.
LEMMA MoveOnKeeps ==
    ASSUME Inv, mainPc' \in {"control", "cancel", "verify", "rename", "finish"},
           \A w \in Workers : workerPc[w] = "done",
           UNCHANGED <<outside, call, result, threads>>,
           DiskOK', RecordsListOnce', BudgetOK'
    PROVE  Inv'
<1>1. OutsideOK'
  BY OutsideUntouched
<1>2. CallOK' /\ ThreadsOK'
  BY DEF Inv, TypeOK, CallOK, ThreadsOK, call, threads, MainPcs
<1>3. Holding' /\ PartsAccounted' /\ LockDiscipline'
  BY ThreadsUntouched DEF call, threads
<1>4. Phases'
  BY DEF Phases, threads
<1> QED BY <1>1, <1>2, <1>3, <1>4 DEF Inv, TypeOK

LEMMA CheckEnableKeeps == ASSUME Inv, CheckEnable PROVE Inv'
<1> USE DEF CheckEnable
<1>1. DiskOK' /\ RecordsListOnce' /\ BudgetOK'
  BY DiskUntouched, CalmType DEF Inv, TypeOK
<1>2. CASE Return("disabled")
  BY <1>1, <1>2, EndKeeps DEF Results
<1>3. CASE mainPc' = "control" /\ UNCHANGED <<outside, call, result, threads>>
  BY <1>1, <1>3, MoveOnKeeps
<1> QED BY <1>2, <1>3

LEMMA CheckControlKeeps == ASSUME Inv, CheckControl PROVE Inv'
<1> USE DEF CheckControl
<1>1. DiskOK' /\ RecordsListOnce' /\ BudgetOK'
  <2>1. CASE UNCHANGED records /\ Calm
    BY <2>1, CalmType DEF Inv, TypeOK, DiskOK, RecordsListOnce
  <2>2. CASE DropRecord
    BY <2>2, DropRecordType, DropRecordListsOnce DEF Inv, TypeOK, DiskOK
  <2> QED BY <2>1, <2>2
<1>2. \A w \in Workers : workerPc[w] = "done"
  BY DEF Inv, Phases
<1>3. CASE Return("stopped")
  BY <1>1, <1>3, EndKeeps DEF Results
<1>4. CASE mainPc' \in {"verify", "cancel"}
           /\ UNCHANGED <<outside, call, result, threads>>
  BY <1>1, <1>2, <1>4, MoveOnKeeps
<1> QED BY <1>3, <1>4

LEMMA RemoveTempFileKeeps == ASSUME Inv, RemoveTempFile PROVE Inv'
<1> USE DEF RemoveTempFile
<1>1. DiskOK' /\ RecordsListOnce'
  BY DEF Inv, TypeOK, DiskOK, RecordsListOnce, EmptyFile, Holdings
<1>2. BudgetOK'
  BY CalmType, EventType DEF Inv, TypeOK
<1> QED BY <1>1, <1>2, EndKeeps DEF Results

LEMMA RejectKeeps == ASSUME Inv, Reject PROVE Inv'
<1> USE DEF Reject
<1>1. DiskOK' /\ RecordsListOnce' /\ BudgetOK'
  <2>1. CASE UNCHANGED records /\ Calm
    BY <2>1, CalmType DEF Inv, TypeOK, DiskOK, RecordsListOnce
  <2>2. CASE DropRecord
    BY <2>2, DropRecordType, DropRecordListsOnce DEF Inv, TypeOK, DiskOK
  <2> QED BY <2>1, <2>2
<1> QED BY <1>1, VerdictIsResult, EndKeeps

LEMMA ReadFirstOfNoneKeeps == ASSUME Inv, ReadFirstOfNone PROVE Inv'
<1> USE DEF ReadFirstOfNone
<1>1. DiskOK' /\ RecordsListOnce' /\ BudgetOK'
  BY DiskUntouched, CalmType DEF Inv, TypeOK
<1> QED BY <1>1, EndKeeps DEF Results, Failures

LEMMA AcceptKeeps == ASSUME Inv, Accept PROVE Inv'
<1> USE DEF Accept
<1>1. DiskOK' /\ RecordsListOnce' /\ BudgetOK'
  BY DiskUntouched, CalmType DEF Inv, TypeOK
<1>2. \A w \in Workers : workerPc[w] = "done"
  BY DEF Inv, Phases
<1> QED BY <1>1, <1>2, MoveOnKeeps

LEMMA RenameKeeps == ASSUME Inv, Rename PROVE Inv'
<1> USE DEF Rename
<1>1. DiskOK' /\ RecordsListOnce'
  BY DEF Inv, TypeOK, DiskOK, RecordsListOnce, EmptyFile, Holdings
<1>2. BudgetOK'
  BY CalmType, EventType DEF Inv, TypeOK
<1>3. \A w \in Workers : workerPc[w] = "done"
  BY DEF Inv, Phases
<1>4. CASE Return("RenameError")
  BY <1>1, <1>2, <1>4, EndKeeps DEF Results
<1>5. CASE mainPc' = "finish" /\ UNCHANGED <<outside, call, result, threads>>
  BY <1>1, <1>2, <1>3, <1>5, MoveOnKeeps
<1> QED BY <1>4, <1>5

LEMMA RemoveRecordFileKeeps == ASSUME Inv, RemoveRecordFile PROVE Inv'
<1> USE DEF RemoveRecordFile
<1>1. DiskOK' /\ RecordsListOnce' /\ BudgetOK'
  BY DropRecordType, DropRecordListsOnce DEF Inv, TypeOK, DiskOK
<1> QED BY <1>1, EndKeeps DEF Results

LEMMA MainKeeps == ASSUME Inv, Main PROVE Inv'
BY LoadRecordKeeps, PrepareKeeps, PlanKeeps, CheckEnableKeeps,
   CheckControlKeeps, RemoveTempFileKeeps, RejectKeeps, ReadFirstOfNoneKeeps,
   AcceptKeeps, RenameKeeps, RemoveRecordFileKeeps
DEF Main

-----------------------------------------------------------------------------
(* The environment. *)

\* What only the outside sees does not reach the rest of the invariant.
LEMMA OutsideKeeps ==
    ASSUME Inv, OutsideOK', BudgetOK',
           UNCHANGED <<disk, mainPc, call, result, threads>>
    PROVE  Inv'
<1>1. DiskOK' /\ RecordsListOnce'
  BY DiskUntouched
<1>2. CallOK' /\ ThreadsOK'
  BY DEF Inv, TypeOK, CallOK, ThreadsOK, call, threads
<1>3. Holding' /\ PartsAccounted' /\ LockDiscipline'
  BY ThreadsUntouched DEF call, threads
<1>4. Phases'
  BY DEF Inv, Phases, call, threads
<1> QED BY <1>1, <1>2, <1>3, <1>4 DEF Inv, TypeOK

LEMMA AskKeeps == ASSUME Inv, AskToQuit \/ Withdraw PROVE Inv'
<1> USE DEF AskToQuit, Withdraw
<1>1. source' \in Versions /\ control' \in {"none", "stop", "cancel"}
  BY DEF Inv, TypeOK, OutsideOK
<1>2. enable' \in BOOLEAN
  BY Zenon DEF Inv, TypeOK, OutsideOK
<1>3. OutsideOK'
  BY <1>1, <1>2, Zenon DEF OutsideOK
<1>4. BudgetOK'
  BY EventType DEF Inv, TypeOK
<1> QED BY <1>3, <1>4, OutsideKeeps

LEMMA ChangeSourceKeeps == ASSUME Inv, ChangeSource PROVE Inv'
<1> USE DEF ChangeSource
<1>1. source' \in Versions /\ control' \in {"none", "stop", "cancel"}
  BY VersionsAssumption DEF Inv, TypeOK, OutsideOK, Versions
<1>2. enable' \in BOOLEAN
  BY Zenon DEF Inv, TypeOK, OutsideOK
<1>3. OutsideOK'
  BY <1>1, <1>2, Zenon DEF OutsideOK
<1>4. BudgetOK'
  BY EventType DEF Inv, TypeOK
<1> QED BY <1>3, <1>4, OutsideKeeps

LEMMA CrashKeeps == ASSUME Inv, Crash PROVE Inv'
<1>1. PICK S \in SUBSET {w \in Workers : Getting(w) /\ CanServe(w)} :
          tempFile' = [p \in Parts |->
              IF \E w \in S : part[w] = p
              THEN Partly(tempFile[p], Served(CHOOSE w \in S : part[w] = p))
              ELSE tempFile[p]]
  BY DEF Crash
<1>2. \A w \in S : Served(w) \in Versions
  BY ServedIsVersion DEF Inv, TypeOK
<1>3. \A p \in Parts : tempFile'[p] \in Holdings
  <2> TAKE p \in Parts
  <2>1. tempFile[p] \in Holdings
    BY DEF Inv, TypeOK, DiskOK
  <2>2. CASE \E w \in S : part[w] = p
    <3> DEFINE x == CHOOSE w \in S : part[w] = p
    <3>1. x \in S
      BY <2>2
    <3>2. Served(x) \in Versions
      BY <1>2, <3>1
    <3>3. tempFile'[p] = Partly(tempFile[p], Served(x))
      BY <1>1, <2>2
    <3> QED BY <2>1, <3>2, <3>3, PartlyType
  <2>3. CASE ~\E w \in S : part[w] = p
    BY <1>1, <2>1, <2>3
  <2> QED BY <2>2, <2>3
<1>4. tempFile' \in [Parts -> Holdings]
  BY <1>1, <1>3
<1>5. DiskOK' /\ RecordsListOnce'
  BY <1>4 DEF Crash, Inv, TypeOK, DiskOK, RecordsListOnce
<1>6. BudgetOK'
  BY EventType DEF Crash, Inv, TypeOK
<1> QED BY <1>5, <1>6, EndKeeps DEF Crash, Results, Failures

LEMMA EnvironmentKeeps == ASSUME Inv, Environment PROVE Inv'
BY AskKeeps, ChangeSourceKeeps, CrashKeeps DEF Environment

-----------------------------------------------------------------------------
(* The invariant. *)

LEMMA InitInv == Init => Inv
<1> SUFFICES ASSUME Init PROVE Inv
  OBVIOUS
<1>1. OutsideOK
  <2>1. source \in Versions /\ control \in {"none", "stop", "cancel"}
    BY PartsAreNumbers DEF Init
  <2>2. enable \in BOOLEAN
    BY Zenon DEF Init
  <2> QED BY <2>1, <2>2, Zenon DEF OutsideOK
<1>2. DiskOK /\ RecordsListOnce
  <2>1. records \in [Hashes -> RecordFiles]
    BY RecordTypes DEF Init
  <2>2. tempFile \in [Parts -> Holdings] /\ dest \in [Parts -> Holdings]
    BY DEF Init, EmptyFile, Holdings
  <2>3. RecordsListOnce
    BY DEF Init, RecordsListOnce, NoRecord
  <2> QED BY <2>1, <2>2, <2>3 DEF DiskOK
<1>3. CallOK
  BY PartsAreNumbers, VersionsAssumption
  DEF Init, CallOK, MainPcs, Results, Failures, NoUrl
<1>4. ThreadsOK
  BY VersionsAssumption DEF Init, ThreadsOK, WorkerPcs, NoPart, NoUrl, NoData
<1>5. BudgetOK
  BY Zenon, 0 \in Nat DEF Init, BudgetOK
<1>6. Holding
  BY DEF Init, Holding, Working
<1>7. PartsAccounted
  BY DEF Init, PartsAccounted, Numbers
<1>8. LockDiscipline
  BY DEF Init, LockDiscipline
<1>9. Phases
  BY DEF Init, Phases
<1> QED BY <1>1, <1>2, <1>3, <1>4, <1>5, <1>6, <1>7, <1>8, <1>9 DEF Inv, TypeOK

LEMMA NextInv == Inv /\ [Next]_vars => Inv'
<1> SUFFICES ASSUME Inv, [Next]_vars PROVE Inv'
  OBVIOUS
<1>1. CASE Next
  BY <1>1, StartKeeps, MainKeeps, WorkerKeeps, EnvironmentKeeps DEF Next
<1>2. CASE UNCHANGED vars
  <2>1. OutsideOK'
    BY <1>2, OutsideUntouched DEF vars
  <2>2. BudgetOK'
    BY <1>2 DEF vars, budget, Inv, TypeOK, BudgetOK
  <2> QED BY <1>2, <2>1, <2>2, OutsideKeeps DEF vars
<1> QED BY <1>1, <1>2

LEMMA Invariance == Spec => []Inv
BY InitInv, NextInv, PTL DEF Spec

\* Every variable keeps its type, whatever the threads, the caller and the
\* crashes do.
THEOREM TypeCorrect == Spec => []TypeOK
<1>1. Inv => TypeOK
  BY DEF Inv
<1> QED BY <1>1, Invariance, PTL

\* No part is fetched by two threads, queued while it is fetched, or listed
\* twice as downloaded, in a call that starts afresh or from any record.
THEOREM EveryPartAccounted == Spec => []PartsAccounted
<1>1. Inv => PartsAccounted
  BY DEF Inv
<1> QED BY <1>1, Invariance, PTL

\* lock_ is held across steps by at most one thread, and exactly by one that
\* refreshes the url or rewrites the record.
THEOREM LockIsExclusive == Spec => []LockDiscipline
<1>1. Inv => LockDiscipline
  BY DEF Inv
<1> QED BY <1>1, Invariance, PTL

-----------------------------------------------------------------------------
(* Whole versions.                                                         *)

ChecksOn == HasCrc /\ CheckSize /\ Events \cap {"open", "remove", "flush", "revert"} = {}

(* The source only goes forward, and what was ever fetched is no newer than it.  The records of other hashes than that of *)
(* the call list nothing newer than its version.                                                                           *)
Ordered ==
    /\ target <= source /\ url <= source
    /\ \A w \in Workers : fetchUrl[w] <= source /\ got[w] <= source
    /\ \A e \in downloadedParts : e.crc <= source
    /\ \A h \in Hashes : \A e \in records[h].parts : e.crc <= source /\ (h # ContentHash[target] => e.crc <= target)

(* A list of parts can be resumed from when each of them is in the file, those at least whose CRC may still be that of the  *)
(* version v asked for, ...                                                                                               *)
InFile(list, file, v) == \A e \in list : e.crc >= v => file[e.partNumber] = e.crc

(* ... or when the file has become the destination and the list, which was left behind, makes every call fail. *)
Spent(list, file, v) ==
    /\ file = EmptyFile
    /\ 1 .. PartCount[v] \subseteq Numbers(list)
    /\ \A e \in list : e.crc <= v

Safe(list, file, v) == InFile(list, file, v) \/ Spent(list, file, v)

Saving(w) == workerPc[w] \in {"open", "save"}

(* The record, and the list the call began with, can be resumed from.  The record is behind the list only while a thread  *)
(* rewrites it; when the process dies then, what is on disk is still in the file.                                          *)
Trusted ==
    /\ mainPc \in {"idle", "load"} => Safe(record.parts, tempFile, target)
    /\ mainPc \notin {"idle", "load"} =>
          /\ Safe(downloadedParts, tempFile, target)
          /\ record.parts \in {{}, downloadedParts} \/ \E w \in Workers : Saving(w)
    /\ (\E w \in Workers : Saving(w)) =>
          InFile(downloadedParts, tempFile, target) /\ record.parts \subseteq downloadedParts
    /\ mainPc = "cancel" => record.parts = {}
    /\ ~HasCheckpoint => \A h \in Hashes : records[h].parts = {}

(* Threads are at work on parts of the version asked for, and what they got is in the temporary file. *)
AtWork ==
    /\ partsToDownload \subseteq 1 .. PartCount[target]
    /\ \A w \in Workers :
          /\ part[w] # NoPart => part[w] \in 1 .. PartCount[target]
          /\ got[w] # NoData => workerPc[w] = "publish" /\ tempFile[part[w]] = got[w]

AllParts(v) == {Entry(p, v) : p \in 1 .. PartCount[v]}

Published ==
    /\ mainPc \in {"rename", "finish"} => downloadedParts = AllParts(target)
    /\ mainPc = "rename" => tempFile = Content(target)
    /\ mainPc = "finish" => dest = Content(target)
    /\ mainPc # "idle" => result = "none"

WholeInv == Inv /\ Ordered /\ Trusted /\ AtWork /\ Published /\ OkMeansWhole

-----------------------------------------------------------------------------
(* Facts about one state. *)

LEMMA NoSuchEvent ==
    ASSUME ChecksOn
    PROVE  /\ ~Event("open") /\ ~Event("remove") /\ ~Event("flush") /\ ~Event("revert")
           /\ HasCrc /\ CheckSize
BY DEF ChecksOn, Event

LEMMA Basics ==
    ASSUME Inv
    PROVE  /\ \A v \in Versions : ContentHash[v] \in Hashes
           /\ source \in Versions /\ source \in Nat /\ target \in Versions /\ target \in Nat /\ url \in Nat
           /\ ContentHash[target] \in Hashes
           /\ \A w \in Workers : fetchUrl[w] \in Nat /\ got[w] \in Nat /\ part[w] \in Nat
           /\ \A h \in Hashes : records[h].parts \subseteq Entries
           /\ record.parts \subseteq Entries
           /\ downloadedParts \subseteq Entries
           /\ \A e \in Entries : e.crc \in Nat /\ e.partNumber \in Parts
           /\ PartCount[target] \in Parts /\ Parts \subseteq Nat
<1>1. /\ \A v \in Versions : ContentHash[v] \in Hashes
      /\ source \in Versions /\ source \in Nat /\ target \in Versions /\ target \in Nat /\ url \in Nat
      /\ ContentHash[target] \in Hashes
  BY PartsAreNumbers, VersionsAssumption DEF Inv, TypeOK, OutsideOK, CallOK, Versions
<1>2. \A w \in Workers : fetchUrl[w] \in Nat /\ got[w] \in Nat /\ part[w] \in Nat
  BY VersionsAssumption DEF Inv, TypeOK, ThreadsOK
<1>3. \A h \in Hashes : records[h].parts \subseteq Entries
  BY DEF Inv, TypeOK, DiskOK, RecordFiles
<1>4. record.parts \subseteq Entries
  BY <1>1, <1>3 DEF record
<1>5. downloadedParts \subseteq Entries
  BY DEF Inv, TypeOK, CallOK
<1>6. \A e \in Entries : e.crc \in Nat /\ e.partNumber \in Parts
  BY VersionsAssumption DEF Entries
<1>7. PartCount[target] \in Parts /\ Parts \subseteq Nat
  BY <1>1, PartsAreNumbers
<1> QED BY <1>1, <1>2, <1>3, <1>4, <1>5, <1>6, <1>7

(* Nothing is at work while the calling thread does not wait. *)
LEMMA Resting ==
    ASSUME WholeInv, mainPc # "join"
    PROVE  \A w \in Workers : /\ workerPc[w] = "done" /\ part[w] = NoPart /\ got[w] = NoData
                              /\ ~Saving(w)
BY DEF WholeInv, AtWork, Inv, Phases, Holding, Working, Saving

LEMMA SafeRecord == ASSUME WholeInv PROVE Safe(record.parts, tempFile, target)
<1>1. InFile({}, tempFile, target)
  BY DEF InFile
<1>2. \A s, t : s \subseteq t /\ InFile(t, tempFile, target) => InFile(s, tempFile, target)
  BY DEF InFile
<1> QED BY <1>1, <1>2 DEF WholeInv, Trusted, Safe

(* A call with a part to fetch did not begin with a spent list. *)
LEMMA NotSpent ==
    ASSUME WholeInv, NEW w \in Workers, part[w] # NoPart
    PROVE  InFile(downloadedParts, tempFile, target) /\ mainPc = "join"
<1>1. mainPc = "join"
  BY Resting
<1>2. part[w] \in 1 .. PartCount[target] /\ part[w] \notin Numbers(downloadedParts)
  BY DEF WholeInv, AtWork, Inv, PartsAccounted
<1> QED BY <1>1, <1>2 DEF WholeInv, Trusted, Safe, Spent

(* Bytes that come in go to parts that nobody has listed. *)
Written == \A p \in Parts : tempFile'[p] # tempFile[p] => \E w \in Workers : part[w] = p

LEMMA WrittenKeepsFile ==
    ASSUME WholeInv, Written, NEW list \in SUBSET downloadedParts, InFile(list, tempFile, target)
    PROVE  InFile(list, tempFile', target)
BY Basics DEF WholeInv, Inv, PartsAccounted, Numbers, Written, InFile

-----------------------------------------------------------------------------
(* The calling thread, before it starts the threads. *)

LEMMA StartWhole == ASSUME WholeInv, ChecksOn, Start PROVE WholeInv'
<1> USE DEF Start, disk, threads, outside, Idle
<1>1. Inv'
  BY StartKeeps DEF WholeInv
<1>2. Ordered'
  <2>1. \A w \in Workers : fetchUrl'[w] <= source /\ got'[w] <= source
    BY DEF WholeInv, Ordered
  <2>2. \A e \in downloadedParts' : e.crc <= source
    BY DEF WholeInv, Ordered
  <2>3. \A h \in Hashes : \A e \in records'[h].parts : e.crc <= source
    BY DEF WholeInv, Ordered
  <2>4. target' <= source' /\ url' <= source' /\ source' = source /\ target' = source
    BY Basics DEF WholeInv
  <2> QED BY <2>1, <2>2, <2>3, <2>4 DEF Ordered
<1>3. Safe(record.parts, tempFile, target)'
  <2>1. target <= source /\ target' = source /\ target \in Nat /\ source \in Nat
    BY Basics DEF WholeInv, Ordered
  <2>2. ContentHash[target'] \in Hashes /\ \A e \in record'.parts : e.crc \in Nat
    BY Basics DEF WholeInv, record
  <2>3. CASE ContentHash[target'] = ContentHash[target]
    <3>1. record'.parts = record.parts
      BY <2>3 DEF record
    <3>2. CASE target' = target
      BY <3>1, <3>2, SafeRecord
    <3>3. CASE target' > target /\ InFile(record.parts, tempFile, target)
      BY <2>1, <2>2, <3>1, <3>3 DEF InFile, Safe
    <3>4. CASE target' > target /\ Spent(record.parts, tempFile, target)
      BY <2>1, <2>2, <3>1, <3>4 DEF InFile, Spent, Safe
    <3> QED BY <2>1, <3>2, <3>3, <3>4, SafeRecord DEF Safe
  <2>4. CASE ContentHash[target'] # ContentHash[target]
    <3>2. \A e \in record'.parts : e.crc <= target
      BY <2>2, <2>4 DEF WholeInv, Ordered, record
    <3>3. target' # target
      BY <2>4
    <3>4. \A e \in record'.parts : ~ e.crc >= target'
      BY <2>1, <2>2, <3>2, <3>3
    <3> QED BY <3>4 DEF InFile, Safe
  <2> QED BY <2>3, <2>4
<1>4. Trusted'
  <2>1. ~HasCheckpoint => \A h \in Hashes : records'[h].parts = {}
    BY DEF WholeInv, Trusted
  <2>2. \A w \in Workers : ~Saving(w)'
    BY Resting DEF Saving
  <2> QED BY <1>3, <2>1, <2>2 DEF Trusted
<1>5. AtWork'
  <2>1. partsToDownload' = {}
    BY DEF WholeInv, Inv, Phases
  <2> QED BY <2>1, Resting DEF AtWork
<1>6. Published' /\ OkMeansWhole'
  BY DEF Published, OkMeansWhole
<1> QED BY <1>1, <1>2, <1>4, <1>5, <1>6 DEF WholeInv

(* What the calling thread writes to the record, before and after the threads run, lists nothing. *)
EmptiesRecord ==
    \A h \in Hashes : \/ records'[h].parts = records[h].parts
                      \/ h = ContentHash[target] /\ records'[h].parts = {}

LEMMA WriteEmpties ==
    ASSUME WholeInv, NEW r, r.parts = {}, WriteRecord(r)
    PROVE  EmptiesRecord /\ (target' = target => record'.parts = {})
<1>1. EmptiesRecord
  <2>1. CASE HasCheckpoint
    <3>1. records' = [records EXCEPT ![ContentHash[target]] = r]
      BY <2>1 DEF WriteRecord
    <3>2. \A h \in Hashes : records'[h] = IF h = ContentHash[target] THEN r ELSE records[h]
      BY <3>1 DEF WholeInv, Inv, TypeOK, DiskOK
    <3> QED BY <3>2 DEF EmptiesRecord
  <2>2. CASE ~HasCheckpoint
    BY <2>2 DEF WriteRecord, EmptiesRecord
  <2> QED BY <2>1, <2>2
<1>2. HasCheckpoint => records'[ContentHash[target]] = r
  BY Basics DEF WriteRecord, WholeInv, Inv, TypeOK, DiskOK
<1>3. ~HasCheckpoint => records'[ContentHash[target]].parts = {}
  BY Basics DEF WriteRecord, WholeInv, Trusted
<1> QED BY <1>1, <1>2, <1>3 DEF record

LEMMA DropEmpties ==
    ASSUME WholeInv, ChecksOn, DropRecord
    PROVE  EmptiesRecord /\ (target' = target => record'.parts = {})
BY NoSuchEvent, WriteEmpties DEF DropRecord, NoRecord

LEMMA EmptiesKeepsOrder ==
    ASSUME WholeInv, EmptiesRecord, target' = target, source' = source,
           url' = url \/ url' = NoUrl,
           downloadedParts' \in {{}, downloadedParts, record.parts},
           \A w \in Workers : fetchUrl'[w] \in {fetchUrl[w], NoUrl} /\ got'[w] \in {got[w], NoData}
    PROVE  Ordered' /\ (~HasCheckpoint => \A h \in Hashes : records'[h].parts = {})
<1>1. target' <= source' /\ url' <= source'
  BY Basics DEF WholeInv, Ordered, NoUrl
<1>2. \A w \in Workers : fetchUrl'[w] <= source' /\ got'[w] <= source'
  BY Basics DEF WholeInv, Ordered, NoUrl, NoData
<1>3. \A e \in downloadedParts' : e.crc <= source'
  BY Basics DEF WholeInv, Ordered, record
<1>4. \A h \in Hashes : \A e \in records'[h].parts : e.crc <= source' /\ (h # ContentHash[target'] => e.crc <= target')
  BY DEF WholeInv, Ordered, EmptiesRecord
<1>5. ~HasCheckpoint => \A h \in Hashes : records'[h].parts = {}
  BY DEF WholeInv, Trusted, EmptiesRecord
<1> QED BY <1>1, <1>2, <1>3, <1>4, <1>5 DEF Ordered

LEMMA LoadRecordWhole == ASSUME WholeInv, ChecksOn, LoadRecord PROVE WholeInv'
<1> USE DEF LoadRecord, threads, outside
<1>1. Inv'
  BY LoadRecordKeeps DEF WholeInv
<1>2. \/ EmptiesRecord /\ record'.parts = {}
      \/ UNCHANGED records
  BY DropEmpties
<1>3. EmptiesRecord
  <2>1. CASE UNCHANGED records
    BY <2>1 DEF EmptiesRecord
  <2> QED BY <1>2, <2>1
<1>4. ~HasCheckpoint => record.parts = {}
  BY Basics DEF WholeInv, Trusted, record
<1>5. downloadedParts' = record.parts
  BY <1>4
<1>6. Ordered' /\ (~HasCheckpoint => \A h \in Hashes : records'[h].parts = {})
  BY <1>3, <1>5, EmptiesKeepsOrder
<1>7. Safe(downloadedParts, tempFile, target)'
  BY <1>5, SafeRecord
<1>8. record'.parts \in {{}, downloadedParts'}
  BY <1>2, <1>5 DEF record
<1>9. \A w \in Workers : ~Saving(w)'
  BY Resting DEF Saving
<1>10. Trusted'
  BY <1>6, <1>7, <1>8, <1>9 DEF Trusted
<1>11. AtWork' /\ Published' /\ OkMeansWhole'
  BY DEF WholeInv, AtWork, Published, OkMeansWhole
<1> QED BY <1>1, <1>6, <1>10, <1>11 DEF WholeInv

LEMMA PrepareWhole == ASSUME WholeInv, ChecksOn, PrepareOpen \/ PrepareWrite PROVE WholeInv'
<1> USE DEF PrepareOpen, PrepareWrite, threads, outside, call
<1>1. Inv'
  BY PrepareKeeps DEF WholeInv
<1>2. EmptiesRecord /\ record'.parts = {}
  <2>1. Saved(target, {}).parts = {} /\ Damaged.parts = {}
    BY DEF Saved, Damaged, NoRecord
  <2> QED BY <2>1, NoSuchEvent, WriteEmpties
<1>3. Ordered' /\ (~HasCheckpoint => \A h \in Hashes : records'[h].parts = {})
  BY <1>2, EmptiesKeepsOrder
<1>4. \A w \in Workers : ~Saving(w)'
  BY Resting DEF Saving
<1>5. Trusted'
  BY <1>2, <1>3, <1>4 DEF WholeInv, Trusted
<1>6. AtWork' /\ Published' /\ OkMeansWhole'
  BY DEF WholeInv, AtWork, Published, OkMeansWhole
<1> QED BY <1>1, <1>3, <1>5, <1>6 DEF WholeInv

LEMMA PlanWhole == ASSUME WholeInv, ChecksOn, Plan PROVE WholeInv'
<1> USE DEF Plan, disk, outside
<1>1. Inv'
  BY PlanKeeps DEF WholeInv
<1>2. Ordered'
  BY DEF WholeInv, Ordered
<1>3. \A w \in Workers : ~Saving(w) /\ ~Saving(w)'
  BY Resting DEF Saving
<1>4. Trusted'
  BY <1>3 DEF WholeInv, Trusted, record
<1>5. AtWork'
  BY Resting DEF AtWork, ToDownload
<1>6. Published' /\ OkMeansWhole'
  BY DEF WholeInv, Published, OkMeansWhole
<1> QED BY <1>1, <1>2, <1>4, <1>5, <1>6 DEF WholeInv

-----------------------------------------------------------------------------
(* The download threads. *)

(* Steps that touch neither the disk nor the list. *)
LEMMA WorkerRests ==
    ASSUME WholeInv, Inv', mainPc = "join",
           UNCHANGED <<source, records, dest, tempFile, mainPc, target, downloadedParts, result>>,
           url' <= source, \A x \in Workers : fetchUrl'[x] <= source,
           \A x \in Workers : Saving(x)' = Saving(x),
           partsToDownload' \subseteq partsToDownload,
           \A x \in Workers : part'[x] \in {part[x], NoPart} \cup partsToDownload,
           \A x \in Workers : \/ got'[x] = NoData
                              \/ got'[x] = got[x] /\ workerPc'[x] = workerPc[x] /\ part'[x] = part[x]
    PROVE  WholeInv'
<1>1. Ordered'
  BY Basics DEF WholeInv, Ordered, NoData
<1>2. Trusted'
  BY DEF WholeInv, Trusted, record
<1>3. AtWork'
  BY DEF WholeInv, AtWork
<1>4. Published' /\ OkMeansWhole'
  BY DEF WholeInv, Published, OkMeansWhole
<1> QED BY <1>1, <1>2, <1>3, <1>4 DEF WholeInv

(* A working thread of a call that waits. *)
LEMMA AtJoin ==
    ASSUME WholeInv, NEW w \in Workers, workerPc[w] # "done"
    PROVE  mainPc = "join"
BY WorkerFacts DEF WholeInv

LEMMA PcsTyped == ASSUME WholeInv PROVE workerPc \in [Workers -> WorkerPcs]
BY DEF WholeInv, Inv, TypeOK, ThreadsOK

LEMMA ThreadsTyped ==
    ASSUME WholeInv
    PROVE  part \in [Workers -> Nat] /\ fetchUrl \in [Workers -> Nat] /\ got \in [Workers -> Nat]
BY VersionsAssumption DEF WholeInv, Inv, TypeOK, ThreadsOK

LEMMA UrlsAreOld ==
    ASSUME WholeInv
    PROVE  url <= source /\ (\A w \in Workers : fetchUrl[w] <= source) /\ NoUrl <= source
BY Basics DEF WholeInv, Ordered, NoUrl

LEMMA PopWhole == ASSUME WholeInv, NEW w \in Workers, Pop(w) PROVE WholeInv'
<1> USE DEF Pop, outside, disk
<1>1. Inv' /\ mainPc = "join"
  BY PopKeeps, AtJoin DEF WholeInv
<1>2. \A x \in Workers : Saving(x)' = Saving(x)
  BY PcsTyped DEF Goto, Saving
<1>3. got[w] = NoData
  BY DEF WholeInv, AtWork
<1>4. \A x \in Workers : part'[x] \in {part[x], NoPart} \cup partsToDownload
  BY ThreadsTyped
<1>5. \A x \in Workers \ {w} : workerPc'[x] = workerPc[x] /\ part'[x] = part[x]
  BY PcsTyped, ThreadsTyped DEF Goto
<1>6. partsToDownload' \subseteq partsToDownload
  OBVIOUS
<1> QED BY <1>1, <1>2, <1>3, <1>4, <1>5, <1>6, UrlsAreOld, WorkerRests

LEMMA CheckWhole == ASSUME WholeInv, NEW w \in Workers, Check(w) PROVE WholeInv'
<1> USE DEF Check, outside, disk, call
<1>1. Inv' /\ mainPc = "join"
  BY CheckKeeps, AtJoin DEF WholeInv
<1>2. \A x \in Workers : Saving(x)' = Saving(x)
  BY PcsTyped DEF Goto, Saving
<1>3. got[w] = NoData
  BY DEF WholeInv, AtWork
<1>4. \A x \in Workers : part'[x] \in {part[x], NoPart}
  BY ThreadsTyped
<1>5. \A x \in Workers \ {w} : workerPc'[x] = workerPc[x] /\ part'[x] = part[x]
  BY PcsTyped, ThreadsTyped DEF Goto
<1> QED BY <1>1, <1>2, <1>3, <1>4, <1>5, UrlsAreOld, WorkerRests

LEMMA ReadUrlWhole == ASSUME WholeInv, NEW w \in Workers, ReadUrl(w) PROVE WholeInv'
<1> USE DEF ReadUrl, outside, disk, call
<1>1. Inv' /\ mainPc = "join"
  BY ReadUrlKeeps, AtJoin DEF WholeInv
<1>2. \A x \in Workers : Saving(x)' = Saving(x)
  BY PcsTyped DEF Goto, Saving
<1>3. got[w] = NoData
  BY DEF WholeInv, AtWork
<1>4. PICK u : /\ u = url \/ u = NoUrl \/ \E x \in Workers : u = fetchUrl[x]
               /\ fetchUrl' = [fetchUrl EXCEPT ![w] = u]
  OBVIOUS
<1>5. \A x \in Workers : fetchUrl'[x] <= source
  BY <1>4, UrlsAreOld, ThreadsTyped
<1>6. \A x \in Workers \ {w} : workerPc'[x] = workerPc[x]
  BY PcsTyped DEF Goto
<1> QED BY <1>1, <1>2, <1>3, <1>5, <1>6, UrlsAreOld, WorkerRests

LEMMA GetDeniedWhole == ASSUME WholeInv, NEW w \in Workers, GetDenied(w) PROVE WholeInv'
<1> USE DEF GetDenied, outside, disk, call
<1>1. Inv' /\ mainPc = "join"
  BY GetDeniedKeeps, AtJoin DEF WholeInv
<1>2. \A x \in Workers : Saving(x)' = Saving(x)
  BY PcsTyped DEF Goto, Saving
<1>3. got[w] = NoData
  BY DEF WholeInv, AtWork
<1>4. \A x \in Workers \ {w} : workerPc'[x] = workerPc[x]
  BY PcsTyped DEF Goto
<1> QED BY <1>1, <1>2, <1>3, <1>4, UrlsAreOld, WorkerRests

LEMMA RefreshBeginWhole == ASSUME WholeInv, NEW w \in Workers, RefreshBegin(w) PROVE WholeInv'
<1> USE DEF RefreshBegin, outside, disk
<1>1. Inv' /\ mainPc = "join"
  BY RefreshBeginKeeps, AtJoin DEF WholeInv
<1>2. \A x \in Workers : Saving(x)' = Saving(x)
  BY PcsTyped DEF Goto, Saving
<1>3. got[w] = NoData
  BY DEF WholeInv, AtWork
<1>4. \A x \in Workers \ {w} : workerPc'[x] = workerPc[x]
  BY PcsTyped DEF Goto
<1> QED BY <1>1, <1>2, <1>3, <1>4, UrlsAreOld, WorkerRests

LEMMA RefreshFailsWhole == ASSUME WholeInv, NEW w \in Workers, RefreshFails(w) PROVE WholeInv'
<1> USE DEF RefreshFails, outside, disk, EndOfRound
<1>1. Inv' /\ mainPc = "join"
  BY RefreshFailsKeeps, AtJoin DEF WholeInv
<1>2. \A x \in Workers : Saving(x)' = Saving(x)
  BY PcsTyped DEF Goto, Saving
<1>3. got'[w] = NoData /\ part'[w] = NoPart /\ fetchUrl'[w] = NoUrl
  BY ThreadsTyped
<1>4. \A x \in Workers \ {w} : /\ workerPc'[x] = workerPc[x] /\ part'[x] = part[x]
                               /\ got'[x] = got[x] /\ fetchUrl'[x] = fetchUrl[x]
  BY PcsTyped, ThreadsTyped DEF Goto
<1> QED BY <1>1, <1>2, <1>3, <1>4, UrlsAreOld, WorkerRests

LEMMA RefreshSucceedsWhole ==
    ASSUME WholeInv, NEW w \in Workers, RefreshSucceeds(w) PROVE WholeInv'
<1> USE DEF RefreshSucceeds, outside, disk, call
<1>1. Inv' /\ mainPc = "join"
  BY RefreshSucceedsKeeps, AtJoin DEF WholeInv
<1>2. \A x \in Workers : Saving(x)' = Saving(x)
  BY PcsTyped DEF Goto, Saving
<1>3. got[w] = NoData
  BY DEF WholeInv, AtWork
<1>4. \A x \in Workers \ {w} : workerPc'[x] = workerPc[x]
  BY PcsTyped DEF Goto
<1>5. \A x \in Workers : fetchUrl'[x] <= source
  BY UrlsAreOld, ThreadsTyped, Basics DEF WholeInv
<1> QED BY <1>1, <1>2, <1>3, <1>4, <1>5, UrlsAreOld, WorkerRests

LEMMA AssignUrlWhole == ASSUME WholeInv, NEW w \in Workers, AssignUrl(w) PROVE WholeInv'
<1> USE DEF AssignUrl, outside, disk
<1>1. Inv' /\ mainPc = "join"
  BY AssignUrlKeeps, AtJoin DEF WholeInv
<1>2. \A x \in Workers : Saving(x)' = Saving(x)
  BY PcsTyped DEF Goto, Saving
<1>3. got[w] = NoData
  BY DEF WholeInv, AtWork
<1>4. \A x \in Workers \ {w} : workerPc'[x] = workerPc[x]
  BY PcsTyped DEF Goto
<1> QED BY <1>1, <1>2, <1>3, <1>4, UrlsAreOld, WorkerRests

(* Bytes come in: what is listed, and what other threads got, stays. *)
LEMMA BytesComeIn ==
    ASSUME WholeInv, NEW w \in Workers, Getting(w), Inv', NEW b,
           tempFile' = [tempFile EXCEPT ![part[w]] = b],
           UNCHANGED <<source, records, mainPc, target, downloadedParts, partsToDownload, part, result>>,
           Goto(w, "publish")
    PROVE  Trusted' /\ Published' /\ OkMeansWhole'
<1>1. part[w] # NoPart /\ part[w] \in Parts
  BY WorkerFacts DEF WholeInv, Inv, Holding, Working, Getting
<1>2. mainPc = "join" /\ InFile(downloadedParts, tempFile, target)
  BY <1>1, NotSpent
<1>3. tempFile \in [Parts -> Holdings]
  BY DEF WholeInv, Inv, TypeOK, DiskOK
<1>4. Written
  BY <1>1, <1>3 DEF Written
<1>5. InFile(downloadedParts, tempFile', target)
  BY <1>2, <1>4, WrittenKeepsFile
<1>6. \A x \in Workers : Saving(x)' = Saving(x)
  BY PcsTyped DEF Goto, Saving, Getting
<1>7. Trusted'
  BY <1>2, <1>5, <1>6 DEF WholeInv, Trusted, Safe, record
<1>8. Published' /\ OkMeansWhole'
  BY <1>2 DEF WholeInv, Published, OkMeansWhole, Inv
<1> QED BY <1>7, <1>8

LEMMA GetSucceedsWhole ==
    ASSUME WholeInv, ChecksOn, NEW w \in Workers, GetSucceeds(w) PROVE WholeInv'
<1> USE DEF GetSucceeds, outside, call
<1>1. Inv'
  BY GetSucceedsKeeps DEF WholeInv
<1>2. tempFile' = [tempFile EXCEPT ![part[w]] = Served(w)]
  BY NoSuchEvent
<1>3. Trusted'
  BY <1>1, <1>2, BytesComeIn
<1>4. OkMeansWhole' /\ Published'
  BY <1>1, <1>2, BytesComeIn
<1>5. Served(w) <= source /\ Served(w) \in Nat
  BY UrlsAreOld, Basics DEF WholeInv, Served
<1>6. Ordered'
  BY <1>5, ThreadsTyped DEF WholeInv, Ordered
<1>7. part[w] # NoPart /\ part[w] \in Parts
  BY WorkerFacts DEF WholeInv, Inv, Holding, Working, Getting
<1>8. tempFile \in [Parts -> Holdings]
  BY DEF WholeInv, Inv, TypeOK, DiskOK
<1>9. AtWork'
  <2>1. tempFile'[part[w]] = Served(w) /\ got'[w] = Served(w) /\ workerPc'[w] = "publish"
    BY <1>2, <1>7, <1>8, PcsTyped, ThreadsTyped DEF Goto
  <2>2. ASSUME NEW x \in Workers \ {w}, got'[x] # NoData
        PROVE  workerPc'[x] = "publish" /\ tempFile'[part[x]] = got'[x]
    <3>1. got'[x] = got[x] /\ workerPc'[x] = workerPc[x]
      BY PcsTyped, ThreadsTyped DEF Goto
    <3>2. workerPc[x] = "publish" /\ tempFile[part[x]] = got[x]
      BY <2>2, <3>1 DEF WholeInv, AtWork
    <3>3. part[x] # NoPart /\ part[x] \in Parts
      BY <3>2, WorkerFacts DEF WholeInv, Inv, Holding, Working
    <3>4. part[x] # part[w]
      BY <1>7, <3>3 DEF WholeInv, Inv, PartsAccounted
    <3> QED BY <1>2, <1>8, <3>1, <3>2, <3>3, <3>4
  <2>3. partsToDownload' \subseteq 1 .. PartCount[target'] /\ \A x \in Workers : part'[x] # NoPart => part'[x] \in 1 .. PartCount[target']
    BY DEF WholeInv, AtWork
  <2> QED BY <2>1, <2>2, <2>3 DEF AtWork
<1> QED BY <1>1, <1>3, <1>4, <1>6, <1>9 DEF WholeInv

LEMMA GetFailsWhole == ASSUME WholeInv, NEW w \in Workers, GetFails(w) PROVE WholeInv'
<1> USE DEF GetFails, outside, call
<1>1. Inv'
  BY GetFailsKeeps DEF WholeInv
<1>2. part[w] # NoPart /\ part[w] \in Parts
  BY WorkerFacts DEF WholeInv, Inv, Holding, Working, Getting
<1>3. tempFile \in [Parts -> Holdings]
  BY DEF WholeInv, Inv, TypeOK, DiskOK
<1>4. PICK b : tempFile' = [tempFile EXCEPT ![part[w]] = b]
  <2>1. CASE UNCHANGED tempFile
    <3>1. tempFile' = [tempFile EXCEPT ![part[w]] = tempFile[part[w]]]
      BY <1>3, <2>1
    <3> QED BY <3>1
  <2>2. CASE tempFile' = [tempFile EXCEPT ![part[w]] = Partly(@, Served(w))]
    BY <2>2
  <2> QED BY <2>1, <2>2
<1>5. Trusted' /\ Published' /\ OkMeansWhole'
  BY <1>1, <1>4, BytesComeIn
<1>6. Ordered'
  BY ThreadsTyped, Basics DEF WholeInv, Ordered, NoData
<1>7. AtWork'
  <2>1. got'[w] = NoData
    BY ThreadsTyped
  <2>2. ASSUME NEW x \in Workers \ {w}, got'[x] # NoData
        PROVE  workerPc'[x] = "publish" /\ tempFile'[part[x]] = got'[x]
    <3>1. got'[x] = got[x] /\ workerPc'[x] = workerPc[x]
      BY PcsTyped, ThreadsTyped DEF Goto
    <3>2. workerPc[x] = "publish" /\ tempFile[part[x]] = got[x]
      BY <2>2, <3>1 DEF WholeInv, AtWork
    <3>3. part[x] # NoPart /\ part[x] \in Parts
      BY <3>2, WorkerFacts DEF WholeInv, Inv, Holding, Working
    <3>4. part[x] # part[w]
      BY <1>2, <3>3 DEF WholeInv, Inv, PartsAccounted
    <3> QED BY <1>3, <1>4, <3>1, <3>2, <3>3, <3>4
  <2>3. partsToDownload' \subseteq 1 .. PartCount[target'] /\ \A x \in Workers : part'[x] # NoPart => part'[x] \in 1 .. PartCount[target']
    BY DEF WholeInv, AtWork
  <2> QED BY <2>1, <2>2, <2>3 DEF AtWork
<1> QED BY <1>1, <1>5, <1>6, <1>7 DEF WholeInv

LEMMA PublishWhole == ASSUME WholeInv, ChecksOn, NEW w \in Workers, Publish(w) PROVE WholeInv'
<1> USE DEF Publish, outside, disk, EndOfRound
<1>1. Inv' /\ mainPc = "join"
  BY PublishKeeps, AtJoin DEF WholeInv
<1>2. got'[w] = NoData /\ part'[w] = NoPart /\ fetchUrl'[w] = NoUrl
  BY ThreadsTyped
<1>3. \A x \in Workers \ {w} : /\ workerPc'[x] = workerPc[x] /\ part'[x] = part[x]
                               /\ got'[x] = got[x] /\ fetchUrl'[x] = fetchUrl[x]
  BY PcsTyped, ThreadsTyped DEF Goto
<1>4. CASE got[w] = NoData
  <2>1. \A x \in Workers : Saving(x)' = Saving(x)
    BY <1>4, PcsTyped DEF Goto, Saving
  <2> QED BY <1>1, <1>2, <1>3, <1>4, <2>1, UrlsAreOld, WorkerRests
<1>5. CASE got[w] # NoData
  <2>1. downloadedParts' = downloadedParts \cup {Entry(part[w], got[w])}
    BY <1>5
  <2>2. /\ Entry(part[w], got[w]).crc = got[w] /\ Entry(part[w], got[w]).partNumber = part[w]
        /\ tempFile[part[w]] = got[w] /\ got[w] <= source
    BY <1>5, NoSuchEvent DEF Entry, WholeInv, AtWork, Ordered
  <2>3. part[w] # NoPart
    BY DEF WholeInv, Inv, Holding, Working
  <2>4. InFile(downloadedParts, tempFile, target)
    BY <2>3, NotSpent
  <2>5. InFile(downloadedParts', tempFile', target')
    BY <2>1, <2>2, <2>4 DEF InFile
  <2>6. \A x \in Workers : ~Saving(x)
    BY DEF WholeInv, Inv, LockDiscipline, LockIsFree, Saving
  <2>7. record.parts \subseteq downloadedParts
    BY <1>1, <2>6 DEF WholeInv, Trusted
  <2>8. record'.parts \in {{}, downloadedParts'} \/ \E x \in Workers : Saving(x)'
    <3>1. CASE HasCheckpoint
      BY <1>5, <3>1, PcsTyped DEF Goto, Saving
    <3>2. CASE ~HasCheckpoint
      BY <3>2, Basics DEF WholeInv, Trusted, record
    <3> QED BY <3>1, <3>2
  <2>9. Trusted'
    BY <1>1, <2>1, <2>5, <2>7, <2>8 DEF WholeInv, Trusted, Safe, record
  <2>10. Ordered'
    BY <1>2, <1>3, <2>1, <2>2, UrlsAreOld, Basics DEF WholeInv, Ordered, NoData
  <2>11. AtWork'
    BY <1>2, <1>3 DEF WholeInv, AtWork
  <2>12. Published' /\ OkMeansWhole'
    BY <1>1 DEF WholeInv, Published, OkMeansWhole
  <2> QED BY <1>1, <2>9, <2>10, <2>11, <2>12 DEF WholeInv
<1> QED BY <1>4, <1>5

LEMMA SaveWhole ==
    ASSUME WholeInv, ChecksOn, NEW w \in Workers, SaveOpen(w) \/ SaveWrite(w) PROVE WholeInv'
<1> USE DEF SaveOpen, SaveWrite, outside
<1>1. Inv' /\ mainPc = "join"
  BY SaveKeeps, AtJoin DEF WholeInv
<1>2. Saving(w) /\ got[w] = NoData
  BY DEF WholeInv, AtWork, Saving
<1>3. PICK r : /\ WriteRecord(r)
               /\ \/ r.parts = {} /\ workerPc'[w] = "save"
                  \/ r.parts = downloadedParts
  BY NoSuchEvent, PcsTyped DEF Goto, Damaged, NoRecord, Saved
<1>4. HasCheckpoint => records' = [records EXCEPT ![ContentHash[target]] = r]
  BY <1>3 DEF WriteRecord
<1>5. ~HasCheckpoint => records' = records
  BY <1>3 DEF WriteRecord
<1>6. \A h \in Hashes \ {ContentHash[target]} : records'[h] = records[h]
  BY <1>4, <1>5 DEF WholeInv, Inv, TypeOK, DiskOK
<1>7. record'.parts \in {r.parts, {}}
  <2>1. CASE HasCheckpoint
    BY <2>1, <1>4, Basics DEF record, WholeInv, Inv, TypeOK, DiskOK
  <2>2. CASE ~HasCheckpoint
    BY <2>2, <1>5, Basics DEF record, WholeInv, Trusted
  <2> QED BY <2>1, <2>2
<1>8. Ordered'
  <2>1. \A e \in record'.parts : e.crc <= source
    BY <1>3, <1>7 DEF WholeInv, Ordered
  <2>2. \A h \in Hashes : \A e \in records'[h].parts :
            e.crc <= source /\ (h # ContentHash[target] => e.crc <= target)
    BY <1>6, <2>1 DEF WholeInv, Ordered, record
  <2> QED BY <2>2 DEF WholeInv, Ordered
<1>9. Trusted'
  <2>1. InFile(downloadedParts, tempFile, target)
    BY <1>2 DEF WholeInv, Trusted
  <2>2. record'.parts \in {{}, downloadedParts'} /\ record'.parts \subseteq downloadedParts'
    BY <1>3, <1>7
  <2>3. ~HasCheckpoint => \A h \in Hashes : records'[h].parts = {}
    BY <1>5 DEF WholeInv, Trusted
  <2> QED BY <1>1, <2>1, <2>2, <2>3 DEF Trusted, Safe
<1>10. AtWork'
  <2>1. \A x \in Workers \ {w} : workerPc'[x] = workerPc[x]
    BY PcsTyped DEF Goto
  <2> QED BY <1>2, <2>1 DEF WholeInv, AtWork
<1>11. Published' /\ OkMeansWhole'
  BY <1>1 DEF WholeInv, Published, OkMeansWhole
<1> QED BY <1>1, <1>8, <1>9, <1>10, <1>11 DEF WholeInv

LEMMA WorkerWhole == ASSUME WholeInv, ChecksOn, NEW w \in Workers, Worker(w) PROVE WholeInv'
BY PopWhole, CheckWhole, ReadUrlWhole, GetSucceedsWhole, GetFailsWhole, GetDeniedWhole,
   RefreshBeginWhole, RefreshFailsWhole, RefreshSucceedsWhole, AssignUrlWhole,
   PublishWhole, SaveWhole, Zenon
DEF Worker

-----------------------------------------------------------------------------
(* The calling thread, after the threads are joined, and the environment. *)

(* A call ends, with success only when the file is in place. *)
LEMMA CallEnds ==
    ASSUME WholeInv, Inv', NEW code, Return(code), UNCHANGED dest,
           code = "ok" => dest = Content(target),
           EmptiesRecord, Safe(record.parts, tempFile, target)'
    PROVE  WholeInv'
<1> USE DEF Return, Forget
<1>1. Ordered' /\ (~HasCheckpoint => \A h \in Hashes : records'[h].parts = {})
  BY EmptiesKeepsOrder
<1>2. Trusted'
  BY <1>1 DEF Trusted, Saving
<1>3. AtWork' /\ Published' /\ OkMeansWhole'
  BY DEF AtWork, Published, OkMeansWhole
<1> QED BY <1>1, <1>2, <1>3 DEF WholeInv

(* It goes on. *)
LEMMA MovesOn ==
    ASSUME WholeInv, Inv', mainPc \notin {"idle", "load"}, mainPc' \notin {"idle", "load", "cancel"},
           UNCHANGED <<outside, disk, call, result, threads>>, Published'
    PROVE  WholeInv'
<1> USE DEF outside, disk, call, threads
<1>1. Ordered' /\ AtWork'
  BY DEF WholeInv, Ordered, AtWork
<1>2. \A w \in Workers : Saving(w)' = Saving(w)
  BY DEF Saving
<1>3. Trusted'
  BY <1>2 DEF WholeInv, Trusted, record
<1>4. OkMeansWhole'
  BY DEF WholeInv, OkMeansWhole
<1> QED BY <1>1, <1>3, <1>4 DEF WholeInv

LEMMA RecordStays ==
    ASSUME WholeInv, UNCHANGED <<records, target>>
    PROVE  EmptiesRecord /\ record' = record
BY DEF EmptiesRecord, record

LEMMA CheckEnableWhole == ASSUME WholeInv, CheckEnable PROVE WholeInv'
<1> USE DEF CheckEnable, disk
<1>1. Inv'
  BY CheckEnableKeeps DEF WholeInv
<1>2. CASE enable
  <2>1. Published'
    BY <1>2 DEF WholeInv, Published, call
  <2> QED BY <1>1, <1>2, <2>1, MovesOn
<1>3. CASE Return("disabled")
  <2>1. UNCHANGED <<records, target>>
    BY <1>3 DEF Return, Forget
  <2>2. Safe(record.parts, tempFile, target)'
    BY <1>3, <2>1, RecordStays, SafeRecord DEF Return, Forget
  <2> QED BY <1>1, <1>3, <2>1, <2>2, RecordStays, CallEnds
<1> QED BY <1>2, <1>3

LEMMA CheckControlWhole == ASSUME WholeInv, ChecksOn, CheckControl PROVE WholeInv'
<1> USE DEF CheckControl
<1>1. Inv'
  BY CheckControlKeeps DEF WholeInv
<1>2. CASE mainPc' = "verify" /\ UNCHANGED <<outside, call, result, threads, records>>
  <2>1. Published'
    BY <1>2 DEF WholeInv, Published, call
  <2> QED BY <1>1, <1>2, <2>1, MovesOn DEF disk
<1>3. CASE Return("stopped") /\ UNCHANGED records
  <2>1. UNCHANGED <<records, target>>
    BY <1>3 DEF Return, Forget
  <2>2. Safe(record.parts, tempFile, target)'
    BY <1>3, <2>1, RecordStays, SafeRecord DEF Return, Forget
  <2> QED BY <1>1, <1>3, <2>1, <2>2, RecordStays, CallEnds
<1>4. CASE DropRecord /\ mainPc' = "cancel" /\ UNCHANGED <<outside, call, result, threads>>
  <2> USE <1>4 DEF outside, call, threads
  <2>1. EmptiesRecord /\ record'.parts = {}
    BY DropEmpties
  <2>2. Ordered' /\ (~HasCheckpoint => \A h \in Hashes : records'[h].parts = {})
    BY <2>1, EmptiesKeepsOrder
  <2>3. \A w \in Workers : ~Saving(w)'
    BY Resting DEF Saving
  <2>4. Trusted'
    BY <2>1, <2>2, <2>3 DEF WholeInv, Trusted
  <2>5. AtWork' /\ Published' /\ OkMeansWhole'
    BY DEF WholeInv, AtWork, Published, OkMeansWhole
  <2> QED BY <1>1, <2>2, <2>4, <2>5 DEF WholeInv
<1> QED BY <1>2, <1>3, <1>4

LEMMA RemoveTempFileWhole == ASSUME WholeInv, ChecksOn, RemoveTempFile PROVE WholeInv'
<1> USE DEF RemoveTempFile
<1>1. Inv'
  BY RemoveTempFileKeeps DEF WholeInv
<1>2. UNCHANGED <<records, target>> /\ Return("canceled")
  BY DEF Return, Forget
<1>3. record'.parts = {}
  BY <1>2, RecordStays DEF WholeInv, Trusted
<1>4. Safe(record.parts, tempFile, target)'
  BY <1>3 DEF Safe, InFile
<1> QED BY <1>1, <1>2, <1>4, RecordStays, CallEnds

LEMMA VerdictFacts ==
    ASSUME WholeInv, ChecksOn
    PROVE  /\ Verdict # "ok"
           /\ Verdict = "none" => CrcMatches /\ SizeMatches
BY NoSuchEvent DEF Verdict, WholeInv, Inv, TypeOK, CallOK, Failures

LEMMA RejectWhole == ASSUME WholeInv, ChecksOn, Reject PROVE WholeInv'
<1> USE DEF Reject
<1>1. Inv'
  BY RejectKeeps DEF WholeInv
<1>2. target' = target /\ Return(Verdict) /\ Verdict # "ok"
  BY VerdictFacts DEF Return, Forget
<1>3. CASE UNCHANGED records
  <2>1. Safe(record.parts, tempFile, target)'
    BY <1>2, <1>3, RecordStays, SafeRecord
  <2> QED BY <1>1, <1>2, <1>3, <2>1, RecordStays, CallEnds
<1>4. CASE DropRecord
  <2>1. EmptiesRecord /\ record'.parts = {}
    BY <1>2, <1>4, DropEmpties
  <2>2. Safe(record.parts, tempFile, target)'
    BY <2>1 DEF Safe, InFile
  <2> QED BY <1>1, <1>2, <2>1, <2>2, CallEnds
<1> QED BY <1>3, <1>4

LEMMA ReadFirstOfNoneWhole == ASSUME WholeInv, ReadFirstOfNone PROVE WholeInv'
<1> USE DEF ReadFirstOfNone, disk
<1>1. Inv'
  BY ReadFirstOfNoneKeeps DEF WholeInv
<1>2. UNCHANGED <<records, target>>
  BY DEF Return, Forget
<1>3. Safe(record.parts, tempFile, target)'
  BY <1>2, RecordStays, SafeRecord
<1> QED BY <1>1, <1>2, <1>3, RecordStays, CallEnds

(* What the checks at the end let through is the file: the CRC says which parts the list has, the size that the file was   *)
(* not taken away from under it.                                                                                           *)
LEMMA ChecksFindWhole ==
    ASSUME WholeInv, mainPc = "verify", HasCrc, CrcMatches, SizeMatches
    PROVE  downloadedParts = AllParts(target) /\ tempFile = Content(target)
<1>1. downloadedParts = AllParts(target)
  BY DEF CrcMatches, AllParts
<1>2. ~Spent(downloadedParts, tempFile, target)
  BY Basics DEF SizeMatches, Spent, EmptyFile, WholeInv
<1>3. InFile(downloadedParts, tempFile, target)
  BY <1>2 DEF WholeInv, Trusted, Safe
<1>4. \A p \in 1 .. PartCount[target] : tempFile[p] = target
  <2> SUFFICES ASSUME NEW p \in 1 .. PartCount[target] PROVE tempFile[p] = target
    OBVIOUS
  <2>1. Entry(p, target) \in downloadedParts
    BY <1>1 DEF AllParts
  <2>2. Entry(p, target).crc = target /\ Entry(p, target).partNumber = p
    BY DEF Entry
  <2>3. target >= target
    BY Basics DEF WholeInv
  <2> QED BY <1>3, <2>1, <2>2, <2>3 DEF InFile
<1>5. \A p \in Parts : tempFile[p] = IF p <= PartCount[target] THEN target ELSE Hole
  BY <1>4, Basics DEF SizeMatches, Parts, WholeInv
<1>6. tempFile = Content(target)
  BY <1>5 DEF Content, WholeInv, Inv, TypeOK, DiskOK
<1> QED BY <1>1, <1>6

LEMMA AcceptWhole == ASSUME WholeInv, ChecksOn, Accept PROVE WholeInv'
<1> USE DEF Accept
<1>1. Inv'
  BY AcceptKeeps DEF WholeInv
<1>2. downloadedParts = AllParts(target) /\ tempFile = Content(target)
  BY VerdictFacts, NoSuchEvent, ChecksFindWhole
<1>3. Published'
  BY <1>2 DEF WholeInv, Published, call, disk
<1> QED BY <1>1, <1>3, MovesOn

LEMMA RenameWhole == ASSUME WholeInv, ChecksOn, Rename PROVE WholeInv'
<1> USE DEF Rename
<1>1. Inv'
  BY RenameKeeps DEF WholeInv
<1>2. CASE Return("RenameError") /\ UNCHANGED <<tempFile, dest>>
  <2>1. UNCHANGED <<records, target>>
    BY <1>2 DEF Return, Forget
  <2>2. Safe(record.parts, tempFile, target)'
    BY <1>2, <2>1, RecordStays, SafeRecord DEF Return, Forget
  <2> QED BY <1>1, <1>2, <2>1, <2>2, RecordStays, CallEnds
<1>3. CASE /\ dest' = tempFile /\ tempFile' = EmptyFile /\ mainPc' = "finish"
           /\ UNCHANGED <<outside, call, result, threads>>
  <2> USE <1>3 DEF outside, call, threads
  <2>1. Ordered' /\ AtWork'
    BY Resting DEF WholeInv, Ordered, AtWork
  <2>2. downloadedParts = AllParts(target) /\ tempFile = Content(target)
    BY DEF WholeInv, Published
  <2>3. Spent(downloadedParts, EmptyFile, target)
    <3>1. \A p \in 1 .. PartCount[target] :
              /\ Entry(p, target) \in downloadedParts
              /\ Entry(p, target).partNumber = p
      BY <2>2 DEF AllParts, Entry
    <3>2. \A e \in downloadedParts : e.crc <= target
      BY <2>2, NoSuchEvent, Basics DEF AllParts, Entry, WholeInv
    <3> QED BY <3>1, <3>2 DEF Spent, Numbers
  <2>4. \A w \in Workers : ~Saving(w) /\ ~Saving(w)'
    BY Resting DEF Saving
  <2>5. Trusted'
    BY <2>3, <2>4 DEF WholeInv, Trusted, Safe, record
  <2>6. Published' /\ OkMeansWhole'
    BY <2>2 DEF WholeInv, Published, OkMeansWhole
  <2> QED BY <1>1, <2>1, <2>5, <2>6 DEF WholeInv
<1> QED BY <1>2, <1>3

LEMMA RemoveRecordFileWhole == ASSUME WholeInv, ChecksOn, RemoveRecordFile PROVE WholeInv'
<1> USE DEF RemoveRecordFile
<1>1. Inv'
  BY RemoveRecordFileKeeps DEF WholeInv
<1>2. EmptiesRecord /\ record'.parts = {}
  BY DropEmpties DEF Return, Forget
<1>3. Safe(record.parts, tempFile, target)'
  BY <1>2 DEF Safe, InFile
<1>4. dest = Content(target)
  BY DEF WholeInv, Published
<1> QED BY <1>1, <1>2, <1>3, <1>4, CallEnds

LEMMA AskWhole == ASSUME WholeInv, AskToQuit \/ Withdraw PROVE WholeInv'
<1> USE DEF disk, call, threads
<1>1. Inv'
  BY AskKeeps DEF WholeInv
<1>2. UNCHANGED <<source, records, tempFile, dest, mainPc, target, url, downloadedParts, partsToDownload,
                  result, workerPc, part, fetchUrl, got>>
  BY DEF AskToQuit, Withdraw
<1>3. Ordered' /\ AtWork' /\ Published' /\ OkMeansWhole'
  BY <1>2 DEF WholeInv, Ordered, AtWork, Published, OkMeansWhole
<1>4. Trusted'
  BY <1>2 DEF WholeInv, Trusted, record, Saving
<1> QED BY <1>1, <1>3, <1>4 DEF WholeInv

LEMMA ChangeSourceWhole == ASSUME WholeInv, ChecksOn, ChangeSource PROVE WholeInv'
<1> USE DEF disk, call, threads, ChangeSource
<1>1. Inv'
  BY ChangeSourceKeeps DEF WholeInv
<1>2. source' = source + 1
  BY NoSuchEvent
<1>3. Ordered'
  <2>1. \A n \in Nat : n <= source => n <= source'
    BY <1>2, Basics DEF WholeInv
  <2> QED BY <2>1, Basics DEF WholeInv, Ordered
<1>4. AtWork' /\ Published' /\ OkMeansWhole'
  BY DEF WholeInv, AtWork, Published, OkMeansWhole
<1>5. Trusted'
  BY DEF WholeInv, Trusted, record, Saving
<1> QED BY <1>1, <1>3, <1>4, <1>5 DEF WholeInv

LEMMA CrashWhole == ASSUME WholeInv, Crash PROVE WholeInv'
<1>1. Inv'
  BY CrashKeeps DEF WholeInv
<1>2. Return("none") /\ UNCHANGED <<records, dest, target>>
  BY DEF Crash, Return, Forget
<1>3. PICK S \in SUBSET {w \in Workers : Getting(w) /\ CanServe(w)} :
          tempFile' = [p \in Parts |-> IF \E w \in S : part[w] = p
                                       THEN Partly(tempFile[p], Served(CHOOSE w \in S : part[w] = p))
                                       ELSE tempFile[p]]
  BY DEF Crash
<1>4. Written
  BY <1>3 DEF Written
<1>5. Safe(record.parts, tempFile', target)
  <2>1. CASE tempFile' = tempFile
    BY <2>1, SafeRecord
  <2>2. CASE tempFile' # tempFile
    <3>1. PICK w \in S : TRUE
      <4>1. tempFile \in [Parts -> Holdings]
        BY DEF WholeInv, Inv, TypeOK, DiskOK
      <4>2. S = {} => tempFile' = [p \in Parts |-> tempFile[p]]
        BY <1>3
      <4> QED BY <2>2, <4>1, <4>2
    <3>2. part[w] # NoPart
      BY <3>1 DEF WholeInv, Inv, Holding, Working, Getting
    <3>3. InFile(downloadedParts, tempFile, target) /\ mainPc = "join"
      BY <3>1, <3>2, NotSpent
    <3>4. record.parts \subseteq downloadedParts
      BY <3>3 DEF WholeInv, Trusted
    <3>5. InFile(record.parts, tempFile, target)
      BY <3>3, <3>4 DEF InFile
    <3> QED BY <1>4, <3>4, <3>5, WrittenKeepsFile DEF Safe
  <2> QED BY <2>1, <2>2
<1>6. Safe(record.parts, tempFile, target)'
  BY <1>2, <1>5, RecordStays
<1> QED BY <1>1, <1>2, <1>6, RecordStays, CallEnds

-----------------------------------------------------------------------------
LEMMA InitWhole == ASSUME Init PROVE WholeInv
<1> USE DEF Init
<1>1. Inv
  BY InitInv
<1>2. \A h \in Hashes : records[h].parts = {}
  BY DEF NoRecord
<1>3. record.parts = {}
  BY <1>1, <1>2, Basics DEF record
<1>4. Ordered
  BY <1>2 DEF Ordered, NoUrl, NoData
<1>5. Trusted
  BY <1>2, <1>3 DEF Trusted, Saving, Safe, InFile
<1>6. AtWork /\ Published /\ OkMeansWhole
  BY DEF AtWork, Published, OkMeansWhole
<1> QED BY <1>1, <1>4, <1>5, <1>6 DEF WholeInv

LEMMA NextWhole == ASSUME WholeInv, ChecksOn, [Next]_vars PROVE WholeInv'
<1>1. CASE Start
  BY <1>1, StartWhole
<1>2. CASE Main
  BY <1>2, LoadRecordWhole, PrepareWhole, PlanWhole, CheckEnableWhole, CheckControlWhole,
     RemoveTempFileWhole, RejectWhole, ReadFirstOfNoneWhole, AcceptWhole, RenameWhole,
     RemoveRecordFileWhole, Zenon
  DEF Main
<1>3. CASE \E w \in Workers : Worker(w)
  BY <1>3, WorkerWhole
<1>4. CASE Environment
  BY <1>4, AskWhole, ChangeSourceWhole, CrashWhole, Zenon DEF Environment
<1>5. CASE UNCHANGED vars
  <2> USE <1>5 DEF vars, outside, disk, call, threads
  <2>1. Inv'
    BY NextInv DEF WholeInv
  <2>2. Ordered' /\ AtWork' /\ Published' /\ OkMeansWhole'
    BY DEF WholeInv, Ordered, AtWork, Published, OkMeansWhole
  <2>3. Trusted'
    BY DEF WholeInv, Trusted, record, Saving
  <2> QED BY <2>1, <2>2, <2>3 DEF WholeInv
<1> QED BY <1>1, <1>2, <1>3, <1>4, <1>5, Zenon DEF Next

LEMMA WholeInvariance == ASSUME ChecksOn PROVE Spec => []WholeInv
<1>1. Init => WholeInv
  BY InitWhole
<1>2. WholeInv /\ [Next]_vars => WholeInv'
  BY NextWhole
<1> QED BY <1>1, <1>2, PTL DEF Spec

\* Whenever Download returns success the destination holds exactly the bytes of the version the call was made for, whatever
\* was interrupted, resumed, modified on the server or crashed in this call and those before: a part on the list is in the
\* temporary file or is too old for the CRC check, and a list that outlived its file fails the size check.
THEOREM DownloadOkMeansWhole == ASSUME ChecksOn PROVE Spec => []OkMeansWhole
<1>1. WholeInv => OkMeansWhole
  BY DEF WholeInv
<1> QED BY <1>1, WholeInvariance, PTL

-----------------------------------------------------------------------------
(* The refinement. *)

(* What its caller sees: where the call stands, and its result. *)
Phase == IF mainPc = "finish" THEN "published"
         ELSE IF ~Idle THEN "running"
         ELSE IF result = "ok" THEN "succeeded"
         ELSE IF result = "none" THEN "idle" ELSE "failed"

(* A step the caller sees nothing of. *)
Unseen == UNCHANGED <<dest, Phase>>

LEMMA EndIsSeen ==
    ASSUME ~Idle, mainPc # "finish", NEW code, code # "ok", Return(code), UNCHANGED dest
    PROVE  Atomic!Next
<1> USE DEF Return, Forget, Idle
<1>1. CASE code = "none"
  BY <1>1 DEF Atomic!Next, Atomic!Die
<1>2. CASE code # "none"
  BY <1>2 DEF Atomic!Next, Atomic!Fail
<1> QED BY <1>1, <1>2

LEMMA WorkerIsUnseen == ASSUME WholeInv, NEW w \in Workers, Worker(w) PROVE Unseen
<1>1. mainPc = "join"
  BY AtJoin DEF Worker, Pop, Check, ReadUrl, GetSucceeds, GetFails, GetDenied, Getting, RefreshBegin,
     RefreshFails, RefreshSucceeds, AssignUrl, Publish, SaveOpen, SaveWrite
<1>2. UNCHANGED <<dest, mainPc>>
  BY DEF Worker, Pop, Check, ReadUrl, GetSucceeds, GetFails, GetDenied, RefreshBegin, RefreshFails,
     RefreshSucceeds, AssignUrl, Publish, SaveOpen, SaveWrite, disk
<1> QED BY <1>1, <1>2 DEF Unseen, Phase, Idle

LEMMA MainRefines == ASSUME WholeInv, ChecksOn, Main PROVE Atomic!Next \/ Unseen
<1> USE DEF Idle
<1>1. CASE LoadRecord \/ PrepareOpen \/ PrepareWrite \/ Plan
  BY <1>1 DEF LoadRecord, PrepareOpen, PrepareWrite, Plan, disk, Unseen, Phase
<1>2. CASE CheckEnable
  BY <1>2, EndIsSeen DEF CheckEnable, disk, Unseen, Phase
<1>3. CASE CheckControl
  BY <1>3, EndIsSeen DEF CheckControl, Unseen, Phase
<1>4. CASE RemoveTempFile
  BY <1>4, EndIsSeen DEF RemoveTempFile
<1>5. CASE Reject
  BY <1>5, EndIsSeen, VerdictFacts DEF Reject
<1>6. CASE ReadFirstOfNone
  BY <1>6, EndIsSeen DEF ReadFirstOfNone, disk
<1>7. CASE Accept
  BY <1>7 DEF Accept, disk, Unseen, Phase
<1>8. CASE Rename
  <2>1. tempFile \in Contents
    BY <1>8, Basics DEF Rename, WholeInv, Published, Contents
  <2>2. CASE mainPc' = "finish" /\ dest' = tempFile
    BY <1>8, <2>1, <2>2 DEF Rename, Atomic!Next, Atomic!Publish
  <2>3. CASE Return("RenameError") /\ UNCHANGED dest
    BY <1>8, <2>3, EndIsSeen DEF Rename
  <2> QED BY <1>8, <2>2, <2>3 DEF Rename
<1>9. CASE RemoveRecordFile
  BY <1>9 DEF RemoveRecordFile, Return, Forget, Atomic!Next, Atomic!Succeed
<1> QED BY <1>1, <1>2, <1>3, <1>4, <1>5, <1>6, <1>7, <1>8, <1>9, Zenon DEF Main

LEMMA EnvironmentRefines == ASSUME Environment PROVE Atomic!Next \/ Unseen
<1> USE DEF Idle
<1>1. CASE AskToQuit \/ Withdraw \/ ChangeSource
  BY <1>1 DEF AskToQuit, Withdraw, ChangeSource, disk, Unseen, Phase
<1>2. CASE Crash
  BY <1>2 DEF Crash, Return, Forget, Atomic!Next, Atomic!Die
<1> QED BY <1>1, <1>2 DEF Environment

LEMMA StepRefines ==
    ASSUME WholeInv, ChecksOn, [Next]_vars
    PROVE  [Atomic!Next]_<<dest, Phase>>
<1>1. CASE Start
  BY <1>1 DEF Start, Idle, disk, Atomic!Next, Atomic!Begin
<1>2. CASE Main
  BY <1>2, MainRefines DEF Unseen
<1>3. CASE \E w \in Workers : Worker(w)
  BY <1>3, WorkerIsUnseen DEF Unseen
<1>4. CASE Environment
  BY <1>4, EnvironmentRefines DEF Unseen
<1>5. CASE UNCHANGED vars
  BY <1>5 DEF vars, disk, Phase, Idle
<1> QED BY <1>1, <1>2, <1>3, <1>4, <1>5, Zenon DEF Next

\* The downloader implements AtomicPublish: the destination is replaced in one step and by a whole version, a call reports
\* success after that step only, and after a failure the destination is what it was.
THEOREM DownloadIsAtomic == ASSUME ChecksOn PROVE Spec => ImplementsAtomicPublish
<1>1. Init => Atomic!Init
  BY DEF Init, Idle, Atomic!Init
<1>2. WholeInv /\ [Next]_vars => [Atomic!Next]_<<dest, Phase>>
  BY StepRefines
<1> QED BY <1>1, <1>2, WholeInvariance, PTL DEF Spec, ImplementsAtomicPublish, Atomic!Spec, Phase

-----------------------------------------------------------------------------
(***************************************************************************)
(* The same with or without a CRC: a download keeps its record behind the  *)
(* temporary file (RecordBehindFile) and publishes whole versions only,    *)
(* when a url keeps serving the version it was issued for and the content  *)
(* hashes tell the versions apart.  The events left out are those of the   *)
(* run download_no_crc.                                                    *)
(***************************************************************************)
Pinned ==
    /\ UrlPinsVersion /\ CheckSize
    /\ \A v, w \in Versions : ContentHash[v] = ContentHash[w] => v = w
    /\ Events \cap {"open", "remove", "flush", "revert", "withdraw"} = {}

(* The parts of a list are in the file with the bytes of v, or the file has become the destination d and the list, which *)
(* was left behind, has every part.                                                                                       *)
Held(list, f, v) == \A e \in list : f[e.partNumber] = v
Left(list, f, v, d) == f = EmptyFile /\ d = Content(v) /\ 1 .. PartCount[v] \subseteq Numbers(list)
Sound(list, f, v, d) == Held(list, f, v) \/ Left(list, f, v, d)

Kept ==
    /\ mainPc \in {"idle", "load"} => Sound(record.parts, tempFile, target, dest)
    /\ mainPc \notin {"idle", "load"} =>
          /\ Sound(downloadedParts, tempFile, target, dest)
          /\ record.parts \in {{}, downloadedParts} \/ \E w \in Workers : Saving(w)
    /\ (\E w \in Workers : Saving(w)) =>
          Held(downloadedParts, tempFile, target) /\ record.parts \subseteq downloadedParts
    /\ mainPc = "cancel" => record.parts = {}
    /\ ~HasCheckpoint => \A h \in Hashes : records[h].parts = {}

(* The source only goes forward, so no record lists parts of a version that no call has asked for. *)
Forward ==
    /\ target <= source
    /\ \A v \in Versions : v > target => records[ContentHash[v]].parts = {}

(* Whatever a thread fetches is of the version asked for. *)
WithUrl == {"beginAgain", "get", "getAgain", "refresh", "refreshing", "assign", "publish"}
Fetched ==
    /\ mainPc # "idle" => url = target
    /\ \A w \in Workers :
          /\ part[w] # NoPart => part[w] \in 1 .. PartCount[target]
          /\ fetchUrl[w] # NoUrl => fetchUrl[w] = target /\ workerPc[w] \in WithUrl
          /\ workerPc[w] = "assign" => fetchUrl[w] = target
          /\ got[w] # NoData => got[w] = target /\ workerPc[w] = "publish" /\ tempFile[part[w]] = target
    /\ partsToDownload \subseteq 1 .. PartCount[target]

(* The parts that no list has are in the queue or with a thread until all threads are done; then there are none, or the *)
(* call fails.                                                                                                            *)
Missing == (1 .. PartCount[target]) \ Numbers(downloadedParts)
Queued ==
    /\ outcomes.failure = "none" =>
          /\ mainPc = "join" /\ ~Quitting =>
                /\ Missing \subseteq partsToDownload \cup {part[w] : w \in Workers}
                /\ (\E w \in Workers : workerPc[w] = "done") => partsToDownload = {}
          /\ mainPc = "control" /\ control = "none" => Missing = {}
          /\ mainPc = "verify" => Missing = {}
    /\ mainPc \in {"rename", "finish"} => Missing = {}

Delivered ==
    /\ mainPc = "rename" => tempFile = Content(target)
    /\ mainPc = "finish" => dest = Content(target)
    /\ mainPc # "idle" => result = "none"

PinnedInv == Inv /\ Kept /\ Forward /\ Fetched /\ Queued /\ Delivered /\ OkMeansWhole

-----------------------------------------------------------------------------
(* Facts about one state. *)

LEMMA NoPinnedEvent ==
    ASSUME Pinned
    PROVE  /\ ~Event("open") /\ ~Event("remove") /\ ~Event("flush") /\ ~Event("revert") /\ ~Event("withdraw")
           /\ CheckSize /\ UrlPinsVersion
BY DEF Pinned, Event

LEMMA Typed ==
    ASSUME Inv
    PROVE  /\ workerPc \in [Workers -> WorkerPcs]
           /\ part \in [Workers -> Nat] /\ fetchUrl \in [Workers -> Nat] /\ got \in [Workers -> Nat]
           /\ tempFile \in [Parts -> Holdings]
           /\ records \in [Hashes -> RecordFiles]
BY VersionsAssumption DEF Inv, TypeOK, ThreadsOK, DiskOK

(* Nothing is at work while the calling thread does not wait. *)
LEMMA ThreadsRest ==
    ASSUME PinnedInv, mainPc # "join"
    PROVE  \A w \in Workers : /\ workerPc[w] = "done" /\ part[w] = NoPart /\ got[w] = NoData
                              /\ fetchUrl[w] = NoUrl /\ ~Saving(w)
BY DEF PinnedInv, Fetched, Inv, Phases, Holding, Working, Saving, WithUrl

LEMMA SoundRecord == ASSUME PinnedInv PROVE Sound(record.parts, tempFile, target, dest)
<1>1. Held({}, tempFile, target)
  BY DEF Held
<1>2. \A s, t : s \subseteq t /\ Held(t, tempFile, target) => Held(s, tempFile, target)
  BY DEF Held
<1> QED BY <1>1, <1>2 DEF PinnedInv, Kept, Sound

LEMMA NothingIsSound ==
    ASSUME NEW list, list = {}, NEW f, NEW v, NEW d
    PROVE  Sound(list, f, v, d)
BY DEF Sound, Held

(* A call with a part to fetch did not begin with a list that was left behind. *)
LEMMA NotLeft ==
    ASSUME PinnedInv, NEW w \in Workers, part[w] # NoPart
    PROVE  Held(downloadedParts, tempFile, target) /\ mainPc = "join"
<1>1. mainPc = "join"
  BY ThreadsRest
<1>2. part[w] \in 1 .. PartCount[target] /\ part[w] \notin Numbers(downloadedParts)
  BY DEF PinnedInv, Fetched, Inv, PartsAccounted
<1> QED BY <1>1, <1>2 DEF PinnedInv, Kept, Sound, Left

LEMMA WrittenKeepsHeld ==
    ASSUME Inv, Written, NEW list \in SUBSET downloadedParts, Held(list, tempFile, target)
    PROVE  Held(list, tempFile', target)
BY Basics DEF Inv, PartsAccounted, Numbers, Written, Held

-----------------------------------------------------------------------------
(* The calling thread, before it starts the threads. *)

LEMMA StartPinned == ASSUME PinnedInv, Pinned, Start PROVE PinnedInv'
<1> USE DEF Start, disk, threads, outside, Idle
<1>1. Inv'
  BY StartKeeps DEF PinnedInv
<1>2. /\ target \in Versions /\ source \in Versions /\ target \in Nat /\ source \in Nat
      /\ target <= source /\ target' = source
  BY Basics DEF PinnedInv, Forward
<1>3. Forward'
  <2>1. \A v \in Versions : v > source => v > target
    BY <1>2, PartsAreNumbers, VersionsAssumption DEF Versions
  <2> QED BY <1>2, <2>1 DEF PinnedInv, Forward
<1>4. Sound(record.parts, tempFile, target, dest)'
  <2>1. CASE target' = target
    BY <2>1, SoundRecord DEF record
  <2>2. CASE target' > target
    <3>1. record'.parts = {}
      BY <1>2, <2>2 DEF PinnedInv, Forward, record
    <3> QED BY <3>1, NothingIsSound
  <2> QED BY <1>2, <2>1, <2>2
<1>5. Kept'
  <2>1. ~HasCheckpoint => \A h \in Hashes : records'[h].parts = {}
    BY DEF PinnedInv, Kept
  <2>2. \A w \in Workers : ~Saving(w)'
    BY ThreadsRest DEF Saving
  <2> QED BY <1>4, <2>1, <2>2 DEF Kept
<1>6. Fetched'
  <2>1. partsToDownload' = {}
    BY DEF PinnedInv, Inv, Phases
  <2> QED BY <2>1, ThreadsRest DEF Fetched
<1>7. Queued' /\ Delivered' /\ OkMeansWhole'
  BY DEF Queued, Delivered, OkMeansWhole
<1> QED BY <1>1, <1>3, <1>5, <1>6, <1>7 DEF PinnedInv

LEMMA EmptyingRecord ==
    ASSUME PinnedInv, NEW r, r.parts = {}, WriteRecord(r)
    PROVE  EmptiesRecord /\ (target' = target => record'.parts = {})
<1>1. EmptiesRecord
  <2>1. CASE HasCheckpoint
    <3>1. records' = [records EXCEPT ![ContentHash[target]] = r]
      BY <2>1 DEF WriteRecord
    <3>2. \A h \in Hashes : records'[h] = IF h = ContentHash[target] THEN r ELSE records[h]
      BY <3>1, Typed DEF PinnedInv
    <3> QED BY <3>2 DEF EmptiesRecord
  <2>2. CASE ~HasCheckpoint
    BY <2>2 DEF WriteRecord, EmptiesRecord
  <2> QED BY <2>1, <2>2
<1>2. HasCheckpoint => records'[ContentHash[target]] = r
  BY Basics, Typed DEF WriteRecord, PinnedInv
<1>3. ~HasCheckpoint => records'[ContentHash[target]].parts = {}
  BY Basics DEF WriteRecord, PinnedInv, Kept
<1> QED BY <1>1, <1>2, <1>3 DEF record

LEMMA DroppingRecord ==
    ASSUME PinnedInv, Pinned, DropRecord
    PROVE  EmptiesRecord /\ (target' = target => record'.parts = {})
BY NoPinnedEvent, EmptyingRecord DEF DropRecord, NoRecord

LEMMA EmptiesKeepsForward ==
    ASSUME PinnedInv, EmptiesRecord, UNCHANGED <<source, target>>
    PROVE  Forward' /\ (~HasCheckpoint => \A h \in Hashes : records'[h].parts = {})
BY Basics DEF PinnedInv, Forward, Kept, EmptiesRecord

LEMMA LoadRecordPinned == ASSUME PinnedInv, Pinned, LoadRecord PROVE PinnedInv'
<1> USE DEF LoadRecord, threads, outside
<1>1. Inv'
  BY LoadRecordKeeps DEF PinnedInv
<1>2. \/ EmptiesRecord /\ record'.parts = {}
      \/ UNCHANGED records
  BY DroppingRecord
<1>3. EmptiesRecord
  <2>1. CASE UNCHANGED records
    BY <2>1 DEF EmptiesRecord
  <2> QED BY <1>2, <2>1
<1>4. ~HasCheckpoint => record.parts = {}
  BY Basics DEF PinnedInv, Kept, record
<1>5. downloadedParts' = record.parts
  BY <1>4
<1>6. Forward' /\ (~HasCheckpoint => \A h \in Hashes : records'[h].parts = {})
  BY <1>3, EmptiesKeepsForward
<1>7. Sound(downloadedParts, tempFile, target, dest)'
  BY <1>5, SoundRecord
<1>8. record'.parts \in {{}, downloadedParts'}
  BY <1>2, <1>5 DEF record
<1>9. \A w \in Workers : ~Saving(w)'
  BY ThreadsRest DEF Saving
<1>10. Kept'
  BY <1>6, <1>7, <1>8, <1>9 DEF Kept
<1>11. Fetched' /\ Queued' /\ Delivered' /\ OkMeansWhole'
  BY DEF PinnedInv, Fetched, Queued, Delivered, OkMeansWhole
<1> QED BY <1>1, <1>6, <1>10, <1>11 DEF PinnedInv

LEMMA PreparePinned == ASSUME PinnedInv, Pinned, PrepareOpen \/ PrepareWrite PROVE PinnedInv'
<1> USE DEF PrepareOpen, PrepareWrite, threads, outside, call
<1>1. Inv'
  BY PrepareKeeps DEF PinnedInv
<1>2. EmptiesRecord /\ record'.parts = {}
  <2>1. Saved(target, {}).parts = {} /\ Damaged.parts = {}
    BY DEF Saved, Damaged, NoRecord
  <2> QED BY <2>1, NoPinnedEvent, EmptyingRecord
<1>3. Forward' /\ (~HasCheckpoint => \A h \in Hashes : records'[h].parts = {})
  BY <1>2, EmptiesKeepsForward
<1>4. \A w \in Workers : ~Saving(w)'
  BY ThreadsRest DEF Saving
<1>5. Kept'
  BY <1>2, <1>3, <1>4 DEF PinnedInv, Kept
<1>6. Fetched' /\ Queued' /\ Delivered' /\ OkMeansWhole'
  BY DEF PinnedInv, Fetched, Queued, Delivered, OkMeansWhole
<1> QED BY <1>1, <1>3, <1>5, <1>6 DEF PinnedInv

LEMMA PlanPinned == ASSUME PinnedInv, Pinned, Plan PROVE PinnedInv'
<1> USE DEF Plan, disk, outside
<1>1. Inv'
  BY PlanKeeps DEF PinnedInv
<1>2. Forward'
  BY DEF PinnedInv, Forward
<1>3. \A w \in Workers : ~Saving(w) /\ ~Saving(w)'
  BY ThreadsRest DEF Saving
<1>4. Kept'
  BY <1>3 DEF PinnedInv, Kept, record
<1>5. Fetched'
  BY ThreadsRest DEF PinnedInv, Fetched, ToDownload
<1>6. Queued'
  BY DEF Queued, Missing, ToDownload
<1>7. Delivered' /\ OkMeansWhole'
  BY DEF PinnedInv, Delivered, OkMeansWhole
<1> QED BY <1>1, <1>2, <1>4, <1>5, <1>6, <1>7 DEF PinnedInv

-----------------------------------------------------------------------------
(* The download threads. *)

LEMMA ThreadAtJoin ==
    ASSUME PinnedInv, NEW w \in Workers, workerPc[w] # "done"
    PROVE  mainPc = "join" /\ url = target
BY WorkerFacts DEF PinnedInv, Fetched

(* Steps that touch neither the disk nor the list. *)
LEMMA ThreadRests ==
    ASSUME PinnedInv, Inv', mainPc = "join", Queued',
           UNCHANGED <<source, records, dest, tempFile, mainPc, target, downloadedParts, result>>,
           url' = target,
           \A x \in Workers : fetchUrl'[x] # NoUrl => fetchUrl'[x] = target /\ workerPc'[x] \in WithUrl,
           \A x \in Workers : workerPc'[x] = "assign" => fetchUrl'[x] = target,
           \A x \in Workers : Saving(x)' = Saving(x),
           partsToDownload' \subseteq partsToDownload,
           \A x \in Workers : part'[x] \in {part[x], NoPart} \cup partsToDownload,
           \A x \in Workers : \/ got'[x] = NoData
                              \/ got'[x] = got[x] /\ workerPc'[x] = workerPc[x] /\ part'[x] = part[x]
    PROVE  PinnedInv'
<1>1. Forward'
  BY DEF PinnedInv, Forward
<1>2. Kept'
  BY DEF PinnedInv, Kept, record
<1>3. Fetched'
  BY DEF PinnedInv, Fetched
<1>4. Delivered' /\ OkMeansWhole'
  BY DEF PinnedInv, Delivered, OkMeansWhole
<1> QED BY <1>1, <1>2, <1>3, <1>4 DEF PinnedInv

(* Steps that move no part and end no thread, or fail the call. *)
LEMMA QueueRests ==
    ASSUME PinnedInv, mainPc = "join", UNCHANGED <<mainPc, target, downloadedParts>>,
           \/ outcomes'.failure # "none"
           \/ /\ UNCHANGED <<enable, control, partsToDownload, part>>
              /\ outcomes'.failure = outcomes.failure
              /\ \A x \in Workers : workerPc'[x] = "done" => workerPc[x] = "done"
    PROVE  Queued'
<1>1. Missing' = Missing
  BY DEF Missing
<1>2. CASE outcomes'.failure # "none"
  BY <1>2 DEF Queued
<1>3. CASE /\ UNCHANGED <<enable, control, partsToDownload, part>>
           /\ outcomes'.failure = outcomes.failure
           /\ \A x \in Workers : workerPc'[x] = "done" => workerPc[x] = "done"
  BY <1>1, <1>3 DEF PinnedInv, Queued, Quitting
<1> QED BY <1>2, <1>3

(* Where the threads are after one of them moved from one place to another. *)
LEMMA Moved ==
    ASSUME PinnedInv, NEW w \in Workers, NEW p, Goto(w, p)
    PROVE  /\ workerPc'[w] = p
           /\ \A x \in Workers \ {w} : workerPc'[x] = workerPc[x]
BY Typed DEF PinnedInv, Goto

LEMMA PopPinned == ASSUME PinnedInv, NEW w \in Workers, Pop(w) PROVE PinnedInv'
<1> USE DEF Pop, outside, disk
<1>1. Inv' /\ mainPc = "join" /\ url = target
  BY PopKeeps, ThreadAtJoin DEF PinnedInv
<1>2. \A x \in Workers : Saving(x)' = Saving(x)
  BY Moved DEF Saving
<1>3. got[w] = NoData /\ fetchUrl[w] = NoUrl /\ part[w] = NoPart
  BY DEF PinnedInv, Fetched, WithUrl, Inv, Holding, Working
<1>4. \A x \in Workers \ {w} : workerPc'[x] = workerPc[x] /\ part'[x] = part[x]
  BY Moved, Typed DEF PinnedInv
<1>5. part'[w] \in {part[w]} \cup partsToDownload /\ partsToDownload' \subseteq partsToDownload
  BY Typed DEF PinnedInv
<1>6. Queued'
  <2>1. Missing' = Missing /\ Quitting' = Quitting
    BY DEF Missing, Quitting
  <2>2. NoPart \notin Missing
    BY DEF Missing, NoPart
  <2>3. CASE partsToDownload = {} /\ UNCHANGED <<partsToDownload, part>>
    BY <1>1, <2>1, <2>3 DEF PinnedInv, Queued
  <2>4. ASSUME NEW p \in partsToDownload, partsToDownload' = partsToDownload \ {p},
               part' = [part EXCEPT ![w] = p], Goto(w, "check")
        PROVE  Queued'
    <3>1. part'[w] = p /\ workerPc'[w] = "check"
      BY <2>4, Moved, Typed DEF PinnedInv
    <3>2. \A q \in Missing : q \in {part[x] : x \in Workers} => q \in {part'[x] : x \in Workers}
      BY <1>3, <1>4, <2>2
    <3>3. Missing \subseteq partsToDownload \cup {part[x] : x \in Workers}
             => Missing \subseteq partsToDownload' \cup {part'[x] : x \in Workers}
      BY <2>4, <3>1, <3>2
    <3>4. (\E x \in Workers : workerPc'[x] = "done") => \E x \in Workers : workerPc[x] = "done"
      BY <1>4, <3>1
    <3> QED BY <1>1, <2>1, <2>4, <3>3, <3>4 DEF PinnedInv, Queued
  <2> QED BY <2>3, <2>4
<1>7. \A x \in Workers : /\ fetchUrl'[x] # NoUrl => fetchUrl'[x] = target /\ workerPc'[x] \in WithUrl
                         /\ workerPc'[x] = "assign" => fetchUrl'[x] = target
  <2>1. workerPc'[w] \in {"done", "check"}
    BY Moved
  <2> QED BY <1>3, <1>4, <2>1 DEF PinnedInv, Fetched
<1>8. \A x \in Workers : part'[x] \in {part[x], NoPart} \cup partsToDownload
  BY <1>4, <1>5
<1>9. \A x \in Workers : \/ got'[x] = NoData
                         \/ got'[x] = got[x] /\ workerPc'[x] = workerPc[x] /\ part'[x] = part[x]
  BY <1>3, <1>4
<1> QED BY <1>1, <1>2, <1>5, <1>6, <1>7, <1>8, <1>9, ThreadRests

LEMMA CheckPinned == ASSUME PinnedInv, NEW w \in Workers, Check(w) PROVE PinnedInv'
<1> USE DEF Check, outside, disk, call
<1>1. Inv' /\ mainPc = "join" /\ url = target
  BY CheckKeeps, ThreadAtJoin DEF PinnedInv
<1>2. \A x \in Workers : Saving(x)' = Saving(x)
  BY Moved DEF Saving
<1>3. got[w] = NoData /\ fetchUrl[w] = NoUrl
  BY DEF PinnedInv, Fetched, WithUrl
<1>4. \A x \in Workers \ {w} : workerPc'[x] = workerPc[x] /\ part'[x] = part[x]
  BY Moved, Typed DEF PinnedInv
<1>5. part'[w] \in {part[w], NoPart}
  BY Typed DEF PinnedInv
<1>6. Queued'
  <2>1. CASE Quitting
    <3>1. Quitting'
      BY <2>1 DEF Quitting
    <3> QED BY <1>1, <3>1 DEF PinnedInv, Queued
  <2>2. CASE ~Quitting
    <3>1. UNCHANGED <<enable, control, partsToDownload, part, outcomes>> /\ workerPc'[w] = "begin"
      BY <2>2, Moved
    <3> QED BY <1>1, <1>4, <3>1, QueueRests
  <2> QED BY <2>1, <2>2
<1>7. \A x \in Workers : /\ fetchUrl'[x] # NoUrl => fetchUrl'[x] = target /\ workerPc'[x] \in WithUrl
                         /\ workerPc'[x] = "assign" => fetchUrl'[x] = target
  <2>1. workerPc'[w] \in {"done", "begin"}
    BY Moved
  <2> QED BY <1>3, <1>4, <2>1 DEF PinnedInv, Fetched
<1>8. \A x \in Workers : part'[x] \in {part[x], NoPart} \cup partsToDownload
  BY <1>4, <1>5
<1>9. \A x \in Workers : \/ got'[x] = NoData
                         \/ got'[x] = got[x] /\ workerPc'[x] = workerPc[x] /\ part'[x] = part[x]
  BY <1>3, <1>4
<1> QED BY <1>1, <1>2, <1>6, <1>7, <1>8, <1>9, ThreadRests

LEMMA ReadUrlPinned == ASSUME PinnedInv, NEW w \in Workers, ReadUrl(w) PROVE PinnedInv'
<1> USE DEF ReadUrl, outside, disk, call
<1>1. Inv' /\ mainPc = "join" /\ url = target
  BY ReadUrlKeeps, ThreadAtJoin DEF PinnedInv
<1>2. \A x \in Workers : Saving(x)' = Saving(x)
  BY Moved DEF Saving
<1>3. got[w] = NoData
  BY DEF PinnedInv, Fetched
<1>4. \A x \in Workers \ {w} : workerPc'[x] = workerPc[x] /\ fetchUrl'[x] = fetchUrl[x]
  BY Moved, Typed DEF PinnedInv
<1>5. workerPc'[w] \in {"get", "getAgain"}
  BY Moved
<1>6. fetchUrl'[w] \in {target, NoUrl}
  <2>1. \A x \in Workers : workerPc[x] = "assign" => fetchUrl[x] = target
    BY DEF PinnedInv, Fetched
  <2> QED BY <1>1, <2>1, Typed DEF PinnedInv
<1>7. Queued'
  BY <1>1, <1>4, <1>5, QueueRests
<1>8. \A x \in Workers : /\ fetchUrl'[x] # NoUrl => fetchUrl'[x] = target /\ workerPc'[x] \in WithUrl
                         /\ workerPc'[x] = "assign" => fetchUrl'[x] = target
  BY <1>4, <1>5, <1>6 DEF PinnedInv, Fetched, WithUrl
<1> QED BY <1>1, <1>2, <1>3, <1>4, <1>7, <1>8, ThreadRests

LEMMA GetDeniedPinned == ASSUME PinnedInv, NEW w \in Workers, GetDenied(w) PROVE PinnedInv'
<1> USE DEF GetDenied, outside, disk, call
<1>1. Inv' /\ mainPc = "join" /\ url = target
  BY GetDeniedKeeps, ThreadAtJoin DEF PinnedInv
<1>2. \A x \in Workers : Saving(x)' = Saving(x)
  BY Moved DEF Saving
<1>3. got[w] = NoData /\ workerPc'[w] = "refresh"
  BY Moved DEF PinnedInv, Fetched
<1>4. \A x \in Workers \ {w} : workerPc'[x] = workerPc[x]
  BY Moved
<1>5. Queued'
  BY <1>1, <1>3, <1>4, QueueRests
<1>6. \A x \in Workers : /\ fetchUrl'[x] # NoUrl => fetchUrl'[x] = target /\ workerPc'[x] \in WithUrl
                         /\ workerPc'[x] = "assign" => fetchUrl'[x] = target
  BY <1>3, <1>4 DEF PinnedInv, Fetched, WithUrl
<1> QED BY <1>1, <1>2, <1>3, <1>4, <1>5, <1>6, ThreadRests

LEMMA RefreshBeginPinned == ASSUME PinnedInv, NEW w \in Workers, RefreshBegin(w) PROVE PinnedInv'
<1> USE DEF RefreshBegin, outside, disk
<1>1. Inv' /\ mainPc = "join" /\ url = target
  BY RefreshBeginKeeps, ThreadAtJoin DEF PinnedInv
<1>2. \A x \in Workers : Saving(x)' = Saving(x)
  BY Moved DEF Saving
<1>3. got[w] = NoData /\ workerPc'[w] = "refreshing"
  BY Moved DEF PinnedInv, Fetched
<1>4. \A x \in Workers \ {w} : workerPc'[x] = workerPc[x]
  BY Moved
<1>5. Queued'
  BY <1>1, <1>3, <1>4, QueueRests
<1>6. \A x \in Workers : /\ fetchUrl'[x] # NoUrl => fetchUrl'[x] = target /\ workerPc'[x] \in WithUrl
                         /\ workerPc'[x] = "assign" => fetchUrl'[x] = target
  BY <1>3, <1>4 DEF PinnedInv, Fetched, WithUrl
<1> QED BY <1>1, <1>2, <1>3, <1>4, <1>5, <1>6, ThreadRests

LEMMA RefreshFailsPinned == ASSUME PinnedInv, NEW w \in Workers, RefreshFails(w) PROVE PinnedInv'
<1> USE DEF RefreshFails, outside, disk, EndOfRound
<1>1. Inv' /\ mainPc = "join" /\ url = target
  BY RefreshFailsKeeps, ThreadAtJoin DEF PinnedInv
<1>2. \A x \in Workers : Saving(x)' = Saving(x)
  BY Moved DEF Saving
<1>3. got'[w] = NoData /\ part'[w] = NoPart /\ fetchUrl'[w] = NoUrl /\ workerPc'[w] = "done"
  BY Moved, Typed DEF PinnedInv
<1>4. \A x \in Workers \ {w} : /\ workerPc'[x] = workerPc[x] /\ part'[x] = part[x]
                               /\ got'[x] = got[x] /\ fetchUrl'[x] = fetchUrl[x]
  BY Moved, Typed DEF PinnedInv
<1>5. outcomes'.failure # "none"
  BY DEF PushOutcome
<1>6. Queued'
  BY <1>1, <1>5, QueueRests
<1>7. \A x \in Workers : /\ fetchUrl'[x] # NoUrl => fetchUrl'[x] = target /\ workerPc'[x] \in WithUrl
                         /\ workerPc'[x] = "assign" => fetchUrl'[x] = target
  BY <1>3, <1>4 DEF PinnedInv, Fetched
<1> QED BY <1>1, <1>2, <1>3, <1>4, <1>6, <1>7, ThreadRests

(* The new url is that of the same version: the content hashes tell the versions apart. *)
LEMMA RefreshSucceedsPinned ==
    ASSUME PinnedInv, Pinned, NEW w \in Workers, RefreshSucceeds(w) PROVE PinnedInv'
<1> USE DEF RefreshSucceeds, outside, disk, call
<1>1. Inv' /\ mainPc = "join" /\ url = target
  BY RefreshSucceedsKeeps, ThreadAtJoin DEF PinnedInv
<1>2. \A x \in Workers : Saving(x)' = Saving(x)
  BY Moved DEF Saving
<1>3. got[w] = NoData /\ workerPc'[w] = "assign"
  BY Moved DEF PinnedInv, Fetched
<1>4. \A x \in Workers \ {w} : workerPc'[x] = workerPc[x] /\ fetchUrl'[x] = fetchUrl[x]
  BY Moved, Typed DEF PinnedInv
<1>5. fetchUrl'[w] = target
  <2>1. source = target
    BY Basics DEF Pinned, SameFile, PinnedInv
  <2> QED BY <2>1, Typed DEF PinnedInv
<1>6. Queued'
  BY <1>1, <1>3, <1>4, QueueRests
<1>7. \A x \in Workers : /\ fetchUrl'[x] # NoUrl => fetchUrl'[x] = target /\ workerPc'[x] \in WithUrl
                         /\ workerPc'[x] = "assign" => fetchUrl'[x] = target
  BY <1>3, <1>4, <1>5 DEF PinnedInv, Fetched, WithUrl
<1> QED BY <1>1, <1>2, <1>3, <1>4, <1>6, <1>7, ThreadRests

LEMMA AssignUrlPinned == ASSUME PinnedInv, NEW w \in Workers, AssignUrl(w) PROVE PinnedInv'
<1> USE DEF AssignUrl, outside, disk
<1>1. Inv' /\ mainPc = "join"
  BY AssignUrlKeeps, ThreadAtJoin DEF PinnedInv
<1>2. \A x \in Workers : Saving(x)' = Saving(x)
  BY Moved DEF Saving
<1>3. got[w] = NoData /\ workerPc'[w] = "beginAgain" /\ fetchUrl[w] = target
  BY Moved DEF PinnedInv, Fetched
<1>4. \A x \in Workers \ {w} : workerPc'[x] = workerPc[x]
  BY Moved
<1>5. Queued'
  BY <1>1, <1>3, <1>4, QueueRests
<1>6. \A x \in Workers : /\ fetchUrl'[x] # NoUrl => fetchUrl'[x] = target /\ workerPc'[x] \in WithUrl
                         /\ workerPc'[x] = "assign" => fetchUrl'[x] = target
  BY <1>3, <1>4 DEF PinnedInv, Fetched, WithUrl
<1> QED BY <1>1, <1>2, <1>3, <1>4, <1>5, <1>6, ThreadRests

(* Bytes come in: what is listed stays, and so does what other threads got. *)
LEMMA BytesArrive ==
    ASSUME PinnedInv, NEW w \in Workers, Getting(w), Inv', NEW b,
           tempFile' = [tempFile EXCEPT ![part[w]] = b],
           UNCHANGED <<outside, records, dest, mainPc, call, part, fetchUrl, result>>,
           Goto(w, "publish"),
           \/ got' = [got EXCEPT ![w] = NoData]
           \/ got' = [got EXCEPT ![w] = target] /\ b = target
    PROVE  PinnedInv'
<1> USE DEF outside, call
<1>1. part[w] # NoPart /\ part[w] \in Parts
  BY WorkerFacts DEF PinnedInv, Inv, Holding, Working, Getting
<1>2. mainPc = "join" /\ Held(downloadedParts, tempFile, target)
  BY <1>1, NotLeft
<1>3. tempFile'[part[w]] = b /\ \A p \in Parts : p # part[w] => tempFile'[p] = tempFile[p]
  BY <1>1, Typed DEF PinnedInv
<1>4. Held(downloadedParts, tempFile', target)
  BY <1>1, <1>2, <1>3, WrittenKeepsHeld DEF Written, PinnedInv
<1>5. \A x \in Workers : Saving(x)' = Saving(x)
  BY Moved DEF Saving, Getting
<1>6. Kept'
  BY <1>2, <1>4, <1>5 DEF PinnedInv, Kept, Sound, record
<1>7. workerPc'[w] = "publish" /\ \A x \in Workers \ {w} : workerPc'[x] = workerPc[x] /\ got'[x] = got[x]
  BY Moved, Typed DEF PinnedInv
<1>8. got'[w] # NoData => got'[w] = target /\ b = target
  BY Typed DEF PinnedInv
<1>9. Queued'
  BY <1>2, <1>7, QueueRests
<1>10. Fetched'
  <2>1. ASSUME NEW x \in Workers \ {w}, got'[x] # NoData
        PROVE  got'[x] = target /\ workerPc'[x] = "publish" /\ tempFile'[part[x]] = target
    <3>1. got[x] = target /\ workerPc[x] = "publish" /\ tempFile[part[x]] = target
      BY <1>7, <2>1 DEF PinnedInv, Fetched
    <3>2. part[x] # NoPart /\ part[x] \in Parts
      BY <3>1, WorkerFacts DEF PinnedInv, Inv, Holding, Working
    <3>3. part[x] # part[w]
      BY <1>1, <3>2 DEF PinnedInv, Inv, PartsAccounted
    <3> QED BY <1>3, <1>7, <3>1, <3>2, <3>3
  <2>2. ASSUME NEW x \in Workers, fetchUrl'[x] # NoUrl
        PROVE  fetchUrl'[x] = target /\ workerPc'[x] \in WithUrl
    BY <1>7, <2>2 DEF PinnedInv, Fetched, WithUrl
  <2>3. \A x \in Workers : workerPc'[x] = "assign" => fetchUrl'[x] = target
    BY <1>7 DEF PinnedInv, Fetched
  <2>4. /\ mainPc' # "idle" => url' = target'
        /\ \A x \in Workers : part'[x] # NoPart => part'[x] \in 1 .. PartCount[target']
        /\ partsToDownload' \subseteq 1 .. PartCount[target']
    BY DEF PinnedInv, Fetched
  <2> QED BY <1>3, <1>7, <1>8, <2>1, <2>2, <2>3, <2>4 DEF Fetched
<1>11. Forward'
  BY DEF PinnedInv, Forward
<1>12. Delivered' /\ OkMeansWhole'
  BY <1>2 DEF PinnedInv, Delivered, OkMeansWhole
<1> QED BY <1>6, <1>9, <1>10, <1>11, <1>12 DEF PinnedInv

LEMMA GetSucceedsPinned ==
    ASSUME PinnedInv, Pinned, NEW w \in Workers, GetSucceeds(w) PROVE PinnedInv'
<1> USE DEF GetSucceeds
<1>1. Inv'
  BY GetSucceedsKeeps DEF PinnedInv
<1>2. Served(w) = target
  BY NoPinnedEvent DEF Served, CanServe, PinnedInv, Fetched
<1>3. tempFile' = [tempFile EXCEPT ![part[w]] = target]
  BY <1>2, NoPinnedEvent
<1> QED BY <1>1, <1>2, <1>3, BytesArrive

LEMMA GetFailsPinned == ASSUME PinnedInv, NEW w \in Workers, GetFails(w) PROVE PinnedInv'
<1> USE DEF GetFails
<1>1. Inv'
  BY GetFailsKeeps DEF PinnedInv
<1>2. part[w] \in Parts
  BY WorkerFacts DEF PinnedInv, Working, Getting
<1>3. PICK b : tempFile' = [tempFile EXCEPT ![part[w]] = b]
  <2>1. CASE UNCHANGED tempFile
    <3>1. tempFile' = [tempFile EXCEPT ![part[w]] = tempFile[part[w]]]
      BY <1>2, <2>1, Typed DEF PinnedInv
    <3> QED BY <3>1
  <2>2. CASE tempFile' = [tempFile EXCEPT ![part[w]] = Partly(@, Served(w))]
    BY <2>2
  <2> QED BY <2>1, <2>2
<1> QED BY <1>1, <1>3, BytesArrive

LEMMA PublishPinned == ASSUME PinnedInv, NEW w \in Workers, Publish(w) PROVE PinnedInv'
<1> USE DEF Publish, outside, disk, EndOfRound
<1>1. Inv' /\ mainPc = "join" /\ url = target
  BY PublishKeeps, ThreadAtJoin DEF PinnedInv
<1>2. got'[w] = NoData /\ part'[w] = NoPart /\ fetchUrl'[w] = NoUrl
  BY Typed DEF PinnedInv
<1>3. \A x \in Workers \ {w} : /\ workerPc'[x] = workerPc[x] /\ part'[x] = part[x]
                               /\ got'[x] = got[x] /\ fetchUrl'[x] = fetchUrl[x]
  BY Moved, Typed DEF PinnedInv
<1>4. workerPc'[w] \in {"pop", "open"}
  BY Moved
<1>5. \A x \in Workers : /\ fetchUrl'[x] # NoUrl => fetchUrl'[x] = target /\ workerPc'[x] \in WithUrl
                         /\ workerPc'[x] = "assign" => fetchUrl'[x] = target
  BY <1>2, <1>3, <1>4 DEF PinnedInv, Fetched
<1>6. CASE got[w] = NoData
  <2>1. \A x \in Workers : Saving(x)' = Saving(x)
    BY <1>6, Moved DEF Saving
  <2>2. outcomes'.failure # "none"
    BY <1>6 DEF PushOutcome
  <2>3. Queued'
    BY <1>1, <1>6, <2>2, QueueRests
  <2> QED BY <1>1, <1>2, <1>3, <1>5, <1>6, <2>1, <2>3, ThreadRests
<1>7. CASE got[w] # NoData
  <2>1. downloadedParts' = downloadedParts \cup {Entry(part[w], got[w])}
    BY <1>7
  <2>2. Entry(part[w], got[w]).partNumber = part[w] /\ tempFile[part[w]] = target
    BY <1>7 DEF Entry, PinnedInv, Fetched
  <2>3. part[w] # NoPart
    BY DEF PinnedInv, Inv, Holding, Working
  <2>4. Held(downloadedParts, tempFile, target)
    BY <2>3, NotLeft
  <2>5. Held(downloadedParts', tempFile', target')
    BY <2>1, <2>2, <2>4 DEF Held
  <2>6. \A x \in Workers : ~Saving(x)
    BY DEF PinnedInv, Inv, LockDiscipline, LockIsFree, Saving
  <2>7. record.parts \subseteq downloadedParts
    BY <1>1, <2>6 DEF PinnedInv, Kept
  <2>8. record'.parts \in {{}, downloadedParts'} \/ \E x \in Workers : Saving(x)'
    <3>1. CASE HasCheckpoint
      BY <1>7, <3>1, Moved DEF Saving
    <3>2. CASE ~HasCheckpoint
      BY <3>2, Basics DEF PinnedInv, Kept, record
    <3> QED BY <3>1, <3>2
  <2>9. Kept'
    BY <1>1, <2>1, <2>5, <2>7, <2>8 DEF PinnedInv, Kept, Sound, record
  <2>10. Forward'
    BY DEF PinnedInv, Forward
  <2>11. Fetched'
    BY <1>1, <1>2, <1>3, <1>5 DEF PinnedInv, Fetched
  <2>12. Queued'
    <3>1. outcomes'.failure = outcomes.failure /\ Quitting' = Quitting
      BY <1>7 DEF PushOutcome, Quitting
    <3>2. Missing' \subseteq Missing \ {part[w]}
      BY <2>1, <2>2 DEF Missing, Numbers
    <3>3. Missing \subseteq partsToDownload \cup {part[x] : x \in Workers}
             => Missing' \subseteq partsToDownload' \cup {part'[x] : x \in Workers}
      BY <1>3, <3>2
    <3>4. (\E x \in Workers : workerPc'[x] = "done") => \E x \in Workers : workerPc[x] = "done"
      BY <1>3, <1>4
    <3> QED BY <1>1, <3>1, <3>3, <3>4 DEF PinnedInv, Queued
  <2>13. Delivered' /\ OkMeansWhole'
    BY <1>1 DEF PinnedInv, Delivered, OkMeansWhole
  <2> QED BY <1>1, <2>9, <2>10, <2>11, <2>12, <2>13 DEF PinnedInv
<1> QED BY <1>6, <1>7

LEMMA SavePinned ==
    ASSUME PinnedInv, Pinned, NEW w \in Workers, SaveOpen(w) \/ SaveWrite(w) PROVE PinnedInv'
<1> USE DEF SaveOpen, SaveWrite, outside
<1>1. Inv' /\ mainPc = "join" /\ url = target
  BY SaveKeeps, ThreadAtJoin DEF PinnedInv
<1>2. Saving(w) /\ got[w] = NoData /\ fetchUrl[w] = NoUrl
  BY DEF PinnedInv, Fetched, Saving, WithUrl
<1>3. PICK r : /\ WriteRecord(r)
               /\ \/ r.parts = {} /\ workerPc'[w] = "save"
                  \/ r.parts = downloadedParts
  BY NoPinnedEvent, Moved DEF Damaged, NoRecord, Saved
<1>4. HasCheckpoint => records' = [records EXCEPT ![ContentHash[target]] = r]
  BY <1>3 DEF WriteRecord
<1>5. ~HasCheckpoint => records' = records
  BY <1>3 DEF WriteRecord
<1>6. \A h \in Hashes \ {ContentHash[target]} : records'[h] = records[h]
  BY <1>4, <1>5, Typed DEF PinnedInv
<1>7. record'.parts \in {r.parts, {}}
  <2>1. CASE HasCheckpoint
    BY <2>1, <1>4, Basics, Typed DEF record, PinnedInv
  <2>2. CASE ~HasCheckpoint
    BY <2>2, <1>5, Basics DEF record, PinnedInv, Kept
  <2> QED BY <2>1, <2>2
<1>8. Forward'
  <2>1. \A v \in Versions : v > target => ContentHash[v] \in Hashes /\ ContentHash[v] # ContentHash[target]
    BY Basics, VersionsAssumption DEF Pinned, PinnedInv, Versions
  <2> QED BY <1>6, <2>1 DEF PinnedInv, Forward
<1>9. Kept'
  <2>1. Held(downloadedParts, tempFile, target)
    BY <1>2 DEF PinnedInv, Kept
  <2>2. record'.parts \in {{}, downloadedParts'} /\ record'.parts \subseteq downloadedParts'
    BY <1>3, <1>7
  <2>3. ~HasCheckpoint => \A h \in Hashes : records'[h].parts = {}
    BY <1>5 DEF PinnedInv, Kept
  <2> QED BY <1>1, <2>1, <2>2, <2>3 DEF Kept, Sound
<1>10. workerPc'[w] \in {"save", "pop"} /\ \A x \in Workers \ {w} : workerPc'[x] = workerPc[x]
  BY Moved
<1>11. Fetched'
  BY <1>1, <1>2, <1>10 DEF PinnedInv, Fetched
<1>12. Queued'
  BY <1>1, <1>10, QueueRests
<1>13. Delivered' /\ OkMeansWhole'
  BY <1>1 DEF PinnedInv, Delivered, OkMeansWhole
<1> QED BY <1>1, <1>8, <1>9, <1>11, <1>12, <1>13 DEF PinnedInv

LEMMA WorkerPinned == ASSUME PinnedInv, Pinned, NEW w \in Workers, Worker(w) PROVE PinnedInv'
BY PopPinned, CheckPinned, ReadUrlPinned, GetSucceedsPinned, GetFailsPinned, GetDeniedPinned,
   RefreshBeginPinned, RefreshFailsPinned, RefreshSucceedsPinned, AssignUrlPinned,
   PublishPinned, SavePinned, Zenon
DEF Worker

-----------------------------------------------------------------------------
(* The calling thread, after the threads are joined, and the environment. *)

(* A call ends, with success only when the file is in place. *)
LEMMA CallIsOver ==
    ASSUME PinnedInv, Inv', NEW code, Return(code),
           code = "ok" => dest' = Content(target),
           EmptiesRecord, Sound(record.parts, tempFile, target, dest)'
    PROVE  PinnedInv'
<1> USE DEF Return, Forget
<1>1. Forward' /\ (~HasCheckpoint => \A h \in Hashes : records'[h].parts = {})
  BY EmptiesKeepsForward
<1>2. Kept'
  BY <1>1 DEF Kept, Saving
<1>3. Fetched' /\ Queued' /\ Delivered' /\ OkMeansWhole'
  BY DEF Fetched, Queued, Delivered, OkMeansWhole
<1> QED BY <1>1, <1>2, <1>3 DEF PinnedInv

LEMMA OverWithDisk ==
    ASSUME PinnedInv, Inv', NEW code, Return(code), code # "ok", UNCHANGED disk
    PROVE  PinnedInv'
<1>1. EmptiesRecord /\ record' = record /\ UNCHANGED <<target, tempFile, dest>>
  BY DEF EmptiesRecord, record, disk, Return, Forget
<1>2. Sound(record.parts, tempFile, target, dest)'
  BY <1>1, SoundRecord
<1> QED BY <1>1, <1>2, CallIsOver

LEMMA OverWithoutRecord ==
    ASSUME PinnedInv, Pinned, Inv', NEW code, Return(code), DropRecord,
           code = "ok" => dest' = Content(target)
    PROVE  PinnedInv'
<1>1. EmptiesRecord /\ record'.parts = {}
  BY DroppingRecord DEF Return, Forget
<1>2. Sound(record.parts, tempFile, target, dest)'
  BY <1>1, NothingIsSound
<1> QED BY <1>1, <1>2, CallIsOver

(* It goes on. *)
LEMMA GoesOnPinned ==
    ASSUME PinnedInv, Inv', mainPc \notin {"idle", "load"}, mainPc' \notin {"idle", "load", "cancel"},
           UNCHANGED <<outside, disk, call, result, threads>>, Delivered', Queued'
    PROVE  PinnedInv'
<1> USE DEF outside, disk, call, threads
<1>1. Forward' /\ Fetched'
  BY DEF PinnedInv, Forward, Fetched
<1>2. \A w \in Workers : Saving(w)' = Saving(w)
  BY DEF Saving
<1>3. Kept'
  BY <1>2 DEF PinnedInv, Kept, record
<1>4. OkMeansWhole'
  BY DEF PinnedInv, OkMeansWhole
<1> QED BY <1>1, <1>3, <1>4 DEF PinnedInv

(* All threads are done: of a call that nobody stopped and nothing failed, no part is missing. *)
LEMMA NothingMissing ==
    ASSUME PinnedInv, mainPc = "join", \A w \in Workers : workerPc[w] = "done",
           ~Quitting, outcomes.failure = "none"
    PROVE  Missing = {}
<1>1. partsToDownload = {}
  BY BoundsAssumption DEF PinnedInv, Queued
<1>2. \A w \in Workers : part[w] = NoPart
  BY DEF PinnedInv, Inv, Holding, Working
<1>3. NoPart \notin Missing
  BY DEF Missing, NoPart
<1> QED BY <1>1, <1>2, <1>3 DEF PinnedInv, Queued

LEMMA CheckEnablePinned == ASSUME PinnedInv, CheckEnable PROVE PinnedInv'
<1> USE DEF CheckEnable
<1>1. Inv'
  BY CheckEnableKeeps DEF PinnedInv
<1>2. CASE enable
  <2> USE <1>2
  <2>1. UNCHANGED <<mainPc, outside, call, result, threads, disk>> \/ mainPc' = "control"
    OBVIOUS
  <2>2. Missing' = Missing /\ control' = control /\ outcomes' = outcomes
    BY DEF Missing, call, outside
  <2>3. Queued'
    BY <2>2, NothingMissing DEF Queued, Quitting
  <2>4. Delivered'
    BY DEF PinnedInv, Delivered, call
  <2> QED BY <1>1, <2>3, <2>4, GoesOnPinned
<1>3. CASE Return("disabled")
  BY <1>1, <1>3, OverWithDisk
<1> QED BY <1>2, <1>3

LEMMA CheckControlPinned == ASSUME PinnedInv, Pinned, CheckControl PROVE PinnedInv'
<1> USE DEF CheckControl
<1>1. Inv'
  BY CheckControlKeeps DEF PinnedInv
<1>2. CASE control = "none" /\ mainPc' = "verify" /\ UNCHANGED <<outside, call, result, threads, records>>
  <2>1. Missing' = Missing /\ outcomes' = outcomes
    BY <1>2 DEF Missing, call
  <2>2. Queued' /\ Delivered'
    BY <1>2, <2>1 DEF PinnedInv, Queued, Delivered, call
  <2> QED BY <1>1, <1>2, <2>2, GoesOnPinned DEF disk
<1>3. CASE Return("stopped") /\ UNCHANGED records
  BY <1>1, <1>3, OverWithDisk DEF disk
<1>4. CASE DropRecord /\ mainPc' = "cancel" /\ UNCHANGED <<outside, call, result, threads>>
  <2> USE <1>4 DEF outside, call, threads
  <2>1. EmptiesRecord /\ record'.parts = {}
    BY DroppingRecord
  <2>2. Forward' /\ (~HasCheckpoint => \A h \in Hashes : records'[h].parts = {})
    BY <2>1, EmptiesKeepsForward
  <2>3. \A w \in Workers : ~Saving(w)'
    BY ThreadsRest DEF Saving
  <2>4. Kept'
    BY <2>1, <2>2, <2>3 DEF PinnedInv, Kept
  <2>5. Fetched' /\ Queued' /\ Delivered' /\ OkMeansWhole'
    BY DEF PinnedInv, Fetched, Queued, Delivered, OkMeansWhole
  <2> QED BY <1>1, <2>2, <2>4, <2>5 DEF PinnedInv
<1> QED BY <1>2, <1>3, <1>4

LEMMA RemoveTempFilePinned == ASSUME PinnedInv, RemoveTempFile PROVE PinnedInv'
<1> USE DEF RemoveTempFile
<1>1. Inv'
  BY RemoveTempFileKeeps DEF PinnedInv
<1>2. EmptiesRecord /\ record' = record /\ Return("canceled")
  BY DEF EmptiesRecord, record, Return, Forget
<1>3. record'.parts = {}
  BY <1>2 DEF PinnedInv, Kept
<1>4. Sound(record.parts, tempFile, target, dest)'
  BY <1>3, NothingIsSound
<1> QED BY <1>1, <1>2, <1>4, CallIsOver

LEMMA RejectPinned == ASSUME PinnedInv, Pinned, Reject PROVE PinnedInv'
<1> USE DEF Reject
<1>1. Inv' /\ Verdict # "ok"
  BY RejectKeeps DEF PinnedInv, Verdict, Inv, TypeOK, CallOK, Failures
<1>2. CASE UNCHANGED records
  BY <1>1, <1>2, OverWithDisk DEF disk
<1>3. CASE DropRecord
  BY <1>1, <1>3, OverWithoutRecord
<1> QED BY <1>2, <1>3

LEMMA ReadFirstOfNonePinned == ASSUME PinnedInv, ReadFirstOfNone PROVE PinnedInv'
<1>1. Inv'
  BY ReadFirstOfNoneKeeps DEF PinnedInv
<1> QED BY <1>1, OverWithDisk DEF ReadFirstOfNone

(* What is let through is the file: no part is missing, each one is in the file, and the size says that nothing else is.  *)
LEMMA NoPartMeansWhole ==
    ASSUME PinnedInv, mainPc = "verify", Missing = {}, SizeMatches
    PROVE  tempFile = Content(target)
<1>1. ~Left(downloadedParts, tempFile, target, dest)
  BY Basics DEF SizeMatches, Left, EmptyFile, PinnedInv
<1>2. Held(downloadedParts, tempFile, target)
  BY <1>1 DEF PinnedInv, Kept, Sound
<1>3. \A p \in 1 .. PartCount[target] : tempFile[p] = target
  BY <1>2 DEF Missing, Numbers, Held
<1>4. \A p \in Parts : tempFile[p] = IF p <= PartCount[target] THEN target ELSE Hole
  BY <1>3, Basics DEF SizeMatches, Parts, PinnedInv
<1> QED BY <1>4, Typed DEF Content, PinnedInv

LEMMA AcceptPinned == ASSUME PinnedInv, Pinned, Accept PROVE PinnedInv'
<1> USE DEF Accept
<1>1. Inv'
  BY AcceptKeeps DEF PinnedInv
<1>2. outcomes.failure = "none" /\ SizeMatches
  BY NoPinnedEvent DEF Verdict, PinnedInv, Inv, TypeOK, CallOK, Failures
<1>3. Missing = {}
  BY <1>2 DEF PinnedInv, Queued
<1>4. tempFile = Content(target)
  BY <1>2, <1>3, NoPartMeansWhole
<1>5. Delivered'
  BY <1>4 DEF PinnedInv, Delivered, call, disk
<1>6. Queued'
  BY <1>3 DEF Queued, Missing, call
<1> QED BY <1>1, <1>5, <1>6, GoesOnPinned

LEMMA RenamePinned == ASSUME PinnedInv, Rename PROVE PinnedInv'
<1> USE DEF Rename
<1>1. Inv'
  BY RenameKeeps DEF PinnedInv
<1>2. CASE Return("RenameError") /\ UNCHANGED <<tempFile, dest>>
  BY <1>1, <1>2, OverWithDisk DEF disk
<1>3. CASE /\ dest' = tempFile /\ tempFile' = EmptyFile /\ mainPc' = "finish"
           /\ UNCHANGED <<outside, call, result, threads>>
  <2> USE <1>3 DEF outside, call, threads
  <2>1. Forward' /\ Fetched'
    BY ThreadsRest DEF PinnedInv, Forward, Fetched
  <2>2. dest' = Content(target) /\ Missing = {} /\ Missing' = Missing
    BY DEF PinnedInv, Delivered, Queued, Missing
  <2>3. Left(downloadedParts, tempFile, target, dest)'
    BY <2>2 DEF Left, Missing
  <2>4. \A w \in Workers : ~Saving(w) /\ ~Saving(w)'
    BY ThreadsRest DEF Saving
  <2>5. Kept'
    BY <2>3, <2>4 DEF PinnedInv, Kept, Sound, record
  <2>6. Queued' /\ Delivered' /\ OkMeansWhole'
    BY <2>2 DEF PinnedInv, Queued, Delivered, OkMeansWhole
  <2> QED BY <1>1, <2>1, <2>5, <2>6 DEF PinnedInv
<1> QED BY <1>2, <1>3

LEMMA RemoveRecordFilePinned == ASSUME PinnedInv, Pinned, RemoveRecordFile PROVE PinnedInv'
<1>1. Inv'
  BY RemoveRecordFileKeeps DEF PinnedInv
<1>2. dest' = Content(target)
  BY DEF PinnedInv, Delivered, RemoveRecordFile
<1> QED BY <1>1, <1>2, OverWithoutRecord DEF RemoveRecordFile

LEMMA AskPinned == ASSUME PinnedInv, Pinned, AskToQuit \/ Withdraw PROVE PinnedInv'
<1> USE DEF disk, call, threads
<1>1. Inv' /\ AskToQuit
  BY AskKeeps, NoPinnedEvent DEF PinnedInv, Withdraw
<1>2. UNCHANGED <<source, records, tempFile, dest, mainPc, target, url, downloadedParts, partsToDownload,
                  outcomes, result, workerPc, part, fetchUrl, got>>
  BY <1>1 DEF AskToQuit
<1>3. Quitting' /\ (control' # "none" \/ control' = control)
  BY <1>1 DEF AskToQuit, Quitting
<1>4. Queued'
  BY <1>2, <1>3 DEF PinnedInv, Queued, Missing
<1>5. Forward' /\ Fetched' /\ Delivered' /\ OkMeansWhole'
  BY <1>2 DEF PinnedInv, Forward, Fetched, Delivered, OkMeansWhole
<1>6. Kept'
  BY <1>2 DEF PinnedInv, Kept, record, Saving
<1> QED BY <1>1, <1>4, <1>5, <1>6 DEF PinnedInv

LEMMA ChangeSourcePinned == ASSUME PinnedInv, Pinned, ChangeSource PROVE PinnedInv'
<1> USE DEF disk, call, threads, ChangeSource
<1>1. Inv'
  BY ChangeSourceKeeps DEF PinnedInv
<1>2. source' = source + 1
  BY NoPinnedEvent
<1>3. Forward'
  BY <1>2, Basics DEF PinnedInv, Forward
<1>4. Fetched' /\ Queued' /\ Delivered' /\ OkMeansWhole'
  BY DEF PinnedInv, Fetched, Queued, Missing, Quitting, Delivered, OkMeansWhole
<1>5. Kept'
  BY DEF PinnedInv, Kept, record, Saving
<1> QED BY <1>1, <1>3, <1>4, <1>5 DEF PinnedInv

LEMMA CrashPinned == ASSUME PinnedInv, Crash PROVE PinnedInv'
<1>1. Inv' /\ Return("none") /\ UNCHANGED <<records, dest>>
  BY CrashKeeps DEF PinnedInv, Crash
<1>2. EmptiesRecord /\ record' = record /\ target' = target
  BY <1>1 DEF EmptiesRecord, record, Return, Forget
<1>3. PICK S \in SUBSET {w \in Workers : Getting(w) /\ CanServe(w)} :
          tempFile' = [p \in Parts |-> IF \E w \in S : part[w] = p
                                       THEN Partly(tempFile[p], Served(CHOOSE w \in S : part[w] = p))
                                       ELSE tempFile[p]]
  BY DEF Crash
<1>4. Written
  BY <1>3 DEF Written
<1>5. CASE tempFile' = tempFile
  BY <1>1, <1>5, OverWithDisk DEF disk
<1>6. CASE tempFile' # tempFile
  <2>1. PICK w \in S : TRUE
    <3>1. S = {} => tempFile' = [p \in Parts |-> tempFile[p]]
      BY <1>3
    <3> QED BY <1>6, <3>1, Typed DEF PinnedInv
  <2>2. part[w] # NoPart
    BY <2>1 DEF PinnedInv, Inv, Holding, Working, Getting
  <2>3. Held(downloadedParts, tempFile, target) /\ mainPc = "join"
    BY <2>1, <2>2, NotLeft
  <2>4. record.parts \subseteq downloadedParts
    BY <2>3 DEF PinnedInv, Kept
  <2>5. Held(record.parts, tempFile, target)
    BY <2>3, <2>4 DEF Held
  <2>6. Held(record.parts, tempFile', target)
    BY <1>4, <2>4, <2>5, WrittenKeepsHeld DEF PinnedInv
  <2>7. Sound(record.parts, tempFile, target, dest)'
    BY <1>2, <2>6 DEF Sound
  <2> QED BY <1>1, <1>2, <2>7, CallIsOver
<1> QED BY <1>5, <1>6

-----------------------------------------------------------------------------
LEMMA InitPinned == ASSUME Init PROVE PinnedInv
<1> USE DEF Init
<1>1. Inv
  BY InitInv
<1>2. \A h \in Hashes : records[h].parts = {}
  BY DEF NoRecord
<1>3. record.parts = {}
  BY <1>1, <1>2, Basics DEF record
<1>4. Kept
  BY <1>2, <1>3 DEF Kept, Saving, Sound, Held
<1>5. Forward
  BY <1>2, Basics DEF Forward, Hashes
<1>6. Fetched /\ Queued /\ Delivered /\ OkMeansWhole
  BY DEF Fetched, Queued, Delivered, OkMeansWhole
<1> QED BY <1>1, <1>4, <1>5, <1>6 DEF PinnedInv

LEMMA NextPinned == ASSUME PinnedInv, Pinned, [Next]_vars PROVE PinnedInv'
<1>1. CASE Start
  BY <1>1, StartPinned
<1>2. CASE Main
  BY <1>2, LoadRecordPinned, PreparePinned, PlanPinned, CheckEnablePinned, CheckControlPinned,
     RemoveTempFilePinned, RejectPinned, ReadFirstOfNonePinned, AcceptPinned, RenamePinned,
     RemoveRecordFilePinned, Zenon
  DEF Main
<1>3. CASE \E w \in Workers : Worker(w)
  BY <1>3, WorkerPinned
<1>4. CASE Environment
  BY <1>4, AskPinned, ChangeSourcePinned, CrashPinned, Zenon DEF Environment
<1>5. CASE UNCHANGED vars
  <2> USE <1>5 DEF vars, outside, disk, call, threads
  <2>1. Inv'
    BY NextInv DEF PinnedInv
  <2>2. Forward' /\ Fetched' /\ Queued' /\ Delivered' /\ OkMeansWhole'
    BY DEF PinnedInv, Forward, Fetched, Queued, Missing, Quitting, Delivered, OkMeansWhole
  <2>3. Kept'
    BY DEF PinnedInv, Kept, record, Saving
  <2> QED BY <2>1, <2>2, <2>3 DEF PinnedInv
<1> QED BY <1>1, <1>2, <1>3, <1>4, <1>5, Zenon DEF Next

LEMMA PinnedInvariance == ASSUME Pinned PROVE Spec => []PinnedInv
<1>1. Init => PinnedInv
  BY InitPinned
<1>2. PinnedInv /\ [Next]_vars => PinnedInv'
  BY NextPinned
<1> QED BY <1>1, <1>2, PTL DEF Spec

\* The record a call resumes from never runs ahead of the temporary file, through every crash, stop and modification: bytes
\* are in the file before their part is listed, and a thread writes only to parts that nobody has listed.
THEOREM RecordStaysBehindFile == ASSUME Pinned PROVE Spec => []RecordBehindFile
<1>1. PinnedInv => RecordBehindFile
  BY SoundRecord DEF RecordBehindFile, Sound, Held, Left, record
<1> QED BY <1>1, PinnedInvariance, PTL

\* A download reports success of whole versions only, without a CRC too, when hashes and urls pin the version: every part that
\* counts as downloaded is in the file, and a call that goes on to the rename has counted every part.
THEOREM DownloadOkWithoutCrc == ASSUME Pinned PROVE Spec => []OkMeansWhole
<1>1. PinnedInv => OkMeansWhole
  BY DEF PinnedInv
<1> QED BY <1>1, PinnedInvariance, PTL

\* "Not all parts are downloaded." (ResumableDownloader.cc:235) is true of such callers: a download that goes on to publish the
\* file has every part.  (What breaks it is a request to quit that is taken back.)
THEOREM CompleteBeforeRename ==
    ASSUME Pinned
    PROVE  Spec => [](mainPc = "rename" => 1 .. PartCount[target] \subseteq Numbers(downloadedParts))
<1>1. PinnedInv => (mainPc = "rename" => 1 .. PartCount[target] \subseteq Numbers(downloadedParts))
  BY DEF PinnedInv, Queued, Missing
<1> QED BY <1>1, PinnedInvariance, PTL

-----------------------------------------------------------------------------
(***************************************************************************)
(* A call that meets no failure delivers (QuietCallDelivers), whatever the *)
(* calls before it left on disk, with a CRC or with urls that keep serving *)
(* their version; if content hashes tell the versions apart, so that there *)
(* is a record for each, and files do not shrink: the temporary file is    *)
(* never cut, and a longer one fails the size check of every later call.   *)
(***************************************************************************)
HashesDiffer == \A v, w \in Versions : ContentHash[v] = ContentHash[w] => v = w
NeverShrinks == \A v, w \in Versions : v <= w => PartCount[v] <= PartCount[w]
Recoverable == HashesDiffer /\ NeverShrinks /\ (ChecksOn \/ Pinned)

(* What both invariants above say. *)
Base ==
    /\ Inv /\ AtWork
    /\ target <= source
    /\ mainPc \notin {"idle", "load"} => record.parts \in {{}, downloadedParts} \/ \E w \in Workers : Saving(w)
    /\ (\E w \in Workers : Saving(w)) => record.parts \subseteq downloadedParts
    /\ ~HasCheckpoint => \A h \in Hashes : records[h].parts = {}
    /\ mainPc = "cancel" => record.parts = {}
    /\ mainPc \in {"rename", "finish"} => Missing = {}
    /\ mainPc = "rename" => tempFile = Content(target)
    /\ mainPc = "finish" => dest = Content(target)
    /\ mainPc # "idle" => result = "none"

(* Urls are those of the version asked for, and bytes of that version or a newer one. *)
Dated ==
    /\ mainPc # "idle" => url = target
    /\ \A w \in Workers :
          /\ fetchUrl[w] # NoUrl => fetchUrl[w] = target /\ workerPc[w] \in WithUrl
          /\ workerPc[w] = "assign" => fetchUrl[w] = target
          /\ got[w] # NoData => target <= got[w] /\ got[w] <= source /\ (~HasCrc => got[w] = target)

(* The record of a version lists parts of it or, with a CRC, of a newer one; a version no call has asked for has none. *)
ListedFor(e, v) ==
    /\ e.partNumber <= PartCount[v]
    /\ IF HasCrc THEN v <= e.crc /\ e.crc <= source ELSE e.crc = NoCrc
Lists ==
    /\ \A v \in Versions : \A e \in records[ContentHash[v]].parts : ListedFor(e, v) /\ v <= target
    /\ \A e \in downloadedParts : ListedFor(e, target)

(* What a list names is in the file, or the file was renamed away and is in place. *)
InPlace(list) == \A e \in list : tempFile[e.partNumber] = IF HasCrc THEN e.crc ELSE target
Resumes(list) == InPlace(list) \/ Left(list, tempFile, target, dest)
Resumable ==
    /\ mainPc \in {"idle", "load"} => Resumes(record.parts)
    /\ mainPc \notin {"idle", "load"} => Resumes(downloadedParts)
    /\ (\E w \in Workers : Saving(w)) => InPlace(downloadedParts)
    /\ \A p \in Parts : p > PartCount[target] => tempFile[p] = Hole

(* A call that meets no failure loses no part on its way from the queue to the list. *)
Smooth ==
    /\ source = target /\ enable /\ control = "none"
    /\ outcomes.failure = "none" /\ outcomes.size <= Cardinality(downloadedParts)
    /\ \A w \in Workers :
          /\ workerPc[w] \notin {"refresh", "refreshing", "assign", "beginAgain", "getAgain"}
          /\ workerPc[w] = "get" => fetchUrl[w] = target
          /\ workerPc[w] = "publish" => got[w] # NoData
    /\ mainPc = "join" =>
          /\ Missing \subseteq partsToDownload \cup {part[w] : w \in Workers}
          /\ (\E w \in Workers : workerPc[w] = "done") => partsToDownload = {}
    /\ mainPc \in {"control", "verify", "rename", "finish"} => Missing = {}
    /\ mainPc = "load" => outcomes.size = 0
    /\ mainPc # "cancel"
Quietly ==
    /\ mainPc # "idle" /\ quiet => Smooth
    /\ mainPc = "idle" => /\ enable /\ control = "none" /\ downloadedParts = {}
                          /\ outcomes = [size |-> 0, failure |-> "none"]

QuietInv == Base /\ Dated /\ Lists /\ Resumable /\ Quietly /\ QuietCallDelivers

-----------------------------------------------------------------------------
(* Facts about one state. *)

LEMMA NoHarm ==
    ASSUME Recoverable
    PROVE  /\ HashesDiffer /\ NeverShrinks /\ (HasCrc \/ UrlPinsVersion)
           /\ ~Event("open") /\ ~Event("remove") /\ ~Event("flush") /\ ~Event("revert")
BY NoSuchEvent, NoPinnedEvent DEF Recoverable

LEMMA WholeIsBase == ASSUME WholeInv PROVE Base
<1>1. AllParts(target) = downloadedParts => Missing = {}
  <2>1. \A p \in 1 .. PartCount[target] : Entry(p, target) \in AllParts(target) /\ Entry(p, target).partNumber = p
    BY DEF AllParts, Entry
  <2> QED BY <2>1 DEF Missing, Numbers
<1> QED BY <1>1 DEF WholeInv, Ordered, Trusted, Published, Base

LEMMA PinnedIsBase == ASSUME PinnedInv PROVE Base
BY DEF PinnedInv, Kept, Forward, Fetched, Queued, Delivered, AtWork, Base

LEMMA Loud == ASSUME NEW kind, Event(kind) PROVE quiet' = FALSE
BY DEF Event

LEMMA Calmly == ASSUME Calm PROVE quiet' = quiet
BY DEF Calm, budget

LEMMA QuietBasics ==
    ASSUME QuietInv
    PROVE  /\ Inv /\ target <= source /\ target \in Nat /\ source \in Nat
           /\ target \in Versions /\ source \in Versions /\ target # NoUrl
           /\ PartCount[target] \in Parts /\ Parts \subseteq Nat
           /\ \A v \in Versions : ContentHash[v] \in Hashes
BY Basics, VersionsAssumption DEF QuietInv, Base, NoUrl, Versions

LEMMA ThreadsIdle ==
    ASSUME QuietInv, mainPc # "join"
    PROVE  \A w \in Workers : /\ workerPc[w] = "done" /\ part[w] = NoPart /\ got[w] = NoData
                              /\ fetchUrl[w] = NoUrl /\ ~Saving(w)
BY DEF QuietInv, Base, AtWork, Dated, Inv, Phases, Holding, Working, Saving, WithUrl

LEMMA ThreadWorks ==
    ASSUME QuietInv, NEW w \in Workers, workerPc[w] # "done"
    PROVE  mainPc = "join" /\ url = target
BY ThreadsIdle DEF QuietInv, Dated

LEMMA NotGone ==
    ASSUME QuietInv, NEW w \in Workers, part[w] # NoPart
    PROVE  InPlace(downloadedParts) /\ mainPc = "join" /\ part[w] \in 1 .. PartCount[target]
<1>1. mainPc = "join"
  BY ThreadsIdle
<1>2. part[w] \in 1 .. PartCount[target] /\ part[w] \notin Numbers(downloadedParts)
  BY DEF QuietInv, Base, AtWork, Inv, PartsAccounted
<1> QED BY <1>1, <1>2 DEF QuietInv, Resumable, Resumes, Left

(* Where the threads are after one of them moved from one place to another. *)
LEMMA GoesTo ==
    ASSUME Inv, NEW w \in Workers, NEW p, Goto(w, p)
    PROVE  /\ workerPc'[w] = p
           /\ \A x \in Workers \ {w} : workerPc'[x] = workerPc[x]
BY Typed DEF Goto

(* A record that is written lists what the call has, or nothing. *)
LEMMA ListsStay ==
    ASSUME QuietInv, Recoverable, Inv', target' = target, source <= source',
           \A h \in Hashes : \/ records'[h].parts \subseteq records[h].parts
                             \/ h = ContentHash[target] /\ records'[h].parts \subseteq downloadedParts,
           \A e \in downloadedParts' : e \in downloadedParts \/ e \in record.parts \/ ListedFor(e, target)
    PROVE  Lists'
<1>1. /\ \A h \in Hashes : \A e \in records[h].parts : e.crc \in Nat
      /\ \A e \in downloadedParts : e.crc \in Nat
      /\ \A e \in downloadedParts' : e.crc \in Nat
  BY Basics DEF QuietInv, Base, Inv, TypeOK, CallOK
<1>2. ASSUME NEW e, NEW v, e.crc \in Nat, ListedFor(e, v) PROVE ListedFor(e, v)'
  <2>1. source' \in Nat /\ source \in Nat
    BY Basics DEF QuietInv, Base, Inv, TypeOK, OutsideOK, Versions
  <2>2. e.crc <= source => e.crc <= source'
    BY <1>2, <2>1
  <2> QED BY <1>2, <2>2 DEF ListedFor
<1>3. \A e \in downloadedParts \cup record.parts : ListedFor(e, target)
  BY QuietBasics DEF QuietInv, Lists, record
<1>4. \A e \in downloadedParts' : ListedFor(e, target)'
  BY <1>1, <1>2, <1>3
<1>5. ASSUME NEW v \in Versions, NEW e \in records'[ContentHash[v]].parts PROVE ListedFor(e, v)' /\ v <= target
  <2>1. CASE e \in records[ContentHash[v]].parts
    BY <1>1, <1>2, <2>1, QuietBasics DEF QuietInv, Lists
  <2>2. CASE e \notin records[ContentHash[v]].parts
    <3>1. v = target /\ e \in downloadedParts
      BY <1>5, <2>2, QuietBasics, NoHarm DEF HashesDiffer
    <3> QED BY <1>1, <1>2, <1>3, <3>1, QuietBasics
  <2> QED BY <2>1, <2>2
<1> QED BY <1>4, <1>5 DEF Lists

-----------------------------------------------------------------------------
(* The calling thread, before it starts the threads. *)

LEMMA StartQuiet == ASSUME QuietInv, Recoverable, Start, Base' PROVE QuietInv'
<1> USE DEF Start, disk, threads, outside, Idle
<1>1. /\ target \in Versions /\ source \in Versions /\ target <= source /\ target \in Nat /\ source \in Nat
      /\ target' = source /\ source' = source
  BY QuietBasics
<1>2. \A w \in Workers : workerPc[w] = "done" /\ got[w] = NoData /\ fetchUrl[w] = NoUrl /\ ~Saving(w)
  BY ThreadsIdle
<1>3. Dated'
  BY <1>2 DEF Dated
<1>4. Lists'
  <2>1. downloadedParts' = {}
    BY DEF QuietInv, Quietly
  <2>2. ASSUME NEW v \in Versions, NEW e \in records[ContentHash[v]].parts PROVE ListedFor(e, v)' /\ v <= target'
    <3>1. ListedFor(e, v) /\ v <= target /\ v \in Nat
      BY <2>2 DEF QuietInv, Lists, Versions
    <3> QED BY <1>1, <3>1 DEF ListedFor
  <2> QED BY <2>1, <2>2 DEF Lists
<1>5. Resumable'
  <2>1. CASE target' = target
    <3>1. Resumes(record.parts)
      BY DEF QuietInv, Resumable
    <3>2. Resumes(record.parts)'
      BY <2>1, <3>1 DEF Resumes, InPlace, Left, record
    <3> QED BY <1>2, <2>1, <3>2 DEF QuietInv, Resumable, Saving
  <2>2. CASE target' > target
    <3>1. record'.parts = {}
      <4>1. \A e \in record'.parts : target' <= target
        BY <1>1 DEF QuietInv, Lists, record
      <4> QED BY <1>1, <2>2, <4>1
    <3>2. Resumes(record.parts)'
      BY <3>1 DEF Resumes, InPlace
    <3>3. PartCount[target] <= PartCount[target'] /\ PartCount[target] \in Nat /\ PartCount[target'] \in Nat
      BY <1>1, NoHarm, PartsAreNumbers DEF NeverShrinks
    <3>4. \A p \in Parts : p > PartCount[target'] => p > PartCount[target]
      BY <3>3, PartsAreNumbers
    <3> QED BY <1>2, <3>2, <3>4 DEF QuietInv, Resumable, Saving
  <2> QED BY <1>1, <2>1, <2>2
<1>6. Smooth'
  <2>1. /\ enable /\ control = "none" /\ downloadedParts = {}
        /\ outcomes = [size |-> 0, failure |-> "none"]
    BY DEF QuietInv, Quietly
  <2>2. Cardinality(downloadedParts') = 0
    BY <2>1, FS_EmptySet
  <2>3. outcomes'.size = 0 /\ outcomes'.failure = "none"
    BY <2>1
  <2> QED BY <1>1, <1>2, <2>1, <2>2, <2>3 DEF Smooth
<1>7. Quietly' /\ QuietCallDelivers'
  BY <1>6 DEF Quietly, QuietCallDelivers
<1> QED BY <1>3, <1>4, <1>5, <1>7 DEF QuietInv

(* A list has each part once, so it is as finite as the parts are. *)
LEMMA ListIsFinite ==
    ASSUME NEW list \in SUBSET Entries, \A d, e \in list : d.partNumber = e.partNumber => d = e
    PROVE  IsFiniteSet(list) /\ Cardinality(list) \in Nat
<1> DEFINE number == [e \in list |-> e.partNumber]
<1>1. number \in Injection(list, Parts)
  <2>1. number \in [list -> Parts]
    BY DEF Entries
  <2>2. \A d, e \in list : number[d] = number[e] => d = e
    OBVIOUS
  <2> QED BY <2>1, <2>2, Zenon DEF Injection, IsInjective
<1>2. IsFiniteSet(Parts)
  BY FS_Interval, VersionsAssumption DEF Parts
<1>3. IsFiniteSet(list)
  BY <1>1, <1>2, FS_Injection
<1> QED BY <1>3, FS_CardinalityType

(* The calling thread moves on. *)
LEMMA SmoothStays ==
    ASSUME Smooth, UNCHANGED <<source, target, enable, control, outcomes, downloadedParts, workerPc, fetchUrl, got>>,
           mainPc' \notin {"join", "cancel", "load"},
           mainPc' \in {"control", "verify", "rename", "finish"} => Missing = {}
    PROVE  Smooth'
BY DEF Smooth, Missing

(* What the calling thread writes to the record lists nothing. *)
LEMMA WriteClears ==
    ASSUME QuietInv, NEW r, r.parts = {}, WriteRecord(r), target' = target
    PROVE  /\ \A h \in Hashes : records'[h].parts \subseteq records[h].parts
           /\ record'.parts = {}
<1>1. CASE HasCheckpoint
  <2>1. records' = [records EXCEPT ![ContentHash[target]] = r]
    BY <1>1 DEF WriteRecord
  <2>2. \A h \in Hashes : records'[h] = IF h = ContentHash[target] THEN r ELSE records[h]
    BY <2>1, QuietBasics, Typed
  <2> QED BY <2>2, QuietBasics DEF record
<1>2. CASE ~HasCheckpoint
  BY <1>2, QuietBasics DEF WriteRecord, QuietInv, Base, record
<1> QED BY <1>1, <1>2

LEMMA DropClears ==
    ASSUME QuietInv, Recoverable, DropRecord, target' = target
    PROVE  /\ \A h \in Hashes : records'[h].parts \subseteq records[h].parts
           /\ record'.parts = {} /\ quiet' = quiet
BY NoHarm, WriteClears, Calmly DEF DropRecord, NoRecord

LEMMA EmptyListResumes == ASSUME NEW list, list = {} PROVE Resumes(list)
BY DEF Resumes, InPlace

LEMMA LoadRecordQuiet == ASSUME QuietInv, Recoverable, LoadRecord, Base' PROVE QuietInv'
<1> USE DEF LoadRecord, threads, outside
<1>1. \A w \in Workers : workerPc[w] = "done" /\ got[w] = NoData /\ fetchUrl[w] = NoUrl /\ ~Saving(w)
  BY ThreadsIdle
<1>2. \A h \in Hashes : records'[h].parts \subseteq records[h].parts
  BY DropClears
<1>3. downloadedParts' = record.parts
  BY QuietBasics DEF QuietInv, Base, record
<1>4. Lists'
  BY <1>2, <1>3, ListsStay, QuietBasics DEF Base
<1>5. Dated'
  BY <1>1 DEF QuietInv, Dated
<1>6. Resumable'
  <2>1. Resumes(record.parts)
    BY DEF QuietInv, Resumable
  <2>2. Resumes(downloadedParts)'
    BY <1>3, <2>1 DEF Resumes, InPlace, Left
  <2> QED BY <1>1, <2>2 DEF QuietInv, Resumable, Saving
<1>7. Quietly'
  <2>1. quiet' = quiet
    BY DropClears, Calmly
  <2>2. quiet => Smooth
    BY DEF QuietInv, Quietly
  <2>3. Cardinality(downloadedParts') \in Nat
    <3>1. downloadedParts' \in SUBSET Entries
      BY DEF Base, Inv, TypeOK, CallOK
    <3>2. \A d, e \in downloadedParts' : d.partNumber = e.partNumber => d = e
      BY DEF Base, Inv, PartsAccounted
    <3> QED BY <3>1, <3>2, ListIsFinite
  <2>4. quiet => Smooth'
    BY <1>1, <2>2, <2>3 DEF Smooth
  <2> QED BY <2>1, <2>4 DEF Quietly
<1>8. QuietCallDelivers'
  BY DEF QuietCallDelivers, Idle
<1> QED BY <1>4, <1>5, <1>6, <1>7, <1>8 DEF QuietInv

LEMMA PrepareQuiet == ASSUME QuietInv, Recoverable, PrepareOpen \/ PrepareWrite, Base' PROVE QuietInv'
<1> USE DEF PrepareOpen, PrepareWrite, threads, outside, call
<1>1. Saved(target, {}).parts = {} /\ Damaged.parts = {}
  BY DEF Saved, Damaged, NoRecord
<1>2. \A h \in Hashes : records'[h].parts \subseteq records[h].parts
  BY <1>1, NoHarm, WriteClears
<1>3. Lists'
  BY <1>2, ListsStay, QuietBasics DEF Base
<1>4. Dated'
  BY DEF QuietInv, Dated
<1>5. Resumable'
  BY DEF QuietInv, Resumable, Resumes, InPlace, Left, Saving
<1>6. Quietly'
  <2>1. quiet' = quiet
    BY NoHarm, Calmly
  <2>2. quiet => Smooth
    BY DEF QuietInv, Quietly
  <2>3. quiet => Smooth'
    BY <2>2, SmoothStays
  <2> QED BY <2>1, <2>3 DEF Quietly
<1>7. QuietCallDelivers'
  BY NoHarm DEF QuietCallDelivers, Idle
<1> QED BY <1>3, <1>4, <1>5, <1>6, <1>7 DEF QuietInv

LEMMA PlanQuiet == ASSUME QuietInv, Recoverable, Plan, Base' PROVE QuietInv'
<1> USE DEF Plan, disk, outside
<1>1. \A w \in Workers : workerPc[w] = "done" /\ got[w] = NoData /\ fetchUrl[w] = NoUrl /\ ~Saving(w) /\ workerPc'[w] = "pop"
  BY ThreadsIdle
<1>2. Lists'
  BY ListsStay, QuietBasics DEF Base
<1>3. Dated'
  BY <1>1 DEF QuietInv, Dated
<1>4. Resumable'
  BY <1>1 DEF QuietInv, Resumable, Resumes, InPlace, Left, Saving
<1>5. Quietly'
  <2>1. quiet' = quiet
    BY Calmly
  <2>2. quiet => Smooth
    BY DEF QuietInv, Quietly
  <2>3. Missing' = partsToDownload'
    BY DEF Missing, ToDownload
  <2>4. quiet => Smooth'
    BY <1>1, <2>2, <2>3 DEF Smooth
  <2> QED BY <2>1, <2>4 DEF Quietly
<1>6. QuietCallDelivers'
  BY DEF QuietCallDelivers, Idle
<1> QED BY <1>2, <1>3, <1>4, <1>5, <1>6 DEF QuietInv

-----------------------------------------------------------------------------
(* The download threads. *)

(* Steps that touch neither the disk nor the list. *)
LEMMA QuietThread ==
    ASSUME QuietInv, Base', mainPc = "join",
           UNCHANGED <<source, records, dest, tempFile, mainPc, target, downloadedParts, result>>,
           url' = target,
           \A x \in Workers : fetchUrl'[x] # NoUrl => fetchUrl'[x] = target /\ workerPc'[x] \in WithUrl,
           \A x \in Workers : workerPc'[x] = "assign" => fetchUrl'[x] = target,
           \A x \in Workers : Saving(x)' = Saving(x),
           \A x \in Workers : got'[x] \in {NoData, got[x]},
           quiet' => Smooth'
    PROVE  QuietInv'
<1>1. Dated'
  BY DEF QuietInv, Dated
<1>2. Lists'
  BY DEF QuietInv, Lists, ListedFor
<1>3. Resumable'
  BY DEF QuietInv, Resumable, Resumes, InPlace, Left
<1>4. Quietly' /\ QuietCallDelivers'
  BY DEF Quietly, QuietCallDelivers, Idle
<1> QED BY <1>1, <1>2, <1>3, <1>4 DEF QuietInv

(* A thread moves on with the part it has. *)
LEMMA SmoothRests ==
    ASSUME Smooth, NEW w \in Workers,
           UNCHANGED <<outside, mainPc, target, outcomes, downloadedParts, partsToDownload, part>>,
           \A x \in Workers \ {w} : workerPc'[x] = workerPc[x] /\ fetchUrl'[x] = fetchUrl[x] /\ got'[x] = got[x],
           workerPc'[w] \in {"begin", "get", "publish", "save", "pop"},
           workerPc'[w] = "get" => fetchUrl'[w] = target,
           workerPc'[w] = "publish" => got'[w] # NoData
    PROVE  Smooth'
BY DEF Smooth, Missing, outside

LEMMA SmoothCall == ASSUME QuietInv, mainPc = "join", quiet PROVE Smooth
BY DEF QuietInv, Quietly

LEMMA PopQuiet == ASSUME QuietInv, NEW w \in Workers, Pop(w), Base' PROVE QuietInv'
<1> USE DEF Pop, disk
<1>1. mainPc = "join" /\ url = target /\ quiet' = quiet /\ Inv
  BY ThreadWorks, Calmly DEF QuietInv, Base
<1>2. got[w] = NoData /\ fetchUrl[w] = NoUrl /\ part[w] = NoPart
  BY <1>1 DEF QuietInv, Base, AtWork, Dated, WithUrl, Inv, Holding, Working
<1>3. \A x \in Workers \ {w} : workerPc'[x] = workerPc[x] /\ part'[x] = part[x]
  BY <1>1, GoesTo, Typed
<1>4. workerPc'[w] \in {"done", "check"}
  BY <1>1, GoesTo
<1>5. \A x \in Workers : Saving(x)' = Saving(x)
  BY <1>3, <1>4 DEF Saving
<1>6. \A x \in Workers : /\ fetchUrl'[x] # NoUrl => fetchUrl'[x] = target /\ workerPc'[x] \in WithUrl
                         /\ workerPc'[x] = "assign" => fetchUrl'[x] = target
  BY <1>2, <1>3, <1>4 DEF QuietInv, Dated
<1>7. ASSUME Smooth PROVE Smooth'
  <2>1. Missing' = Missing /\ NoPart \notin Missing
    BY DEF Missing, NoPart
  <2>2. ASSUME partsToDownload = {}, UNCHANGED <<partsToDownload, part>>
        PROVE  Missing' \subseteq partsToDownload' \cup {part'[x] : x \in Workers} /\ partsToDownload' = {}
    BY <1>1, <1>7, <2>1, <2>2 DEF Smooth
  <2>3. ASSUME NEW p \in partsToDownload, partsToDownload' = partsToDownload \ {p},
               part' = [part EXCEPT ![w] = p], Goto(w, "check")
        PROVE  /\ Missing' \subseteq partsToDownload' \cup {part'[x] : x \in Workers}
               /\ (\E x \in Workers : workerPc'[x] = "done") => partsToDownload' = {}
    <3>1. part'[w] = p /\ workerPc'[w] = "check"
      BY <1>1, <2>3, GoesTo, Typed
    <3>2. Missing \subseteq partsToDownload \cup {part[x] : x \in Workers}
      BY <1>1, <1>7 DEF Smooth
    <3>3. \A q \in Missing : q \in {part[x] : x \in Workers} => q \in {part'[x] : x \in Workers}
      BY <1>2, <1>3, <2>1
    <3>4. (\E x \in Workers : workerPc'[x] = "done") => \E x \in Workers : workerPc[x] = "done"
      BY <1>3, <3>1
    <3> QED BY <1>1, <1>7, <2>1, <2>3, <3>1, <3>2, <3>3, <3>4 DEF Smooth
  <2>4. mainPc' = "join" =>
          /\ Missing' \subseteq partsToDownload' \cup {part'[x] : x \in Workers}
          /\ (\E x \in Workers : workerPc'[x] = "done") => partsToDownload' = {}
    BY <2>2, <2>3
  <2> QED BY <1>1, <1>3, <1>4, <1>7, <2>4 DEF Smooth, outside
<1> QED BY <1>1, <1>5, <1>6, <1>7, SmoothCall, QuietThread DEF outside

LEMMA CheckQuiet == ASSUME QuietInv, NEW w \in Workers, Check(w), Base' PROVE QuietInv'
<1> USE DEF Check, disk, call
<1>1. mainPc = "join" /\ url = target /\ quiet' = quiet /\ Inv
  BY ThreadWorks, Calmly DEF QuietInv, Base
<1>2. got[w] = NoData /\ fetchUrl[w] = NoUrl
  BY DEF QuietInv, Base, AtWork, Dated, WithUrl
<1>3. \A x \in Workers \ {w} : workerPc'[x] = workerPc[x]
  BY <1>1, GoesTo
<1>4. workerPc'[w] \in {"done", "begin"}
  BY <1>1, GoesTo
<1>5. \A x \in Workers : Saving(x)' = Saving(x)
  BY <1>3, <1>4 DEF Saving
<1>6. \A x \in Workers : /\ fetchUrl'[x] # NoUrl => fetchUrl'[x] = target /\ workerPc'[x] \in WithUrl
                         /\ workerPc'[x] = "assign" => fetchUrl'[x] = target
  BY <1>2, <1>3, <1>4 DEF QuietInv, Dated
<1>7. ASSUME Smooth PROVE Smooth'
  <2>1. ~Quitting
    BY <1>7 DEF Smooth, Quitting
  <2>2. workerPc'[w] = "begin" /\ UNCHANGED part
    BY <1>1, <2>1, GoesTo
  <2> QED BY <1>3, <1>7, <2>2, SmoothRests
<1> QED BY <1>1, <1>5, <1>6, <1>7, SmoothCall, QuietThread DEF outside

LEMMA ReadUrlQuiet == ASSUME QuietInv, NEW w \in Workers, ReadUrl(w), Base' PROVE QuietInv'
<1> USE DEF ReadUrl, disk, call
<1>1. mainPc = "join" /\ url = target /\ quiet' = quiet /\ Inv
  BY ThreadWorks, Calmly DEF QuietInv, Base
<1>2. \A x \in Workers \ {w} : workerPc'[x] = workerPc[x] /\ fetchUrl'[x] = fetchUrl[x]
  BY <1>1, GoesTo, Typed
<1>3. workerPc'[w] \in {"get", "getAgain"} /\ (workerPc[w] = "begin" => workerPc'[w] = "get")
  BY <1>1, GoesTo
<1>4. \A x \in Workers : Saving(x)' = Saving(x)
  BY <1>2, <1>3 DEF Saving
<1>5. fetchUrl'[w] \in {target, NoUrl}
  <2>1. \A x \in Workers : workerPc[x] = "assign" => fetchUrl[x] = target
    BY DEF QuietInv, Dated
  <2> QED BY <1>1, <2>1, Typed
<1>6. \A x \in Workers : /\ fetchUrl'[x] # NoUrl => fetchUrl'[x] = target /\ workerPc'[x] \in WithUrl
                         /\ workerPc'[x] = "assign" => fetchUrl'[x] = target
  BY <1>2, <1>3, <1>5 DEF QuietInv, Dated, WithUrl
<1>7. ASSUME Smooth PROVE Smooth'
  <2>1. workerPc[w] = "begin" /\ \A x \in Workers : workerPc[x] # "assign"
    BY <1>7 DEF Smooth
  <2>2. fetchUrl'[w] = target
    BY <1>1, <2>1, Typed
  <2> QED BY <1>2, <1>3, <1>7, <2>1, <2>2, SmoothRests
<1> QED BY <1>1, <1>4, <1>6, <1>7, SmoothCall, QuietThread DEF outside

LEMMA GetDeniedQuiet == ASSUME QuietInv, NEW w \in Workers, GetDenied(w), Base' PROVE QuietInv'
<1> USE DEF GetDenied, disk, call
<1>1. mainPc = "join" /\ url = target /\ quiet' = FALSE /\ Inv
  BY ThreadWorks, Loud DEF QuietInv, Base
<1>2. workerPc'[w] = "refresh" /\ \A x \in Workers \ {w} : workerPc'[x] = workerPc[x]
  BY <1>1, GoesTo
<1>3. \A x \in Workers : Saving(x)' = Saving(x)
  BY <1>2 DEF Saving
<1>4. \A x \in Workers : /\ fetchUrl'[x] # NoUrl => fetchUrl'[x] = target /\ workerPc'[x] \in WithUrl
                         /\ workerPc'[x] = "assign" => fetchUrl'[x] = target
  BY <1>2 DEF QuietInv, Dated, WithUrl
<1> QED BY <1>1, <1>3, <1>4, QuietThread DEF outside

(* Of calls that met no failure no thread asks for another url. *)
LEMMA NoRefresh ==
    ASSUME QuietInv, NEW w \in Workers, workerPc[w] \in {"refresh", "refreshing", "assign"}
    PROVE  ~quiet /\ mainPc = "join" /\ url = target /\ Inv
BY ThreadWorks, SmoothCall DEF Smooth, QuietInv, Base

LEMMA RefreshBeginQuiet == ASSUME QuietInv, NEW w \in Workers, RefreshBegin(w), Base' PROVE QuietInv'
<1> USE DEF RefreshBegin, disk
<1>1. mainPc = "join" /\ url = target /\ ~quiet /\ quiet' = quiet /\ Inv
  BY NoRefresh, Calmly
<1>2. workerPc'[w] = "refreshing" /\ \A x \in Workers \ {w} : workerPc'[x] = workerPc[x]
  BY <1>1, GoesTo
<1>3. \A x \in Workers : Saving(x)' = Saving(x)
  BY <1>2 DEF Saving
<1>4. \A x \in Workers : /\ fetchUrl'[x] # NoUrl => fetchUrl'[x] = target /\ workerPc'[x] \in WithUrl
                         /\ workerPc'[x] = "assign" => fetchUrl'[x] = target
  BY <1>2 DEF QuietInv, Dated, WithUrl
<1> QED BY <1>1, <1>3, <1>4, QuietThread DEF outside

LEMMA RefreshFailsQuiet == ASSUME QuietInv, NEW w \in Workers, RefreshFails(w), Base' PROVE QuietInv'
<1> USE DEF RefreshFails, disk, EndOfRound
<1>1. mainPc = "join" /\ url = target /\ quiet' = FALSE /\ Inv
  <2>1. ~quiet /\ mainPc = "join" /\ url = target /\ Inv
    BY NoRefresh
  <2> QED BY <2>1, Loud, Calmly DEF QuietInv, Base, Inv, TypeOK, BudgetOK
<1>2. got'[w] = NoData /\ fetchUrl'[w] = NoUrl /\ workerPc'[w] = "done"
  BY <1>1, GoesTo, Typed
<1>3. \A x \in Workers \ {w} : workerPc'[x] = workerPc[x] /\ got'[x] = got[x] /\ fetchUrl'[x] = fetchUrl[x]
  BY <1>1, GoesTo, Typed
<1>4. \A x \in Workers : Saving(x)' = Saving(x)
  BY <1>2, <1>3 DEF Saving
<1>5. \A x \in Workers : /\ fetchUrl'[x] # NoUrl => fetchUrl'[x] = target /\ workerPc'[x] \in WithUrl
                         /\ workerPc'[x] = "assign" => fetchUrl'[x] = target
  BY <1>2, <1>3 DEF QuietInv, Dated
<1>6. \A x \in Workers : got'[x] \in {NoData, got[x]}
  BY <1>2, <1>3
<1> QED BY <1>1, <1>4, <1>5, <1>6, QuietThread DEF outside

LEMMA RefreshSucceedsQuiet ==
    ASSUME QuietInv, Recoverable, NEW w \in Workers, RefreshSucceeds(w), Base' PROVE QuietInv'
<1> USE DEF RefreshSucceeds, disk, call
<1>1. mainPc = "join" /\ url = target /\ ~quiet /\ quiet' = quiet /\ Inv
  BY NoRefresh, Calmly
<1>2. \A x \in Workers \ {w} : workerPc'[x] = workerPc[x] /\ fetchUrl'[x] = fetchUrl[x]
  BY <1>1, GoesTo, Typed
<1>3. workerPc'[w] = "assign" /\ fetchUrl'[w] = target
  <2>1. source = target
    BY QuietBasics, NoHarm DEF HashesDiffer, SameFile
  <2> QED BY <1>1, <2>1, GoesTo, Typed
<1>4. \A x \in Workers : Saving(x)' = Saving(x)
  BY <1>2, <1>3 DEF Saving
<1>5. \A x \in Workers : /\ fetchUrl'[x] # NoUrl => fetchUrl'[x] = target /\ workerPc'[x] \in WithUrl
                         /\ workerPc'[x] = "assign" => fetchUrl'[x] = target
  BY <1>2, <1>3 DEF QuietInv, Dated, WithUrl
<1> QED BY <1>1, <1>4, <1>5, QuietThread DEF outside

LEMMA AssignUrlQuiet == ASSUME QuietInv, NEW w \in Workers, AssignUrl(w), Base' PROVE QuietInv'
<1> USE DEF AssignUrl, disk
<1>1. mainPc = "join" /\ ~quiet /\ quiet' = quiet /\ Inv /\ fetchUrl[w] = target
  BY NoRefresh, Calmly DEF QuietInv, Dated
<1>2. workerPc'[w] = "beginAgain" /\ \A x \in Workers \ {w} : workerPc'[x] = workerPc[x]
  BY <1>1, GoesTo
<1>3. \A x \in Workers : Saving(x)' = Saving(x)
  BY <1>2 DEF Saving
<1>4. \A x \in Workers : /\ fetchUrl'[x] # NoUrl => fetchUrl'[x] = target /\ workerPc'[x] \in WithUrl
                         /\ workerPc'[x] = "assign" => fetchUrl'[x] = target
  BY <1>1, <1>2 DEF QuietInv, Dated, WithUrl
<1> QED BY <1>1, <1>3, <1>4, QuietThread DEF outside

(* Bytes come in: they are those of the version asked for or, with a CRC, of a newer one, and no listed part changes. *)
LEMMA BytesOfQuiet ==
    ASSUME QuietInv, Base', NEW w \in Workers, Getting(w), NEW b, NEW d,
           tempFile' = [tempFile EXCEPT ![part[w]] = b],
           UNCHANGED <<outside, records, dest, mainPc, call, part, fetchUrl, result>>,
           Goto(w, "publish"),
           got' = [got EXCEPT ![w] = d],
           d # NoData => target <= d /\ d <= source /\ (~HasCrc => d = target),
           quiet' => quiet /\ d # NoData
    PROVE  QuietInv'
<1> USE DEF outside, call
<1>1. Inv /\ part[w] # NoPart /\ part[w] \in Parts /\ workerPc[w] # "done"
  BY WorkerFacts DEF QuietInv, Base, Inv, Holding, Working, Getting
<1>2. mainPc = "join" /\ InPlace(downloadedParts) /\ part[w] \in 1 .. PartCount[target]
  BY <1>1, NotGone
<1>3. \A p \in Parts : p # part[w] => tempFile'[p] = tempFile[p]
  BY <1>1, Typed
<1>4. InPlace(downloadedParts)'
  <2>1. ASSUME NEW e \in downloadedParts PROVE tempFile'[e.partNumber] = tempFile[e.partNumber]
    <3>1. e.partNumber # part[w] /\ e.partNumber \in Parts
      BY <1>1, <2>1, Basics DEF Inv, PartsAccounted, Numbers
    <3> QED BY <1>3, <3>1
  <2> QED BY <1>2, <2>1 DEF InPlace
<1>5. workerPc'[w] = "publish" /\ \A x \in Workers \ {w} : workerPc'[x] = workerPc[x] /\ got'[x] = got[x]
  BY <1>1, GoesTo, Typed
<1>6. got'[w] = d
  BY <1>1, Typed
<1>7. Resumable'
  <2>1. \A p \in Parts : p > PartCount[target] => tempFile'[p] = Hole
    BY <1>2, <1>3, QuietBasics DEF QuietInv, Resumable
  <2> QED BY <1>2, <1>4, <2>1 DEF Resumable, Resumes
<1>8. Dated'
  BY <1>5, <1>6 DEF QuietInv, Dated, WithUrl
<1>9. Lists'
  BY DEF QuietInv, Lists, ListedFor
<1>10. Quietly'
  <2>1. ASSUME quiet' PROVE Smooth'
    <3>1. Smooth /\ d # NoData
      BY <1>2, <2>1, SmoothCall
    <3> QED BY <1>5, <1>6, <3>1, SmoothRests
  <2> QED BY <1>2, <2>1 DEF Quietly
<1>11. QuietCallDelivers'
  BY <1>2 DEF QuietCallDelivers, Idle
<1> QED BY <1>7, <1>8, <1>9, <1>10, <1>11 DEF QuietInv

(* What a GET brings is of the version asked for or, with a CRC, of a newer one. *)
LEMMA ServedIsNew ==
    ASSUME QuietInv, Recoverable, NEW w \in Workers, Getting(w), CanServe(w)
    PROVE  target <= Served(w) /\ Served(w) <= source /\ (~HasCrc => Served(w) = target) /\ Served(w) # NoData
<1>1. fetchUrl[w] = target /\ target \in Nat /\ source \in Nat /\ target <= source /\ target # 0
  BY QuietBasics DEF QuietInv, Dated, CanServe, NoUrl
<1>2. CASE UrlPinsVersion
  BY <1>1, <1>2 DEF Served, NoData
<1>3. CASE ~UrlPinsVersion
  BY <1>1, <1>3, NoHarm DEF Served, NoData
<1> QED BY <1>2, <1>3

LEMMA GetSucceedsQuiet ==
    ASSUME QuietInv, Recoverable, NEW w \in Workers, GetSucceeds(w), Base' PROVE QuietInv'
<1> USE DEF GetSucceeds
<1>1. tempFile' = [tempFile EXCEPT ![part[w]] = Served(w)] /\ quiet' = quiet
  BY NoHarm, Calmly
<1> QED BY <1>1, ServedIsNew, BytesOfQuiet

LEMMA GetFailsQuiet ==
    ASSUME QuietInv, Recoverable, NEW w \in Workers, GetFails(w), Base' PROVE QuietInv'
<1> USE DEF GetFails
<1>1. ~quiet'
  <2>1. CASE Quitting \/ ~CanServe(w)
    <3>1. quiet' = quiet
      BY <2>1, Calmly
    <3>2. ASSUME quiet PROVE FALSE
      <4>1. Inv /\ mainPc = "join" /\ part[w] # NoPart
        BY ThreadWorks DEF QuietInv, Base, Inv, Holding, Working, Getting
      <4>2. Smooth /\ part[w] <= PartCount[target] /\ source = target
        BY <3>2, <4>1, SmoothCall, NotGone, QuietBasics DEF Smooth
      <4>3. ~Quitting /\ fetchUrl[w] = target
        BY <4>2 DEF Smooth, Quitting, Getting
      <4>4. Served(w) = target /\ fetchUrl[w] # NoUrl
        BY <4>2, <4>3, QuietBasics DEF Served
      <4>5. CanServe(w)
        BY <4>2, <4>4 DEF CanServe
      <4> QED BY <2>1, <4>3, <4>5
    <3> QED BY <3>1, <3>2
  <2>2. CASE Event("get")
    BY <2>2, Loud
  <2> QED BY <2>1, <2>2
<1>2. part[w] \in Parts /\ Inv
  BY WorkerFacts DEF QuietInv, Base, Working, Getting
<1>3. PICK b : tempFile' = [tempFile EXCEPT ![part[w]] = b]
  <2>1. CASE UNCHANGED tempFile
    <3>1. tempFile' = [tempFile EXCEPT ![part[w]] = tempFile[part[w]]]
      BY <1>2, <2>1, Typed
    <3> QED BY <3>1
  <2>2. CASE tempFile' = [tempFile EXCEPT ![part[w]] = Partly(@, Served(w))]
    BY <2>2
  <2> QED BY <2>1, <2>2
<1> QED BY <1>1, <1>3, BytesOfQuiet

LEMMA NumberOfParts ==
    ASSUME Inv PROVE IsFiniteSet(downloadedParts) /\ Cardinality(downloadedParts) \in Nat
<1>1. downloadedParts \in SUBSET Entries
  BY DEF Inv, TypeOK, CallOK
<1>2. \A d, e \in downloadedParts : d.partNumber = e.partNumber => d = e
  BY DEF Inv, PartsAccounted
<1> QED BY <1>1, <1>2, ListIsFinite

(* A part that arrived is counted, and counted once. *)
LEMMA OneMorePart ==
    ASSUME Inv, NEW e, e.partNumber \notin Numbers(downloadedParts),
           downloadedParts' = downloadedParts \cup {e}
    PROVE  Cardinality(downloadedParts') = Cardinality(downloadedParts) + 1
<1>1. e \notin downloadedParts
  BY DEF Numbers
<1> QED BY <1>1, NumberOfParts, FS_AddElement

LEMMA PublishQuiet == ASSUME QuietInv, Recoverable, NEW w \in Workers, Publish(w), Base' PROVE QuietInv'
<1> USE DEF Publish, disk, EndOfRound
<1>1. mainPc = "join" /\ url = target /\ quiet' = quiet /\ Inv
  BY ThreadWorks, Calmly DEF QuietInv, Base
<1>2. got'[w] = NoData /\ part'[w] = NoPart /\ fetchUrl'[w] = NoUrl
  BY <1>1, Typed
<1>3. \A x \in Workers \ {w} : /\ workerPc'[x] = workerPc[x] /\ part'[x] = part[x]
                               /\ got'[x] = got[x] /\ fetchUrl'[x] = fetchUrl[x]
  BY <1>1, GoesTo, Typed
<1>4. workerPc'[w] \in {"pop", "open"}
  BY <1>1, GoesTo
<1>5. \A x \in Workers : /\ fetchUrl'[x] # NoUrl => fetchUrl'[x] = target /\ workerPc'[x] \in WithUrl
                         /\ workerPc'[x] = "assign" => fetchUrl'[x] = target
  BY <1>2, <1>3, <1>4 DEF QuietInv, Dated
<1>6. CASE got[w] = NoData
  <2>1. \A x \in Workers : Saving(x)' = Saving(x)
    BY <1>1, <1>3, <1>6, GoesTo DEF Saving
  <2>2. ~quiet'
    BY <1>1, <1>6, SmoothCall DEF Smooth
  <2>3. \A x \in Workers : got'[x] \in {NoData, got[x]}
    BY <1>2, <1>3
  <2> QED BY <1>1, <1>5, <1>6, <2>1, <2>2, <2>3, QuietThread DEF outside
<1>7. CASE got[w] # NoData
  <2>1. downloadedParts' = downloadedParts \cup {Entry(part[w], got[w])}
    BY <1>7
  <2>2. part[w] # NoPart /\ part[w] \notin Numbers(downloadedParts)
    BY <1>1 DEF Inv, Holding, Working, PartsAccounted
  <2>3. InPlace(downloadedParts) /\ part[w] \in 1 .. PartCount[target]
    BY <2>2, NotGone
  <2>4. /\ target <= got[w] /\ got[w] <= source /\ (~HasCrc => got[w] = target)
        /\ tempFile[part[w]] = got[w]
    BY <1>7 DEF QuietInv, Base, AtWork, Dated
  <2>5. Entry(part[w], got[w]).partNumber = part[w] /\ Entry(part[w], got[w]).crc = IF HasCrc THEN got[w] ELSE NoCrc
    BY DEF Entry
  <2>6. InPlace(downloadedParts)'
    BY <2>1, <2>3, <2>4, <2>5 DEF InPlace
  <2>7. Resumable'
    BY <1>1, <2>6 DEF QuietInv, Resumable, Resumes
  <2>8. Lists'
    <3>1. ListedFor(Entry(part[w], got[w]), target)
      BY <2>3, <2>4, <2>5, QuietBasics DEF ListedFor
    <3>2. \A e \in downloadedParts' : e \in downloadedParts \/ ListedFor(e, target)
      BY <2>1, <3>1
    <3>3. \A h \in Hashes : records'[h].parts \subseteq records[h].parts
      OBVIOUS
    <3>4. Inv' /\ target' = target /\ source <= source'
      BY QuietBasics DEF Base, outside
    <3> QED BY <3>2, <3>3, <3>4, ListsStay
  <2>9. Dated'
    BY <1>1, <1>2, <1>3, <1>5 DEF QuietInv, Dated, outside
  <2>10. ASSUME Smooth PROVE Smooth'
    <3>1. outcomes'.size = outcomes.size + 1 /\ outcomes'.failure = outcomes.failure
      BY <1>7 DEF PushOutcome
    <3>2. Cardinality(downloadedParts') = Cardinality(downloadedParts) + 1
      BY <1>1, <2>1, <2>2, <2>5, OneMorePart
    <3>3. outcomes'.size <= Cardinality(downloadedParts')
      <4>1. outcomes.size \in Nat /\ Cardinality(downloadedParts) \in Nat
        BY <1>1, NumberOfParts DEF Inv, TypeOK, CallOK
      <4> QED BY <2>10, <3>1, <3>2, <4>1 DEF Smooth
    <3>4. Missing' \subseteq Missing \ {part[w]}
      BY <2>1, <2>5 DEF Missing, Numbers
    <3>5. Missing \subseteq partsToDownload \cup {part[x] : x \in Workers}
      BY <1>1, <2>10 DEF Smooth
    <3>6. Missing' \subseteq partsToDownload' \cup {part'[x] : x \in Workers}
      BY <1>3, <3>4, <3>5
    <3>7. (\E x \in Workers : workerPc'[x] = "done") => partsToDownload' = {}
      BY <1>1, <1>3, <1>4, <2>10 DEF Smooth
    <3>8. \A x \in Workers :
              /\ workerPc'[x] \notin {"refresh", "refreshing", "assign", "beginAgain", "getAgain"}
              /\ workerPc'[x] = "get" => fetchUrl'[x] = target'
              /\ workerPc'[x] = "publish" => got'[x] # NoData
      BY <1>3, <1>4, <2>10 DEF Smooth
    <3>9. source' = target' /\ enable' /\ control' = "none" /\ outcomes'.failure = "none" /\ mainPc' = "join"
      BY <1>1, <2>10, <3>1 DEF Smooth, outside
    <3> QED BY <3>3, <3>6, <3>7, <3>8, <3>9 DEF Smooth
  <2>11. Quietly' /\ QuietCallDelivers'
    BY <1>1, <2>10, SmoothCall DEF Quietly, QuietCallDelivers, Idle
  <2> QED BY <2>7, <2>8, <2>9, <2>11 DEF QuietInv
<1> QED BY <1>6, <1>7

LEMMA SaveQuiet ==
    ASSUME QuietInv, Recoverable, NEW w \in Workers, SaveOpen(w) \/ SaveWrite(w), Base' PROVE QuietInv'
<1> USE DEF SaveOpen, SaveWrite
<1>1. mainPc = "join" /\ url = target /\ Inv
  BY ThreadWorks DEF QuietInv, Base
<1>2. Saving(w) /\ got[w] = NoData /\ fetchUrl[w] = NoUrl
  BY DEF QuietInv, Base, AtWork, Dated, Saving, WithUrl
<1>3. PICK r : WriteRecord(r) /\ r.parts \subseteq downloadedParts
  BY NoHarm DEF Damaged, NoRecord, Saved
<1>4. \A h \in Hashes : \/ records'[h].parts \subseteq records[h].parts
                        \/ h = ContentHash[target] /\ records'[h].parts \subseteq downloadedParts
  <2>1. CASE HasCheckpoint
    <3>1. records' = [records EXCEPT ![ContentHash[target]] = r]
      BY <1>3, <2>1 DEF WriteRecord
    <3>2. \A h \in Hashes : records'[h] = IF h = ContentHash[target] THEN r ELSE records[h]
      BY <1>1, <3>1, QuietBasics, Typed
    <3> QED BY <1>3, <3>2
  <2>2. CASE ~HasCheckpoint
    BY <1>3, <2>2 DEF WriteRecord
  <2> QED BY <2>1, <2>2
<1>5. Lists'
  <2>1. Inv' /\ target' = target /\ source <= source'
    BY QuietBasics DEF Base, outside
  <2> QED BY <1>4, <2>1, ListsStay
<1>6. workerPc'[w] \in {"save", "pop"} /\ \A x \in Workers \ {w} : workerPc'[x] = workerPc[x]
  BY <1>1, NoHarm, GoesTo
<1>7. Dated'
  BY <1>1, <1>2, <1>6 DEF QuietInv, Dated, outside
<1>8. Resumable'
  <2>1. InPlace(downloadedParts)
    BY <1>2 DEF QuietInv, Resumable
  <2>2. InPlace(downloadedParts)'
    BY <2>1 DEF InPlace
  <2> QED BY <1>1, <2>2 DEF QuietInv, Resumable, Resumes
<1>9. quiet' = quiet
  BY NoHarm, Calmly
<1>10. ASSUME Smooth PROVE Smooth'
  BY <1>6, <1>10, SmoothRests
<1>11. Quietly' /\ QuietCallDelivers'
  BY <1>1, <1>9, <1>10, SmoothCall DEF Quietly, QuietCallDelivers, Idle
<1> QED BY <1>5, <1>7, <1>8, <1>11 DEF QuietInv

LEMMA WorkerQuiet ==
    ASSUME QuietInv, Recoverable, NEW w \in Workers, Worker(w), Base' PROVE QuietInv'
BY PopQuiet, CheckQuiet, ReadUrlQuiet, GetSucceedsQuiet, GetFailsQuiet, GetDeniedQuiet,
   RefreshBeginQuiet, RefreshFailsQuiet, RefreshSucceedsQuiet, AssignUrlQuiet,
   PublishQuiet, SaveQuiet, Zenon
DEF Worker

-----------------------------------------------------------------------------
(* The calling thread, after the threads are joined, and the environment. *)

(* What the next call would load can be resumed from. *)
LEMMA RecordResumes == ASSUME QuietInv PROVE Resumes(record.parts)
<1>1. CASE mainPc \in {"idle", "load"}
  BY <1>1 DEF QuietInv, Resumable
<1>2. CASE mainPc \notin {"idle", "load"} /\ record.parts \in {{}, downloadedParts}
  BY <1>2, EmptyListResumes DEF QuietInv, Resumable
<1>3. CASE \E w \in Workers : Saving(w)
  <2>1. InPlace(downloadedParts) /\ record.parts \subseteq downloadedParts
    BY <1>3 DEF QuietInv, Resumable, Base
  <2> QED BY <2>1 DEF Resumes, InPlace
<1> QED BY <1>1, <1>2, <1>3 DEF QuietInv, Base

(* A call ends: it met a failure, returns to nobody, or leaves the file in place. *)
LEMMA QuietEnd ==
    ASSUME QuietInv, Recoverable, Base', NEW code, Return(code),
           \A h \in Hashes : records'[h].parts \subseteq records[h].parts,
           Resumes(record.parts)',
           \A p \in Parts : p > PartCount[target] => tempFile'[p] = Hole,
           \/ ~quiet' \/ code = "none" \/ dest' = Content(target)
    PROVE  QuietInv'
<1> USE DEF Return, Forget
<1>1. Lists'
  <2>1. downloadedParts' = {} /\ Inv' /\ target' = target /\ source <= source'
    BY QuietBasics DEF Base
  <2> QED BY <2>1, ListsStay
<1>2. \A w \in Workers : workerPc'[w] = "done" /\ fetchUrl'[w] = NoUrl /\ got'[w] = NoData
  OBVIOUS
<1>3. Dated'
  BY <1>2 DEF Dated
<1>4. Resumable'
  BY <1>2 DEF Resumable, Saving
<1>5. Quietly' /\ QuietCallDelivers'
  BY DEF Quietly, QuietCallDelivers
<1> QED BY <1>1, <1>3, <1>4, <1>5 DEF QuietInv

LEMMA QuietEndAsItIs ==
    ASSUME QuietInv, Recoverable, Base', NEW code, Return(code), UNCHANGED disk,
           \/ ~quiet' \/ code = "none" \/ dest = Content(target)
    PROVE  QuietInv'
<1>1. UNCHANGED <<records, tempFile, dest, target>>
  BY DEF disk, Return, Forget
<1>2. Resumes(record.parts)'
  BY <1>1, RecordResumes DEF Resumes, InPlace, Left, record
<1>3. \A p \in Parts : p > PartCount[target] => tempFile'[p] = Hole
  BY <1>1 DEF QuietInv, Resumable
<1> QED BY <1>1, <1>2, <1>3, QuietEnd

LEMMA QuietEndWithoutRecord ==
    ASSUME QuietInv, Recoverable, Base', NEW code, Return(code), DropRecord, UNCHANGED <<tempFile, dest>>,
           \/ ~quiet \/ dest = Content(target)
    PROVE  QuietInv'
<1>1. /\ \A h \in Hashes : records'[h].parts \subseteq records[h].parts
      /\ record'.parts = {} /\ quiet' = quiet
  BY DropClears DEF Return, Forget
<1>2. Resumes(record.parts)'
  BY <1>1 DEF Resumes, InPlace
<1>3. \A p \in Parts : p > PartCount[target] => tempFile'[p] = Hole
  BY DEF QuietInv, Resumable
<1> QED BY <1>1, <1>2, <1>3, QuietEnd

(* It goes on. *)
LEMMA QuietGoesOn ==
    ASSUME QuietInv, Base', mainPc \notin {"idle", "load"}, mainPc' \notin {"idle", "load"},
           UNCHANGED <<outside, disk, call, result, threads>>, quiet' => Smooth'
    PROVE  QuietInv'
<1> USE DEF outside, disk, call, threads
<1>1. Dated' /\ Lists'
  BY DEF QuietInv, Dated, Lists, ListedFor
<1>2. Resumable'
  BY DEF QuietInv, Resumable, Resumes, InPlace, Left, Saving
<1>3. Quietly' /\ QuietCallDelivers'
  BY DEF Quietly, QuietCallDelivers, Idle
<1> QED BY <1>1, <1>2, <1>3 DEF QuietInv

LEMMA SmoothNow == ASSUME QuietInv, mainPc # "idle", quiet PROVE Smooth
BY DEF QuietInv, Quietly

LEMMA CheckEnableQuiet == ASSUME QuietInv, Recoverable, CheckEnable, Base' PROVE QuietInv'
<1> USE DEF CheckEnable
<1>1. quiet' = quiet /\ (quiet => Smooth)
  BY Calmly, SmoothNow
<1>2. CASE enable
  <2>1. mainPc' = "control" /\ UNCHANGED <<outside, disk, call, result, threads>>
    BY <1>2
  <2>2. ASSUME Smooth PROVE Missing = {}
    <3>1. partsToDownload = {} /\ Missing \subseteq partsToDownload \cup {part[w] : w \in Workers}
      BY <2>2, BoundsAssumption DEF Smooth
    <3>2. \A w \in Workers : part[w] = NoPart
      BY DEF QuietInv, Base, Inv, Holding, Working
    <3>3. NoPart \notin Missing
      BY DEF Missing, NoPart
    <3> QED BY <3>1, <3>2, <3>3
  <2>3. ASSUME Smooth PROVE Smooth'
    BY <2>1, <2>2, <2>3, SmoothStays DEF outside, call, threads
  <2> QED BY <1>1, <2>1, <2>3, QuietGoesOn
<1>3. CASE ~enable
  <2>1. ~quiet /\ Return("disabled")
    BY <1>1, <1>3 DEF Smooth
  <2> QED BY <1>1, <2>1, QuietEndAsItIs
<1> QED BY <1>2, <1>3

LEMMA CheckControlQuiet == ASSUME QuietInv, Recoverable, CheckControl, Base' PROVE QuietInv'
<1> USE DEF CheckControl
<1>1. quiet => Smooth
  BY SmoothNow
<1>2. CASE /\ control = "none" /\ mainPc' = "verify"
           /\ UNCHANGED <<outside, call, result, threads, records>> /\ Calm
  <2>1. ASSUME Smooth PROVE Smooth'
    <3>1. Missing = {}
      BY <2>1 DEF Smooth
    <3> QED BY <1>2, <2>1, <3>1, SmoothStays DEF outside, call, threads
  <2> QED BY <1>1, <1>2, <2>1, Calmly, QuietGoesOn DEF disk
<1>3. CASE control = "stop" /\ Return("stopped") /\ UNCHANGED records /\ Calm
  <2>1. ~quiet
    BY <1>1, <1>3 DEF Smooth
  <2> QED BY <1>3, <2>1, Calmly, QuietEndAsItIs DEF disk
<1>4. CASE /\ control = "cancel" /\ DropRecord /\ mainPc' = "cancel"
           /\ UNCHANGED <<outside, call, result, threads>>
  <2> USE <1>4 DEF outside, call, threads
  <2>1. ~quiet
    BY <1>1 DEF Smooth
  <2>2. \A h \in Hashes : records'[h].parts \subseteq records[h].parts
    BY DropClears
  <2>3. quiet' = quiet
    BY DropClears
  <2>4. Lists'
    <3>1. Inv' /\ target' = target /\ source <= source' /\ downloadedParts' = downloadedParts
      BY QuietBasics DEF Base
    <3> QED BY <2>2, <3>1, ListsStay
  <2>5. Dated'
    BY DEF QuietInv, Dated
  <2>6. Resumable'
    BY DEF QuietInv, Resumable, Resumes, InPlace, Left, Saving
  <2>7. Quietly' /\ QuietCallDelivers'
    BY <2>1, <2>3 DEF Quietly, QuietCallDelivers, Idle
  <2> QED BY <2>4, <2>5, <2>6, <2>7 DEF QuietInv
<1> QED BY <1>2, <1>3, <1>4

LEMMA RemoveTempFileQuiet == ASSUME QuietInv, Recoverable, RemoveTempFile, Base' PROVE QuietInv'
<1> USE DEF RemoveTempFile
<1>1. ~quiet /\ record.parts = {}
  BY SmoothNow DEF Smooth, QuietInv, Base
<1>2. tempFile' = EmptyFile /\ quiet' = quiet
  BY NoHarm, Calmly
<1>3. records' = records /\ record' = record
  BY DEF record, Return, Forget
<1>4. Resumes(record.parts)'
  BY <1>1, <1>3 DEF Resumes, InPlace
<1>5. \A p \in Parts : p > PartCount[target] => tempFile'[p] = Hole
  BY <1>2 DEF EmptyFile
<1> QED BY <1>1, <1>2, <1>3, <1>4, <1>5, QuietEnd

(* A call that met no failure has nothing to complain of, unless the file is already in place. *)
LEMMA NothingToRejectYet ==
    ASSUME QuietInv, mainPc = "verify", Smooth, InPlace(downloadedParts)
    PROVE  Verdict = "none"
<1>1. Missing = {} /\ source = target /\ outcomes.failure = "none" /\ outcomes.size <= Cardinality(downloadedParts)
  BY DEF Smooth
<1>2. \A e \in downloadedParts : /\ e \in Entries /\ e.partNumber \in 1 .. PartCount[target]
                                 /\ IF HasCrc THEN e.crc = target ELSE e.crc = NoCrc
  <2>1. \A e \in downloadedParts : /\ e \in Entries /\ e.partNumber \in Nat /\ e.partNumber # 0 /\ e.crc \in Nat
                                   /\ ListedFor(e, target)
    BY Basics, PartsAreNumbers DEF QuietInv, Base, Lists
  <2> QED BY <1>1, <2>1, QuietBasics DEF ListedFor
<1>3. \A p \in 1 .. PartCount[target] : \E e \in downloadedParts : e.partNumber = p
  BY <1>1 DEF Missing, Numbers
<1>4. SizeMatches
  <2>1. PartCount[target] \in 1 .. PartCount[target]
    BY QuietBasics, PartsAreNumbers
  <2>2. PICK e \in downloadedParts : e.partNumber = PartCount[target]
    BY <1>3, <2>1
  <2>3. tempFile[PartCount[target]] = target
    BY <1>2, <2>2 DEF InPlace
  <2>4. target \notin {Hole, Cut}
    BY QuietBasics DEF Hole, Cut, NoUrl
  <2> QED BY <2>3, <2>4 DEF SizeMatches, QuietInv, Resumable
<1>5. HasCrc => CrcMatches
  <2> HAVE HasCrc
  <2>1. \A e \in downloadedParts : e = Entry(e.partNumber, target)
    BY <1>2 DEF Entry, Entries
  <2>2. downloadedParts \subseteq {Entry(p, target) : p \in 1 .. PartCount[target]}
    BY <1>2, <2>1
  <2>3. {Entry(p, target) : p \in 1 .. PartCount[target]} \subseteq downloadedParts
    BY <1>3, <2>1
  <2> QED BY <2>2, <2>3 DEF CrcMatches
<1>6. ~(Cardinality(downloadedParts) < outcomes.size)
  BY <1>1, NumberOfParts DEF QuietInv, Base, Inv, TypeOK, CallOK
<1> QED BY <1>1, <1>4, <1>5, <1>6 DEF Verdict

LEMMA RejectQuiet == ASSUME QuietInv, Recoverable, Reject, Base' PROVE QuietInv'
<1> USE DEF Reject
<1>1. ~quiet \/ dest = Content(target)
  <2> SUFFICES ASSUME quiet PROVE dest = Content(target)
    OBVIOUS
  <2>1. Smooth /\ mainPc = "verify"
    BY SmoothNow
  <2>2. ~InPlace(downloadedParts)
    BY <2>1, NothingToRejectYet
  <2> QED BY <2>1, <2>2 DEF QuietInv, Resumable, Resumes, Left
<1>2. CASE DropRecord
  BY <1>1, <1>2, QuietEndWithoutRecord
<1>3. CASE UNCHANGED records /\ Calm
  BY <1>1, <1>3, Calmly, QuietEndAsItIs DEF disk
<1> QED BY <1>2, <1>3

LEMMA ReadFirstOfNoneQuiet == ASSUME QuietInv, Recoverable, ReadFirstOfNone, Base' PROVE QuietInv'
BY QuietEndAsItIs DEF ReadFirstOfNone

LEMMA AcceptQuiet == ASSUME QuietInv, Recoverable, Accept, Base' PROVE QuietInv'
<1> USE DEF Accept
<1>1. ASSUME Smooth PROVE Smooth'
  <2>1. Missing = {}
    BY <1>1 DEF Smooth
  <2> QED BY <1>1, <2>1, SmoothStays DEF outside, call, threads
<1> QED BY <1>1, SmoothNow, Calmly, QuietGoesOn

LEMMA RenameQuiet == ASSUME QuietInv, Recoverable, Rename, Base' PROVE QuietInv'
<1> USE DEF Rename
<1>1. CASE Event("rename") /\ Return("RenameError") /\ UNCHANGED <<tempFile, dest>>
  BY <1>1, Loud, QuietEndAsItIs DEF disk
<1>2. CASE /\ dest' = tempFile /\ tempFile' = EmptyFile /\ mainPc' = "finish"
           /\ UNCHANGED <<outside, call, result, threads>> /\ Calm
  <2> USE <1>2 DEF outside, call, threads
  <2>1. tempFile = Content(target) /\ Missing = {}
    BY DEF QuietInv, Base
  <2>2. Left(downloadedParts, tempFile, target, dest)'
    BY <2>1 DEF Left, Missing
  <2>3. \A p \in Parts : tempFile'[p] = Hole
    BY DEF EmptyFile
  <2>4. \A w \in Workers : ~Saving(w)'
    BY ThreadsIdle DEF Saving
  <2>5. Resumable'
    BY <2>2, <2>3, <2>4 DEF Resumable, Resumes
  <2>6. Dated' /\ Lists'
    BY DEF QuietInv, Dated, Lists, ListedFor
  <2>7. ASSUME Smooth PROVE Smooth'
    BY <2>1, <2>7, SmoothStays
  <2>8. Quietly' /\ QuietCallDelivers'
    BY <2>7, SmoothNow, Calmly DEF Quietly, QuietCallDelivers, Idle
  <2> QED BY <2>5, <2>6, <2>8 DEF QuietInv
<1> QED BY <1>1, <1>2

LEMMA RemoveRecordFileQuiet == ASSUME QuietInv, Recoverable, RemoveRecordFile, Base' PROVE QuietInv'
<1> USE DEF RemoveRecordFile
<1>1. dest = Content(target)
  BY DEF QuietInv, Base
<1> QED BY <1>1, QuietEndWithoutRecord

LEMMA AskQuiet == ASSUME QuietInv, AskToQuit \/ Withdraw, Base' PROVE QuietInv'
<1> USE DEF disk, call, threads, AskToQuit, Withdraw
<1>1. /\ UNCHANGED <<source, records, tempFile, dest, mainPc, target, url, downloadedParts, result,
                     workerPc, part, fetchUrl, got>>
      /\ mainPc # "idle"
  BY DEF Idle
<1>2. quiet' = FALSE
  BY Loud
<1>3. Dated' /\ Lists'
  BY <1>1 DEF QuietInv, Dated, Lists, ListedFor
<1>4. Resumable'
  BY <1>1 DEF QuietInv, Resumable, Resumes, InPlace, Left, Saving, record
<1>5. Quietly' /\ QuietCallDelivers'
  BY <1>1, <1>2 DEF Quietly, QuietCallDelivers
<1> QED BY <1>3, <1>4, <1>5 DEF QuietInv

LEMMA ChangeSourceQuiet == ASSUME QuietInv, Recoverable, ChangeSource, Base' PROVE QuietInv'
<1> USE DEF disk, call, threads, ChangeSource
<1>1. source' = source + 1 /\ quiet' = FALSE
  BY NoHarm, Loud
<1>2. Lists'
  <2>1. Inv' /\ target' = target /\ source <= source'
    BY <1>1, QuietBasics DEF Base
  <2> QED BY <2>1, ListsStay
<1>3. Dated'
  <2>1. \A w \in Workers : got[w] \in Nat /\ (got[w] <= source => got[w] <= source')
    BY <1>1, Basics DEF QuietInv, Base
  <2> QED BY <2>1 DEF QuietInv, Dated
<1>4. Resumable'
  BY DEF QuietInv, Resumable, Resumes, InPlace, Left, Saving, record
<1>5. Quietly' /\ QuietCallDelivers'
  BY <1>1 DEF QuietInv, Quietly, QuietCallDelivers
<1> QED BY <1>2, <1>3, <1>4, <1>5 DEF QuietInv

(* Bytes that come in as the process dies go to parts that nobody has listed. *)
LEMMA WrittenResumes ==
    ASSUME QuietInv, Written, tempFile' \in [Parts -> Holdings], UNCHANGED <<records, dest, target>>
    PROVE  /\ Resumes(record.parts)'
           /\ \A p \in Parts : p > PartCount[target] => tempFile'[p] = Hole
<1>1. CASE \A p \in Parts : tempFile'[p] = tempFile[p]
  <2>1. tempFile' = tempFile
    BY <1>1, Typed DEF QuietInv, Base
  <2> QED BY <2>1, RecordResumes DEF QuietInv, Resumable, Resumes, InPlace, Left, record
<1>2. CASE \E p \in Parts : tempFile'[p] # tempFile[p]
  <2>1. PICK w \in Workers : part[w] # NoPart
    BY <1>2, PartsAreNumbers DEF Written, NoPart
  <2>2. InPlace(downloadedParts) /\ mainPc = "join"
    BY <2>1, NotGone
  <2>3. record.parts \subseteq downloadedParts
    BY <2>2 DEF QuietInv, Base
  <2>4. ASSUME NEW e \in downloadedParts PROVE tempFile'[e.partNumber] = tempFile[e.partNumber]
    <3>1. e.partNumber \in Parts /\ \A x \in Workers : part[x] # e.partNumber
      BY <2>4, Basics DEF QuietInv, Base, Inv, PartsAccounted, Numbers
    <3> QED BY <3>1 DEF Written
  <2>5. InPlace(record.parts)'
    BY <2>2, <2>3, <2>4 DEF InPlace, record
  <2>6. ASSUME NEW p \in Parts, p > PartCount[target] PROVE tempFile'[p] = Hole
    <3>1. \A x \in Workers : part[x] # p
      BY <2>6, QuietBasics, NotGone, PartsAreNumbers DEF NoPart
    <3>2. tempFile'[p] = tempFile[p]
      BY <3>1 DEF Written
    <3> QED BY <2>6, <3>2 DEF QuietInv, Resumable
  <2> QED BY <2>5, <2>6 DEF Resumes
<1> QED BY <1>1, <1>2

LEMMA CrashQuiet == ASSUME QuietInv, Recoverable, Crash, Base' PROVE QuietInv'
<1>1. Return("none") /\ UNCHANGED <<records, dest>>
  BY DEF Crash
<1>2. PICK S \in SUBSET {w \in Workers : Getting(w) /\ CanServe(w)} :
          tempFile' = [p \in Parts |-> IF \E w \in S : part[w] = p
                                       THEN Partly(tempFile[p], Served(CHOOSE w \in S : part[w] = p))
                                       ELSE tempFile[p]]
  BY DEF Crash
<1>3. Written
  BY <1>2 DEF Written
<1>4. tempFile' \in [Parts -> Holdings]
  BY DEF Base, Inv, TypeOK, DiskOK
<1>5. target' = target
  BY <1>1 DEF Return, Forget
<1> QED BY <1>1, <1>3, <1>4, <1>5, WrittenResumes, QuietEnd

-----------------------------------------------------------------------------
LEMMA BaseInvariance == ASSUME Recoverable PROVE Spec => []Base
<1>1. CASE ChecksOn
  BY <1>1, WholeInvariance, WholeIsBase, PTL
<1>2. CASE Pinned
  BY <1>2, PinnedInvariance, PinnedIsBase, PTL
<1> QED BY <1>1, <1>2 DEF Recoverable

LEMMA InitQuiet == ASSUME Init, Base PROVE QuietInv
<1> USE DEF Init
<1>1. \A h \in Hashes : records[h].parts = {}
  BY DEF NoRecord
<1>2. \A v \in Versions : records[ContentHash[v]].parts = {}
  BY <1>1, Basics DEF Base
<1>3. record.parts = {}
  BY <1>1, Basics DEF record, Base
<1>4. Lists
  BY <1>2 DEF Lists
<1>5. Resumable
  BY <1>3, EmptyListResumes DEF Resumable, Saving, EmptyFile
<1>6. Dated /\ Quietly /\ QuietCallDelivers
  BY DEF Dated, Quietly, QuietCallDelivers
<1> QED BY <1>4, <1>5, <1>6 DEF QuietInv

LEMMA NextQuiet == ASSUME QuietInv, Recoverable, [Next]_vars, Base' PROVE QuietInv'
<1>1. CASE Start
  BY <1>1, StartQuiet
<1>2. CASE Main
  BY <1>2, LoadRecordQuiet, PrepareQuiet, PlanQuiet, CheckEnableQuiet, CheckControlQuiet,
     RemoveTempFileQuiet, RejectQuiet, ReadFirstOfNoneQuiet, AcceptQuiet, RenameQuiet,
     RemoveRecordFileQuiet, Zenon
  DEF Main
<1>3. CASE \E w \in Workers : Worker(w)
  BY <1>3, WorkerQuiet
<1>4. CASE Environment
  BY <1>4, AskQuiet, ChangeSourceQuiet, CrashQuiet, Zenon DEF Environment
<1>5. CASE UNCHANGED vars
  <2> USE <1>5 DEF vars, outside, disk, call, threads, budget
  <2>1. Dated' /\ Lists'
    BY DEF QuietInv, Dated, Lists, ListedFor
  <2>2. Resumable'
    BY DEF QuietInv, Resumable, Resumes, InPlace, Left, Saving, record
  <2>3. Quietly' /\ QuietCallDelivers'
    BY DEF QuietInv, Quietly, Smooth, Missing, QuietCallDelivers, Idle
  <2> QED BY <2>1, <2>2, <2>3 DEF QuietInv
<1> QED BY <1>1, <1>2, <1>3, <1>4, <1>5, Zenon DEF Next

\* A download that meets no failure delivers, whatever happened to the calls before it: what a crash, a stop, a failed rename
\* or an older version left on disk, the record, the temporary file and the parts they agree on, never stands in its way.
THEOREM QuietDownloadDelivers == ASSUME Recoverable PROVE Spec => []QuietCallDelivers
<1>1. Spec => []Base
  BY BaseInvariance
<1>2. Init /\ Base => QuietInv
  BY InitQuiet
<1>3. QuietInv /\ [Next]_vars /\ Base' => QuietInv'
  BY NextQuiet
<1>4. QuietInv => QuietCallDelivers
  BY DEF QuietInv
<1> QED BY <1>1, <1>2, <1>3, <1>4, PTL DEF Spec
=============================================================================
