------------------------- MODULE ResumableDownload -------------------------
(***************************************************************************)
(* One destination path downloaded again and again by                      *)
(* PdsClientImpl::ResumableFileDownload and ResumableDownloader::Download: *)
(* a call splits the remote file into parts, worker threads fetch them     *)
(* into one temporary file, every finished part is written to a record     *)
(* file so that a later call can skip it, and the temporary file is        *)
(* renamed to the destination when the checks at the end accept it.        *)
(*                                                                         *)
(* The state that outlives a call, or the process, is on disk: the record  *)
(* files, the temporary file and the destination.  Everything else is the  *)
(* memory of the running call.                                             *)
(*                                                                         *)
(* Abstractions.  The remote file has versions 1 .. NumVersions whose      *)
(* sizes are multiples of the part size, and the bytes of a part are       *)
(* identified by the version they come from; so is their CRC-64.  One call *)
(* runs at a time on a path, always with the same part size.  A crash is   *)
(* the end of the process: what was handed to the operating system stays.  *)
(***************************************************************************)
EXTENDS Integers, FiniteSets

CONSTANTS
    Workers,        \* the download threads, request_.ThreadNum() of them
    NumVersions,    \* versions the remote file goes through
    MaxParts,       \* parts of the largest version
    PartCount,      \* version -> its number of parts
    ContentHash,    \* version -> its content hash; "" when the server has none
    FileMtime,      \* version -> the mtime the caller passes with the request
    HasCrc,         \* the server reports a CRC-64 and enableCrc64 is on
    CheckSize,      \* configuration().enableCheckDownloadFileSize
    HasCheckpoint,  \* the request names a checkpoint directory
    UrlPinsVersion, \* a url keeps serving the version it was issued for
    Events,         \* the kinds of event the environment may cause
    MaxCalls,       \* bound on the number of calls
    MaxEvents       \* bound on the number of events

Versions == 1 .. NumVersions
Parts == 1 .. MaxParts

\* get: a GET or its retries fail; expiry: the url expired; service: the
\* get_download_url request fails; open, rename, remove: a record cannot be
\* opened for writing, a file cannot be renamed or removed; flush: the bytes of
\* a part do not all reach the disk; stop, cancel, disable, withdraw: the
\* caller's control handler and Disable/EnableRequest; modify, revert: the
\* remote file becomes the next version, or an earlier one again (or the caller
\* turns to another file, and back); crash: the process dies.
EventKinds == {"get", "expiry", "service", "open", "rename", "remove", "flush",
               "stop", "cancel", "disable", "withdraw", "modify", "revert",
               "crash"}

ASSUME VersionsAssumption ==
    /\ NumVersions \in Nat \ {0}
    /\ MaxParts \in Nat
    /\ PartCount \in [Versions -> Parts]
    /\ FileMtime \in [Versions -> Nat]
    /\ ContentHash \in [Versions -> STRING]

ASSUME OptionsAssumption ==
    /\ HasCrc \in BOOLEAN /\ CheckSize \in BOOLEAN
    /\ HasCheckpoint \in BOOLEAN /\ UrlPinsVersion \in BOOLEAN

ASSUME BoundsAssumption ==
    /\ IsFiniteSet(Workers) /\ Workers # {}
    /\ Events \subseteq EventKinds
    /\ MaxCalls \in Nat /\ MaxEvents \in Nat

VARIABLES
    \* the remote side and the caller
    source,         \* the version the server holds now
    enable,         \* Client::isEnableRequest()
    control,        \* what the caller's progress control handler answers
    \* the disk
    records,        \* content hash -> the record file of that hash
    tempFile,       \* part number -> whose bytes the temporary file holds there
    dest,           \* the same for the destination file
    \* the call
    mainPc,         \* where the calling thread is
    target,         \* the version whose size, hash and crc the call was given
    url,            \* url_: the version it was issued for
    partsToDownload, downloadedParts, outcomes,
    lock,           \* lock_: the worker that holds it across steps, if any
    result,         \* what the last call returned
    \* the download threads
    workerPc,
    part,           \* the part a worker took from the queue
    fetchUrl,       \* the url of its request
    got,            \* the version its GET delivered
    \* bookkeeping of the bounds
    calls, events,
    quiet           \* no event since the current call began

disk    == <<records, tempFile, dest>>
threads == <<workerPc, part, fetchUrl, got>>
call    == <<target, url, partsToDownload, downloadedParts, outcomes, lock>>
outside == <<source, enable, control>>
budget  == <<calls, events, quiet>>
vars    == <<outside, disk, mainPc, call, result, threads, budget>>

-----------------------------------------------------------------------------
(* Files *)

Hole == 0       \* never written
Cut  == -1      \* a prefix of the part, the file may end inside it
Torn == -2      \* bytes of several origins
NoPart == 0
NoUrl  == 0     \* no url, or bytes that are no url
NoData == 0     \* the GET delivered nothing
NoCrc  == 0

EmptyFile == [p \in Parts |-> Hole]

\* The bytes of version v.
Content(v) == [p \in Parts |-> IF p <= PartCount[v] THEN v ELSE Hole]

\* What a part of a file holds after some, but not all, bytes of v came in.
Partly(old, v) == IF old = v THEN v
                  ELSE IF old \in {Hole, Cut} THEN Cut ELSE Torn

Entry(p, v) == [partNumber |-> p, crc |-> IF HasCrc THEN v ELSE NoCrc]

NoRecord    == [state |-> "none", size |-> 0, mtime |-> 0, parts |-> {}]
Damaged     == [NoRecord EXCEPT !.state = "damaged"]
Saved(v, s) == [state |-> "saved", size |-> PartCount[v],
                mtime |-> FileMtime[v], parts |-> s]

Hashes == {ContentHash[v] : v \in Versions}
Entries == [partNumber : Parts, crc : 0 .. NumVersions]
RecordFiles == [state : {"none", "damaged", "saved"}, size : Nat, mtime : Nat,
                parts : SUBSET Entries]

Numbers(s) == {e.partNumber : e \in s}

\* GetFileSize(TempFilePath) = fileSize_
SizeMatches ==
    /\ tempFile[PartCount[target]] \notin {Hole, Cut}
    /\ \A p \in Parts : p > PartCount[target] => tempFile[p] = Hole

\* CRC64::CombineCRC over the parts, in the order of their numbers, gives
\* crc64Hash_.  (For no part at all the code reads downloadedParts[0]: see
\* ReadFirstOfNone.)
CrcMatches ==
    downloadedParts = {Entry(p, target) : p \in 1 .. PartCount[target]}

-----------------------------------------------------------------------------
(* What the environment does *)

\* One of the events left to the environment happens.
Event(kind) ==
    /\ kind \in Events
    /\ events < MaxEvents
    /\ events' = events + 1
    /\ quiet' = FALSE
    /\ UNCHANGED calls

Calm == UNCHANGED budget

Idle == mainPc = "idle"

\* The caller's handler answers "stop" or "cancel" from now on, or another
\* thread calls DisableRequest.
AskToQuit ==
    /\ ~Idle
    /\ \/ Event("stop") /\ control' = "stop" /\ UNCHANGED enable
       \/ Event("cancel") /\ control' = "cancel" /\ UNCHANGED enable
       \/ Event("disable") /\ enable' = FALSE /\ UNCHANGED control
    /\ UNCHANGED <<source, disk, mainPc, call, result, threads>>

\* It changes its mind while the call is still running.
Withdraw ==
    /\ ~Idle
    /\ control # "none" \/ ~enable
    /\ Event("withdraw")
    /\ control' = "none" /\ enable' = TRUE
    /\ UNCHANGED <<source, disk, mainPc, call, result, threads>>

\* Somebody uploads the next version, or goes back to an earlier one.
ChangeSource ==
    /\ \/ Event("modify") /\ source < NumVersions /\ source' = source + 1
       \/ Event("revert") /\ source > 1 /\ source' = source - 1
    /\ UNCHANGED <<enable, control, disk, mainPc, call, result, threads>>

-----------------------------------------------------------------------------
(* The calling thread *)

\* The call ends: what it kept in memory is gone.  The caller enables requests
\* and resets its handler before the next call.
Forget ==
    /\ mainPc' = "idle"
    /\ url' = NoUrl
    /\ partsToDownload' = {} /\ downloadedParts' = {}
    /\ outcomes' = [size |-> 0, failure |-> "none"]
    /\ lock' = {}
    /\ workerPc' = [w \in Workers |-> "done"]
    /\ part' = [w \in Workers |-> NoPart]
    /\ fetchUrl' = [w \in Workers |-> NoUrl]
    /\ got' = [w \in Workers |-> NoData]
    /\ enable' = TRUE /\ control' = "none"
    /\ UNCHANGED <<source, target>>

Return(code) == Forget /\ result' = code

record == records[ContentHash[target]]
WriteRecord(r) ==
    records' = IF HasCheckpoint
               THEN [records EXCEPT ![ContentHash[target]] = r] ELSE records

\* Mutant: the record stays.
DropRecord_Never == UNCHANGED records /\ Calm

\* removeRecordFile: nobody looks at whether it worked.
DropRecord == \/ WriteRecord(NoRecord) /\ Calm
              \/ Event("remove") /\ UNCHANGED records

\* ResumableFileDownload: the size, the hash, the crc and the url of the file
\* come from one get_download_url request.
Start ==
    /\ Idle
    /\ calls < MaxCalls
    /\ calls' = calls + 1
    /\ quiet' = TRUE
    /\ target' = source /\ url' = source
    /\ result' = "none"
    /\ mainPc' = "load"
    /\ UNCHANGED <<outside, disk, partsToDownload, downloadedParts, outcomes,
                   lock, threads, events>>

\* loadRecord finds a record and validateRecord accepts it.
RecordIsValid ==
    /\ record.state = "saved"
    /\ record.size = PartCount[target]
    /\ record.mtime = FileMtime[target]

\* validate: a record that is damaged or invalid is removed, and a new one is
\* prepared.  The parts an invalid record lists are already in record_.parts
\* and hasRecord_ is set: they stay, and count as downloaded.
LoadRecord ==
    /\ mainPc = "load"
    /\ downloadedParts' = IF HasCheckpoint THEN record.parts ELSE {}
    /\ \/ /\ ~HasCheckpoint \/ RecordIsValid
          /\ mainPc' = "plan"
          /\ UNCHANGED records /\ Calm
       \/ /\ HasCheckpoint /\ ~RecordIsValid
          /\ mainPc' = "prepare"
          /\ DropRecord
    /\ UNCHANGED <<outside, tempFile, dest, target, url, partsToDownload,
                   outcomes, lock, result, threads>>

\* prepare: opening the record for writing truncates it.
PrepareOpen ==
    /\ mainPc = "prepare"
    /\ \/ /\ Calm /\ WriteRecord(Damaged) /\ mainPc' = "write"
       \/ /\ Event("open") /\ mainPc' = "plan" /\ UNCHANGED records
    /\ UNCHANGED <<outside, tempFile, dest, call, result, threads>>

PrepareWrite ==
    /\ mainPc = "write"
    /\ WriteRecord(Saved(target, {}))
    /\ mainPc' = "plan"
    /\ Calm
    /\ UNCHANGED <<outside, tempFile, dest, call, result, threads>>

\* Mutants: part numbers start at 0; the parts of the record are downloaded
\* again.
ToDownload_FromZero == (0 .. PartCount[target] - 1) \ Numbers(downloadedParts)
ToDownload_IgnoresRecord == 1 .. PartCount[target]

ToDownload == (1 .. PartCount[target]) \ Numbers(downloadedParts)

\* getPartsToDownload, and the start of the download threads.
Plan ==
    /\ mainPc = "plan"
    /\ partsToDownload' = ToDownload
    /\ workerPc' = [w \in Workers |-> "pop"]
    /\ mainPc' = "join"
    /\ Calm
    /\ UNCHANGED <<outside, disk, target, url, downloadedParts, outcomes, lock,
                   result, part, fetchUrl, got>>

-----------------------------------------------------------------------------
(* A download thread *)

Goto(w, pc) == workerPc' = [workerPc EXCEPT ![w] = pc]

\* Mutants: no thread waits for lock_; a thread never lets go of it.
LockIsFree_NoWait == TRUE
Unlock_Never == UNCHANGED lock

LockIsFree == lock = {}
Unlock == lock' = {}

\* One outcome is pushed; failure is the code of the first that failed.
PushOutcome(code) ==
    outcomes' = [size |-> outcomes.size + 1,
                 failure |-> IF outcomes.failure = "none" THEN code
                             ELSE outcomes.failure]

\* The worker is through with its part; the request and the outcome are gone.
EndOfRound(w) ==
    /\ part' = [part EXCEPT ![w] = NoPart]
    /\ fetchUrl' = [fetchUrl EXCEPT ![w] = NoUrl]
    /\ got' = [got EXCEPT ![w] = NoData]

Quitting == ~enable \/ control # "none"

\* Takes the part at the head of the queue, which is in the order of the
\* numbers, or ends when there is none.
Pop(w) ==
    /\ workerPc[w] = "pop" /\ LockIsFree
    /\ \/ /\ partsToDownload = {}
          /\ Goto(w, "done")
          /\ UNCHANGED <<partsToDownload, part>>
       \/ \E p \in partsToDownload :
             /\ \A q \in partsToDownload : p <= q
             /\ partsToDownload' = partsToDownload \ {p}
             /\ part' = [part EXCEPT ![w] = p]
             /\ Goto(w, "check")
    /\ Calm
    /\ UNCHANGED <<outside, disk, mainPc, target, url, downloadedParts,
                   outcomes, lock, result, fetchUrl, got>>

\* The flag, and the caller's handler under lock_.  A worker that is told to
\* quit drops the part it holds and ends without an outcome.
Check(w) ==
    /\ workerPc[w] = "check" /\ LockIsFree
    /\ IF Quitting
       THEN Goto(w, "done") /\ part' = [part EXCEPT ![w] = NoPart]
       ELSE Goto(w, "begin") /\ UNCHANGED part
    /\ Calm
    /\ UNCHANGED <<outside, disk, mainPc, call, result, fetchUrl, got>>

\* DataGetByUrlRequest(url_), and setUrl(url_) for the second attempt: url_ is
\* read without lock_.  While another worker assigns it the read may see the
\* old url, the new one, or bytes that are no url.
ReadUrl(w) ==
    /\ workerPc[w] \in {"begin", "beginAgain"}
    /\ Goto(w, IF workerPc[w] = "begin" THEN "get" ELSE "getAgain")
    /\ \E u \in {url} \cup UNION {{fetchUrl[x], NoUrl} :
                       x \in {y \in Workers : workerPc[y] = "assign"}} :
          fetchUrl' = [fetchUrl EXCEPT ![w] = u]
    /\ Calm
    /\ UNCHANGED <<outside, disk, mainPc, call, result, part, got>>

Getting(w) == workerPc[w] \in {"get", "getAgain"}

\* The version whose bytes a GET on fetchUrl[w] brings.
Served(w) == IF UrlPinsVersion THEN fetchUrl[w] ELSE source
CanServe(w) == fetchUrl[w] # NoUrl /\ part[w] <= PartCount[Served(w)]

\* The GET answers 2xx.  makeRequest flushes the stream but nobody looks at
\* whether that worked.
GetSucceeds(w) ==
    /\ Getting(w) /\ CanServe(w)
    /\ got' = [got EXCEPT ![w] = Served(w)]
    /\ \/ /\ Calm
          /\ tempFile' = [tempFile EXCEPT ![part[w]] = Served(w)]
       \/ /\ Event("flush")
          /\ tempFile' = [tempFile EXCEPT ![part[w]] = Partly(@, Served(w))]
    /\ Goto(w, "publish")
    /\ UNCHANGED <<outside, records, dest, mainPc, call, result, part, fetchUrl>>

\* The GET fails for good: the retries are used up, the progress callback
\* aborts it because the caller wants to quit, or the range or the url is
\* refused.  Some bytes may have reached the temporary file.
GetFails(w) ==
    /\ Getting(w)
    /\ IF Quitting \/ ~CanServe(w) THEN Calm ELSE Event("get")
    /\ \/ UNCHANGED tempFile
       \/ /\ CanServe(w)
          /\ tempFile' = [tempFile EXCEPT ![part[w]] = Partly(@, Served(w))]
    /\ got' = [got EXCEPT ![w] = NoData]
    /\ Goto(w, "publish")
    /\ UNCHANGED <<outside, records, dest, mainPc, call, result, part, fetchUrl>>

\* The first GET is refused with AccessDenied: no byte is written.
GetDenied(w) ==
    /\ workerPc[w] = "get"
    /\ Event("expiry")
    /\ Goto(w, "refresh")
    /\ UNCHANGED <<outside, disk, mainPc, call, result, part, fetchUrl, got>>

\* The worker takes lock_ and asks for a new url while it holds it.
RefreshBegin(w) ==
    /\ workerPc[w] = "refresh" /\ LockIsFree
    /\ lock' = {w}
    /\ Goto(w, "refreshing")
    /\ Calm
    /\ UNCHANGED <<outside, disk, mainPc, target, url, partsToDownload,
                   downloadedParts, outcomes, result, part, fetchUrl, got>>

\* Mutant: the new url is taken without a look at the hash.
SameFile_SizeOnly == PartCount[source] = PartCount[target]

\* The answer of get_download_url has the hash and the size of the call.
SameFile == /\ ContentHash[source] = ContentHash[target]
            /\ PartCount[source] = PartCount[target]

\* No url comes back, or it is that of a file with another hash or size: the
\* worker pushes the error and ends.  Without a checkpoint directory record_ was
\* never filled in, so the request names no file and always fails.
RefreshFails(w) ==
    /\ workerPc[w] = "refreshing"
    /\ \/ /\ IF HasCheckpoint THEN Event("service") ELSE Calm
          /\ PushOutcome("ServiceError")
       \/ /\ HasCheckpoint
          /\ ~SameFile
          /\ PushOutcome("SourceFileModified")
          /\ Calm
    /\ Unlock
    /\ EndOfRound(w)
    /\ Goto(w, "done")
    /\ UNCHANGED <<outside, disk, mainPc, target, url, partsToDownload,
                   downloadedParts, result>>

RefreshSucceeds(w) ==
    /\ workerPc[w] = "refreshing"
    /\ HasCheckpoint
    /\ SameFile
    /\ fetchUrl' = [fetchUrl EXCEPT ![w] = source]
    /\ Goto(w, "assign")
    /\ Calm
    /\ UNCHANGED <<outside, disk, mainPc, call, result, part, got>>

\* url_ is assigned and lock_ released.
AssignUrl(w) ==
    /\ workerPc[w] = "assign"
    /\ url' = fetchUrl[w]
    /\ Unlock
    /\ Goto(w, "beginAgain")
    /\ Calm
    /\ UNCHANGED <<outside, disk, mainPc, target, partsToDownload,
                   downloadedParts, outcomes, result, part, fetchUrl, got>>

\* Under lock_ the outcome is pushed.  A part that arrived is downloaded; with
\* a checkpoint directory its worker keeps lock_ and rewrites the record.
Publish(w) ==
    /\ workerPc[w] = "publish" /\ LockIsFree
    /\ EndOfRound(w)
    /\ IF got[w] = NoData
       THEN /\ PushOutcome("GetError")
            /\ UNCHANGED <<downloadedParts, lock>>
            /\ Goto(w, "pop")
       ELSE /\ PushOutcome("none")
            /\ downloadedParts' = downloadedParts \cup {Entry(part[w], got[w])}
            /\ lock' = IF HasCheckpoint THEN {w} ELSE {}
            /\ Goto(w, IF HasCheckpoint THEN "open" ELSE "pop")
    /\ Calm
    /\ UNCHANGED <<outside, disk, mainPc, target, url, partsToDownload, result>>

\* Opening the record truncates it; when it cannot be opened it stays as it is.
SaveOpen(w) ==
    /\ workerPc[w] = "open"
    /\ \/ Calm /\ WriteRecord(Damaged) /\ Goto(w, "save") /\ UNCHANGED lock
       \/ Event("open") /\ UNCHANGED records /\ Goto(w, "pop") /\ Unlock
    /\ UNCHANGED <<outside, tempFile, dest, mainPc, target, url,
                   partsToDownload, downloadedParts, outcomes, result,
                   part, fetchUrl, got>>

SaveWrite(w) ==
    /\ workerPc[w] = "save"
    /\ WriteRecord(Saved(target, downloadedParts))
    /\ Unlock
    /\ Goto(w, "pop")
    /\ Calm
    /\ UNCHANGED <<outside, tempFile, dest, mainPc, target, url,
                   partsToDownload, downloadedParts, outcomes, result,
                   part, fetchUrl, got>>

Worker(w) ==
    \/ Pop(w) \/ Check(w) \/ ReadUrl(w)
    \/ GetSucceeds(w) \/ GetFails(w) \/ GetDenied(w)
    \/ RefreshBegin(w) \/ RefreshFails(w) \/ RefreshSucceeds(w) \/ AssignUrl(w)
    \/ Publish(w) \/ SaveOpen(w) \/ SaveWrite(w)

-----------------------------------------------------------------------------
(* The calling thread, after the threads are joined *)

CheckEnable ==
    /\ mainPc = "join"
    /\ \A w \in Workers : workerPc[w] = "done"
    /\ IF enable
       THEN mainPc' = "control" /\ UNCHANGED <<outside, call, result, threads>>
       ELSE Return("disabled")
    /\ Calm
    /\ UNCHANGED disk

\* Stop keeps the record and the temporary file for a later call; cancel
\* removes both, the record first.
CheckControl ==
    /\ mainPc = "control"
    /\ \/ /\ control = "none"
          /\ mainPc' = "verify"
          /\ UNCHANGED <<outside, call, result, threads, records>>
          /\ Calm
       \/ control = "stop" /\ Return("stopped") /\ UNCHANGED records /\ Calm
       \/ /\ control = "cancel"
          /\ DropRecord
          /\ mainPc' = "cancel"
          /\ UNCHANGED <<outside, call, result, threads>>
    /\ UNCHANGED <<tempFile, dest>>

RemoveTempFile ==
    /\ mainPc = "cancel"
    /\ \/ tempFile' = EmptyFile /\ Calm
       \/ Event("remove") /\ UNCHANGED tempFile
    /\ Return("canceled")
    /\ UNCHANGED <<records, dest>>

\* Mutant: the CRC of the whole file is not compared.
Verdict_NoCrc ==
    IF outcomes.failure # "none" THEN outcomes.failure
    ELSE IF CheckSize /\ ~SizeMatches THEN "FileSizeCheckError" ELSE "none"

\* The checks in the order of the code; "none" lets the file through.
Verdict ==
    IF outcomes.failure # "none" THEN outcomes.failure
    ELSE IF Cardinality(downloadedParts) < outcomes.size
         THEN "DownloadNotComplete"
    ELSE IF CheckSize /\ ~SizeMatches THEN "FileSizeCheckError"
    ELSE IF HasCrc /\ ~CrcMatches THEN "CrcCheckError" ELSE "none"

\* Only a CRC mismatch removes the record.
Reject ==
    /\ mainPc = "verify"
    /\ Verdict # "none"
    /\ IF Verdict = "CrcCheckError" THEN DropRecord
                                    ELSE UNCHANGED records /\ Calm
    /\ Return(Verdict)
    /\ UNCHANGED <<tempFile, dest>>

\* With no part downloaded the CRC check reads downloadedParts[0] of an empty
\* vector: the process may die there (Reject is the other outcome, a CRC that
\* differs).
ReadFirstOfNone ==
    /\ mainPc = "verify"
    /\ Verdict = "CrcCheckError" /\ downloadedParts = {}
    /\ Return("none")
    /\ Calm
    /\ UNCHANGED disk

\* Mutant: the old destination is removed to make room for the new one.
Accept_RemovesOld ==
    /\ mainPc = "verify"
    /\ Verdict = "none"
    /\ mainPc' = "rename"
    /\ dest' = EmptyFile
    /\ Calm
    /\ UNCHANGED <<outside, records, tempFile, call, result, threads>>

Accept ==
    /\ mainPc = "verify"
    /\ Verdict = "none"
    /\ mainPc' = "rename"
    /\ Calm
    /\ UNCHANGED <<outside, disk, call, result, threads>>

\* rename() replaces the destination, if there was one, in one step.
Rename ==
    /\ mainPc = "rename"
    /\ \/ /\ dest' = tempFile
          /\ tempFile' = EmptyFile
          /\ mainPc' = "finish"
          /\ UNCHANGED <<outside, call, result, threads>>
          /\ Calm
       \/ /\ Event("rename")
          /\ Return("RenameError")
          /\ UNCHANGED <<tempFile, dest>>
    /\ UNCHANGED records

RemoveRecordFile ==
    /\ mainPc = "finish"
    /\ DropRecord
    /\ Return("ok")
    /\ UNCHANGED <<tempFile, dest>>

\* The process dies.  Of the requests in flight some may have written part of
\* their bytes.
Crash ==
    /\ ~Idle
    /\ Event("crash")
    /\ \E S \in SUBSET {w \in Workers : Getting(w) /\ CanServe(w)} :
          tempFile' = [p \in Parts |->
              IF \E w \in S : part[w] = p
              THEN Partly(tempFile[p], Served(CHOOSE w \in S : part[w] = p))
              ELSE tempFile[p]]
    /\ Return("none")
    /\ UNCHANGED <<records, dest>>

-----------------------------------------------------------------------------
Init ==
    /\ source = 1 /\ target = 1
    /\ enable = TRUE /\ control = "none"
    /\ records = [h \in Hashes |-> NoRecord]
    /\ tempFile = EmptyFile /\ dest = EmptyFile
    /\ mainPc = "idle" /\ result = "none"
    /\ url = NoUrl /\ partsToDownload = {} /\ downloadedParts = {}
    /\ outcomes = [size |-> 0, failure |-> "none"]
    /\ lock = {}
    /\ workerPc = [w \in Workers |-> "done"]
    /\ part = [w \in Workers |-> NoPart]
    /\ fetchUrl = [w \in Workers |-> NoUrl]
    /\ got = [w \in Workers |-> NoData]
    /\ calls = 0 /\ events = 0 /\ quiet = TRUE

Main == \/ LoadRecord \/ PrepareOpen \/ PrepareWrite \/ Plan
        \/ CheckEnable \/ CheckControl \/ RemoveTempFile
        \/ Reject \/ ReadFirstOfNone \/ Accept \/ Rename \/ RemoveRecordFile

Environment == AskToQuit \/ Withdraw \/ ChangeSource \/ Crash

Next == Start \/ Main \/ (\E w \in Workers : Worker(w)) \/ Environment

Spec == Init /\ [][Next]_vars

\* A thread that can take a step takes it: mutexes, requests and handlers do
\* not block for ever (a request is given up below one byte a second), and the
\* only loop of a worker empties a finite queue.  Nobody has to call again.
FairSpec == Spec /\ WF_vars(Main) /\ \A w \in Workers : WF_vars(Worker(w))

-----------------------------------------------------------------------------
(* Properties *)

WorkerPcs == {"pop", "check", "begin", "beginAgain", "get", "getAgain",
              "refresh", "refreshing", "assign", "publish", "open", "save",
              "done"}
MainPcs == {"idle", "load", "prepare", "write", "plan", "join", "control",
            "cancel", "verify", "rename", "finish"}
Failures == {"none", "GetError", "ServiceError", "SourceFileModified"}
Results == Failures \cup {"ok", "disabled", "stopped", "canceled",
            "DownloadNotComplete", "FileSizeCheckError", "CrcCheckError",
            "RenameError"}
Holdings == {Hole, Cut, Torn} \cup Versions

OutsideOK == /\ source \in Versions
             /\ enable \in BOOLEAN /\ control \in {"none", "stop", "cancel"}
DiskOK == /\ records \in [Hashes -> RecordFiles]
          /\ tempFile \in [Parts -> Holdings] /\ dest \in [Parts -> Holdings]
CallOK == /\ mainPc \in MainPcs /\ result \in Results
          /\ target \in Versions /\ url \in 0 .. NumVersions
          /\ partsToDownload \subseteq Parts
          /\ downloadedParts \subseteq Entries
          /\ outcomes \in [size : Nat, failure : Failures]
          /\ lock \subseteq Workers
ThreadsOK == /\ workerPc \in [Workers -> WorkerPcs]
             /\ part \in [Workers -> 0 .. MaxParts]
             /\ fetchUrl \in [Workers -> 0 .. NumVersions]
             /\ got \in [Workers -> 0 .. NumVersions]
BudgetOK == calls \in Nat /\ events \in Nat /\ quiet \in BOOLEAN

\* Every variable has its type.
TypeOK == OutsideOK /\ DiskOK /\ CallOK /\ ThreadsOK /\ BudgetOK

\* Whenever Download returns success, the destination holds exactly the bytes
\* of the version the call was made for: no part missing, stale, half written
\* or taken from another version, whatever was interrupted before.
OkMeansWhole == result = "ok" => dest = Content(target)

\* A part is in one place only: in the queue, with one worker, or downloaded,
\* and it is downloaded once.  Otherwise two requests would write the same
\* range of the temporary file, and CombineCRC would count a part twice.
PartsAccounted ==
    /\ \A v, w \in Workers : v # w /\ part[v] # NoPart => part[v] # part[w]
    /\ \A w \in Workers : part[w] \notin partsToDownload
    /\ \A w \in Workers : part[w] \notin Numbers(downloadedParts)
    /\ partsToDownload \cap Numbers(downloadedParts) = {}
    /\ \A d, e \in downloadedParts : d.partNumber = e.partNumber => d = e

\* Between two steps lock_ is held exactly by a worker that refreshes the url
\* or rewrites the record, so no two of them interleave on url_ or on the file.
LockDiscipline ==
    /\ \A v, w \in lock : v = w
    /\ \A w \in Workers :
          w \in lock
              <=> workerPc[w] \in {"refreshing", "assign", "open", "save"}

\* The record a call resumes from never runs ahead of the temporary file: every
\* part it lists is in the file with the bytes of the call's version, unless the
\* file has already become the destination (Rename comes before
\* RemoveRecordFile, cancel removes the record before the file).  For urls that
\* pin the version and content hashes that tell the versions apart.
RecordBehindFile ==
    LET r == records[ContentHash[target]] IN
    \/ \A e \in r.parts : tempFile[e.partNumber] = target
    \/ tempFile = EmptyFile /\ dest = Content(target)

\* A call that met no failure leaves the file in place, whatever happened to
\* the calls before it.
QuietCallDelivers ==
    Idle /\ quiet /\ result # "none" => dest = Content(target)

\* "Not all parts are downloaded." (ResumableDownloader.cc:235): a call that
\* goes on to publish the file has downloaded every part.
NotCompleteIsReported ==
    mainPc = "rename" => Numbers(downloadedParts) = 1 .. PartCount[target]

\* Every call comes to an end.
CallReturns == ~Idle ~> Idle

\* The downloader as its caller sees it: AtomicPublish.
Contents == {Content(v) : v \in Versions}
Atomic == INSTANCE AtomicPublish WITH
    Absent <- EmptyFile,
    MayDoubt <- FALSE,
    file <- dest,
    phase <- IF mainPc = "finish" THEN "published"
             ELSE IF ~Idle THEN "running"
             ELSE IF result = "ok" THEN "succeeded"
             ELSE IF result = "none" THEN "idle" ELSE "failed"
ImplementsAtomicPublish == Atomic!Spec

=============================================================================
