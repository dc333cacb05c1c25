# TLA+ models of the PDS C++ SDK

The SDK (`src/sdk`) is a client library for a drive service: it lists, creates
and deletes files with single requests, and it moves the bytes of files up and
down, in parts, with several threads, resumably.  The part of it that is hard to
get right, and that this project is about, is the movement of bytes: what a call
leaves on disk or with the service when it is interrupted, what the next call
makes of that, and what threads that share locks and connections do to each
other.

Paths below are relative to `src/sdk/src` unless they start with `src/`.

## 1. The system

### Components, their state, their operations

| Component | State it keeps | Operations | Hard behaviour | What makes it correct |
|---|---|---|---|---|
| Resumable download (`resumable/ResumableDownloader.cc`, `PdsClientImpl.cc:639-650, 793, 798-830, 922`) | record file, temporary file, destination; per call: queue of parts, list of downloaded parts, outcomes, `url_`, `lock_` | `Download`, `prepare`/`validate`/`loadRecord`, `getPartsToDownload`, `RenameTempFile`, progress callbacks | worker threads on shared lists and one record file; expired urls renewed by one thread for all; callers that quit and change their mind; crashes between any two writes; a source that changes | success means the whole file; the destination is replaced in one step; a later call can always go on |
| Resumable upload (`resumable/ResumableUploader.cc`) | record file; at the service the upload and its parts; per call: lists and ids | `Upload`, rapid upload by hash, `prepare`, the loop of PUTs, `FileComplete`, checks | requests that took effect although their answer was lost; uploads the service forgets; a record that names a closed upload; a file edited meanwhile | success means the service has the whole version; a record lists only parts the service has; a failure is got over |
| Curl handle pool (`http/CurlHttpClient.cc:53-210`) | free handles, pool size, two mutexes, a condition variable | `Acquire`, `Release`, `growPool`, `ShutdownAndWait` | look, grow and take are three steps; notification after the unlock; `curl_easy_init` may fail; waiting under another lock | no handle shared or lost, no wakeup lost, no waiting for ever |
| Request attempts and retry (`client/Client.cc`, `client/ClientConfiguration.cc`, `http/HttpClient.cc`) | the enable flag, a condition variable for the back-off | `AttemptRequest`, `AttemptOnceRequest`, `Disable/EnableRequest`, `waitForRetry` | repeated requests that are not idempotent; a flag set between test and wait | bounded attempts; a disabled client stops soon |
| Single-request transfer of small files (`PdsClientImpl.cc:639-925`) | a local file, a response stream | download and upload in one request, size and CRC checks | failures that are looked at late | success means the whole file |
| Part plan (`resumable/ResumableBaseWorker.cc`, `determinePartSize`, `getPartsTo...`) | `partSize_`, kept in the record | sizes and ranges of the parts | exact fits, doubling, a part size that comes from an older record | what is done and what is to do are the bytes of the file, each once; the limit of parts is kept |
| Thread executor (`utils/ThreadExecutor.cc`) | a map of threads, a state that is a spin lock | `execute`, `detach`, destructor | threads that end before they are registered, or while the destructor runs; tasks that give tasks | an accepted task runs, the destructor leaves nobody behind |
| CRC-64 (`utils/Crc64.cc`) | tables | `CalcCRC`, `CombineCRC` | GF(2) arithmetic, pieces of any length at any address | combining equals computing over the whole |
| Files and directories (`utils/FileSystemUtils.cc`) | none | rename, remove, size, mtime | errors nobody looks at | - |
| Client facade, service operations, requests and results (`PdsClient.cc`, `PdsClientImpl.cc`, `model/`) | none | some thirty operations: one request in, one result out | options lost on the way; members nobody initialises | what the caller gave is sent; what is returned was read |
| Urls, headers, encoding, logging, credentials (`http/Url.cc`, `utils/Utils.cc`) | a credentials provider, the log level | a url is taken apart and put together again; string functions | signed urls that hold separators, other urls, fragments; endpoints with a port or a path | the service's url reaches curl as it was given |
| Vendored code (`external/`) | - | JSON, XML | - | - |

How they interact:

- A caller's thread enters `PdsClientImpl::ResumableFileDownload` or
  `ResumableFileUpload`, which builds a downloader or an uploader for the length
  of the call and runs it on that thread.
- The downloader starts `ThreadNum` threads of its own and joins them; they share
  its lists under `lock_`, and each of its requests goes through
  `Client::AttemptRequest` to `CurlHttpClient`, which takes a handle of the pool
  and gives it back.  While a transfer runs, curl calls back into the
  downloader, which takes `lock_` to tell the caller of progress or to ask
  whether to go on.  So threads hold `lock_` and wait for handles, and hold
  handles and wait for `lock_`.
- The uploader does everything on the calling thread.
- Calls talk to later calls through files: the record, the temporary file, and
  the upload that the record names.
- The enable flag of the client and the answers of the caller's control handler
  may change at any time, from any thread, both ways.

`PROJECT.json` lists, under `hazards`, each place where one of these can go
wrong, with the properties that would notice.

### Modules

| Module | Models |
|---|---|
| `ResumableDownload` | calls of the resumable download on one path, their threads, the disk, crashes |
| `ResumableUpload` | calls of the resumable upload of one file, the record, the service's uploads, crashes |
| `AtomicPublish` | what a caller relies on: the abstract specification both implement |
| `DownloadOverPool` | `lock_` of running downloads composed with the curl handle pool |
| `PdsClientImpl` | a call of the client: every service operation with its attempts, retries and back-off, and uploads and downloads of files no longer than a part |
| `ServiceOperations`, `ServiceResults` | the requests and results of the operations: what is sent for the options, what is read of the answer |
| `Url` | the `Url` class, the check of the endpoint, the url of a request |
| `ThreadExecutor` | the executor of the client, for asynchronous calls: threads, spin lock, destructor |
| `PartPlan` | how files are cut into parts, over a sequence of calls with records |
| `Crc64` | the checksum: tables, words, both byte orders, combination |
| `FileChecksum` | `PartPlan` and `Crc64` composed: the checksum of a file from those of its parts |
| `MCResumableDownload`, `MCResumableUpload`, `MCDownloadOverPool`, `MCPdsClientImpl`, `MCThreadExecutor`, `MCFileChecksum` | instances for TLC |
| `ResumableDownload_proofs`, `ResumableUpload_proofs`, `PdsClientImpl_proofs`, `DownloadOverPool_proofs`, `ThreadExecutor_proofs`, `PartPlan_proofs`, `FileChecksum_proofs` | theorems and proofs |
| `Folding` | what a fold over a sequence computes: the loops of the checksum, for its proofs |

## 2. The models and the code

### ResumableDownload

The remote file goes through versions `1 .. NumVersions`.  The bytes of part `p`
of version `v` are just `v`; their CRC-64 is `v` too, so that CRCs agree exactly
when bytes do.  A file is a function from part numbers to what it holds there: a
version, `Hole` (never written), `Cut` (a prefix), or `Torn` (a mixture).

| Variables | Code |
|---|---|
| `records` | the record files; a record is named after path and content hash (`genRecordPath`), so there is one for every hash |
| `tempFile`, `dest` | `TempFilePath` and `FilePath` of the request |
| `target` | `fileSize_`, `contentHash_`, `crc64Hash_` of the request |
| `url` | `url_` |
| `partsToDownload`, `downloadedParts`, `outcomes` | the local lists of `Download` |
| `lock` | the worker that holds `lock_` over more than one step |
| `mainPc`, `workerPc` | where the calling thread and the workers are |
| `enable`, `control` | the client's flag and the caller's control handler |

Actions follow the calling thread from `LoadRecord` (`validate`, `loadRecord`,
`validateRecord`), the preparation and writing of the first record, the plan of
the parts and the start of the threads, over the join and the checks in the order
of the code, to the rename and the removal of the record; and a worker from the
pop of a part over GET, refresh of the url and second GET to the update of lists
and record.  Code under one `lock_guard` that does no I/O is one action.  I/O is
split where a crash in between matters: opening the record (which truncates it)
and writing it are two.

A GET opens the temporary file for its range, and may deliver all of it, part of
it or nothing.  `url_` is read without the lock while another worker assigns it
(lines 86, 138 against 133): a data race, so the reader gets the old value, the
new one, or no url.

### ResumableUpload

The *local* file goes through versions.  The service is external: an upload is
`unused`, `open`, `completed` or `gone`, with the parts it holds.  A PUT that is
answered stores the part; one whose answer is lost stores it too, and the next
attempt (of `AttemptRequest`, or of a later call) is told `PartAlreadyExist`; one
that fails may have stored it.  `FileComplete` turns the parts the service holds
into the file, whatever their number; of an upload that is completed already the
model allows both answers, an error and success.  `get_upload_url` fails for an
upload that is not open.

Actions: `Start`, `LoadRecord`, `Create`, `ComputeSha1`, `RapidCreate`,
`OpenRecord`/`WriteRecord`, `Plan`, `Pop`, `GetUrl`, the three outcomes of a PUT
(`PutSucceeds`, `PutFindsPart`, `PutFails`), the checks after the loop in the
order of the code, `Complete`, `CheckAnswer` (size, then CRC), the SHA-1 that
decides when the CRC differs, `Finish`.  `ReturnDropping` ends a call that
removes its record, whether or not the removal works.  The value of an
uninitialised member (`DataPutResult::crc64_`) is either 0 or what it happens to
be right as.

### AtomicPublish

The caller's view: one file, absent at first, and one call at a time.  A call
publishes a *complete* file in one step or does not; it reports success only
after it did.  A download that fails has not touched the file.  An upload may
(`MayDoubt`) have replaced it without knowing.  Both models are checked to
implement it by the refinement mappings at their ends.

### DownloadOverPool

What is left of a download here is what holds and waits: a worker's request for
a part (`look`, `grow`, `take`, `perform`, `callback`, `release`), its check of
the outcome under `lock_`, the request for a new url *while it holds* `lock_`.
`HasResourcesAvailable`, `growPool` and `Acquire` are separate steps as in the
code, handles are numbered in the order they are made, and `notify_one` comes
after the unlock and wakes any sleeper or nobody.  A caller of single requests is
a download with one worker.  The callbacks take `lock_` only when the caller gave
handlers; the model lets every transfer do so or not.

### PdsClientImpl, ServiceOperations, ServiceResults

One caller.  An operation is begun with a set of options, its request is
validated, made into a message (a path, and headers and JSON fields as sets of
pairs), sent, and answered; `Decide` is the loop of `Client::AttemptRequest` with
`DefaultRetryStrategy`, `WaitForRetry` the back-off that `disable()` interrupts or,
when its notification falls between test and wait, does not.  A small upload is
`AfterPreCheck`, `AfterRapid`, `AfterCreate`, `UploadData`, `AfterPut`,
`AfterComplete` (`Sendable` is what a PUT may send: the file, or a `Mixture` of what
it was before and after an edit, kept in `mixed`); a small download `AfterGetUrl`, `AfterGet`, `Rename`: the code
after each request, in the order of its checks.  The service, the network and the
file system cause at most `MaxEvents` events of sixteen kinds (`EventKinds`): a
request that never leaves, an answer that is lost or is not JSON, a refusal, a
busy service, data altered or cut, a failing write or rename, an edit on either
side, the handler or another thread stopping the call, a crash.

A result is a *set* of results: a number or flag that the code leaves
uninitialised is tried with several values, and `sure` is false of such a result.
`ServiceOperations` has one operator for the fields of every request class and
`ServiceResults` one for every result class, with the names of the JSON keys.
That a caller gives texts to the options there are, and that there is one empty
content, are the assumptions `OperationsAssumption` and `VersionsAssumption`.

| Variables | Code |
|---|---|
| `call`, `step`, `message`, `attempt`, `reply` | the operation and its request, the message of `buildHttpRequest`, `retry`, the outcome of the last attempt |
| `configuration`, `enabled`, `control` | `ClientConfiguration`, `disable_`, the caller's control handler |
| `source`, `tempFile`, `dest`, `remote`, `stored`, `uploads` | files on both sides |
| `effects`, `doubts`, `misread`, `seen` | bookkeeping for the properties, no code |

### Url

A text is a sequence of words and separators, so `find`, `substr` and `erase` are
what they are in the code while a word stays a word.  `FromString` goes through the
text in the order of the code (scheme, fragment, query, path, authority), which is
what decides whether a `://` or a `/` in a signed query is taken for something else;
`UrlToString` is what curl is given.  A url without a host becomes the empty text,
which curl refuses (`UrlMalformed`).  A message holds the url taken apart, as the
code's `HttpRequest` does; which endpoints pass and the urls of their hosts are
constants (`ValidEndpoints`, `HostUrls`), so that TLC works them out once.

`UrlIsKept` speaks of urls as the service signs them (`IsSigned`: a scheme, a host, no
empty query or fragment) and of endpoints with a scheme or without a `://` elsewhere
(`IsTidy`), whose authority is `IsPlain`: a host, with a port it is a number as it is
printed, with a user one that has no capitals and neither begins nor ends with a colon.
These are the texts of which nothing is lost: a url without a scheme that has a `://` in
its query is misread, an empty query or fragment is dropped, a user is written small
together with the host, and the port of an IPv6 address is looked for inside it; the
service hands out none of these.

### ThreadExecutor

A thread for each task.  `Execute`, `ExecuteLocks`, `StartThread`, `Emplace` are
`execute()` between its accesses to `state_` and `threads_`: the thread runs from
`StartThread` on, before it is in `threads_`.  A failed `compare_exchange` is a
stutter.  Callers hold the executor through a `shared_ptr`, so the destructor runs
when none of them is inside; tasks may give tasks whenever they run.  A task whose
own thread drops the last reference, and so joins itself, is left out: that throws
in the standard library.

### PartPlan, Crc64 and FileChecksum

`PartPlan` has sizes and offsets in bytes.  `Begin` is `validate` with `loadRecord`
(which takes the record's part size over even when the record is then rejected),
`Double` the body of the loop of `determinePartSize`, `Prepare` the record without
parts (for which `initRecordInfo` of the upload clears the parts a rejected record left
in memory, and that of the download does not), `GetParts` the list of what is still to
do, with `UploadParts` and `DownloadParts` as in the two workers; `Transfer` puts one
part into the record, `End` is any end of a call.  `stale` says that parts of a rejected record are mixed
in, which from `Prepare` on only a download can have; downloads that do are left out of
`PlanCoversFile` and `CombinedCrcIsOfFile`, uploads are not.  Widths are left out: every size
is bounded by twice that of the file.

`Crc64` translates the code with a register as the set of its bits, so that `^` is
the symmetric difference; the widths are parameters, and a byte has 2^`ByteSquares`
bits because `crc64_combine` comes by squaring from the matrix for a bit to the one for
a byte.  Loops are folds: `Repeat` for those that count, `FoldLeft` for those over
bytes, words and parts.  `ZerosStep` is a round of the `do` loop of `crc64_combine`
with `even` and `odd` as one matrix; it leaves everything as it is once `len2` is zero,
so that `len2` rounds stand for as many as are needed.  `Crc` is what all this is
compared with: the shift register fed bit by bit.  In `FileChecksum` the bytes of a part
come in two pieces, the second at any address; parts are sorted and combined as after
the loop of the uploader.  (That an upload may list a part with the CRC of a result
nobody initialised is in `ResumableUpload`.)

### Abstractions common to all

- In `ResumableDownload` and `ResumableUpload` sizes are multiples of the part size,
  and a call always uses the same part size: what the ranges are is `PartPlan`'s.
- One call at a time on one path or file; two processes on one path are left out.
- A crash is the end of the process.  What it handed to the operating system
  stays; losing the page cache is left out (the code never calls `fsync`).
- Retries of a request are part of the request, except where a repetition can be
  told from one request (PUT, `FileComplete`).
- Messages, progress numbers and the text of errors are left out.

### Bounds

`MaxCalls` bounds the calls, `MaxEvents` what the environment does to them (each
failure, each request to quit, each change of a file, each crash is an event),
`MaxUploads` the uploads the service hands out, `MaxExpiries` the urls that
expire in `DownloadOverPool`.  They appear in guards only.  `Events` names the
kinds of event a run allows.

## 3. The runs

| Run | Instance | Shows |
|---|---|---|
| `download_crc` | 2 threads, 2 versions of 2 parts, 3 calls, 4 events, CRC on | success means the whole version, the destination only ever changes from one whole version to another, and a call without failures delivers (`OkMeansWhole`, `ImplementsAtomicPublish`, `QuietCallDelivers`) |
| `download_no_crc` | 2 versions alike of 3 parts without CRC, urls pin a version | content hash and urls suffice; the record never claims more than the file holds; a call without failures delivers, whatever came before (`OkMeansWhole`, `RecordBehindFile`, `QuietCallDelivers`) |
| `download_all_events` | 2 versions of 2 and 3 parts, no hashes, 2 calls, 2 events of every kind | types, `PartsAccounted`, `LockDiscipline`, and every call ends (`CallReturns`) |
| `upload_resume` | 2 versions of 2 parts, 3 uploads, 3 calls, 4 events of every kind, rapid upload | types, `OkMeansWhole`, `ListedPartsAreStored`, `CallReturns` |
| `upload_recovery` | 2 versions, 4 uploads, 4 calls, 3 events | the second of two calls without failures delivers (`SecondQuietCallDelivers`); readers see whole versions only (`ImplementsAtomicPublish`) |
| `download_over_pool` | 2 threads of a download and a caller of single requests, 3 connections of which `curl_easy_init` gives 2 for sure | types, `HandlesAccounted`, `NoHandleIsForgotten`; the threads never all wait for one another (`NeverStuck`), and all come to their end (`AllDownloadsEnd`) |
| `client_calls` | every operation with none and all of its options, small uploads and downloads of four contents, four clients, 1 retry, 1 call, 2 events of every kind | types, small uploads store what was sent and small downloads are whole (`OkMeansStored`, `DestIsReplacedWhole`), success and failure mean what they say (`FailureMeansDoubt`), options are sent, results are read (`OptionsAreSent`, `ResultIsRead`), every request goes to the url it was given or that of its operation (`UrlIsKept`), every call ends (`CallReturns`) |
| `thread_executor` | 3 tasks, 2 callers, threads that cannot be started | types, the spin lock (`LockIsHeldByOne`), the assertion in `detach` (`ThreadIsFound`), `NobodyIsInside` after the destructor, which ends (`DestructionEnds`), and `AcceptedTasksAreRun`: a task is held up only inside its own `execute()`, once a thread could not be started |
| `part_plan` | files of 1 to 11 bytes that change between calls, part sizes 0 to 3, at most 3 parts, bytes of 2 bits, words of 4 bytes, both byte orders | types, `PlanCoversFile`, `PartSizeIsLeast`, `PartSizeIsFound`, and the checksum of the file from those of its parts (`CombinedCrcIsOfFile`) |
| `download_part_lost`, `download_starved`, `plan_last_part` | see section 4 | disagreements of the code with what it says |

**Why the bounds are enough.**  Two workers meet in every pair of steps of the
download loop, and no action looks at a third.  Two or three parts make room for
one part that is done, one in flight and one queued.  Two versions tell stale
from fresh; three calls are: one that is disturbed, one that trips over what the
first left, and one that should be fine (four where the property speaks of two
good calls).  Three or four events allow a failure in each.  In
`download_over_pool` three threads are the least that give a holder of `lock_`, a
holder of a handle and an outsider, and three connections the least for which the
pool grows twice.  In `client_calls` one retry has a first and a last attempt; two
events are one trouble on top of another, and what a call leaves behind for the next
is a set of initial states rather than a second call.  In `thread_executor` a task
that is given by a task, beside one that ends, takes three.  In `part_plan` 11 bytes
and a limit of 3 parts make sizes that fit exactly, leave a rest, and are doubled
once and twice; a part may have bytes before, in and behind whole words.

**Events left out of a run**, since with them the property does not hold of the
code (each is a hazard in `PROJECT.json`):

- `download_crc` leaves out `open`, `remove`, `flush` and `revert`: each makes a
  record, with its CRCs, outlive the bytes it vouches for.
- `download_no_crc` leaves out these, which put a record ahead of its file, and
  `withdraw`, which loses a part (`download_part_lost`).
- `upload_recovery` leaves out `expire` (a record that names a forgotten upload
  stays for ever), `withdraw` (the upload is completed with a hole, and the size
  check that finds it keeps the record), `edit` (a mixture of two versions is
  published) and `open` (a record that could not be rewritten lists too few parts;
  when the process then dies after the upload was completed, every later call
  asks for urls of a completed upload, and keeps the record).

Within `client_calls` the exceptions stand in the properties and are explained
there: an answer of a download that has no data, a put whose callback failed, the
options that get lost, the results that are never written.

`OkMeansWhole` of the upload speaks of calls during which the local file did not
change.  Without a checkpoint directory (`HasCheckpoint = FALSE`) an upload can
only fail and a download keeps no record: the models have these branches and no
run takes them.  `CHECK_DEADLOCK FALSE` appears where the bounds on calls, or the
end of all threads, stop the system.

**Fairness.**  Safety is checked of `Spec`.  `FairSpec` adds weak fairness of the
steps of each thread, the calling thread and every worker, and of nothing in the
environment: a thread that can go on does go on, and a request, with its retries,
ends at last (the client sets timeouts).  In `PdsClientImpl` the back-off is a timed
wait, so it ends though nobody wakes it.  In `ThreadExecutor` every thread, also one
that spins, goes on, and a task ends; the lock is given away finitely often, since
the tasks are finitely many.  In `DownloadOverPool` nothing is assumed
of the order in which threads get a mutex or a handle: weak fairness of a thread
whose lock is again and again taken by others demands nothing.

`AllDownloadsEnd`, and `NeverStuck`, need more handles than threads that can sit in a
transfer while one holds `lock_`: threads minus downloads must be less than the handles
the pool has for sure, and the pool begins with two.  This is the bound the run
keeps to, and `download_starved` shows what happens beyond it.

## 4. What the models found

1. **A part can get lost** (`download_part_lost`).  A worker that is asked to
   quit drops the part it popped, without an outcome (`ResumableDownloader.cc`
   72-80).  When the request to quit is withdrawn before lines 212-219 the check
   for "Not all parts are downloaded." compares two counters that both miss the
   part, and the call goes on to publish.
2. **Three threads can starve on sixteen connections** (`download_starved`).  A
   thread that saw a free handle and lost it sleeps without growing the pool; if
   it is the one that renews the url it holds `lock_`, and the two handles there
   are sit in transfers whose callbacks wait for it.
3. **The ten thousandth part is refused** (`plan_last_part`).
   `determinePartSize` allows `PartNumberUpperLimit` parts, and the message says "not
   ... greater than 10000", but the check of the requests asks for less than the limit: a file
   that takes exactly that many parts fails at its last, every time.

Met while modelling, and left out of the properties where these are stated:

- The CRC check of a download reads the CRCs of the record, not the temporary file
  (`ResumableDownloader.cc:252`).
- `validate` of a download discards a record of a modified source, but `hasRecord_` and
  `record_.parts` keep what was loaded, so the stale parts are skipped, and are
  written into the next record (`ResumableDownloader.cc:287`; `stale` in `PartPlan`).
  The upload clears them in time (`ResumableUploader.cc:411` and 602).
- A small upload reads its file while the PUT sends it (`PdsClientImpl.cc:751-760`) and
  takes the CRC of the bytes that leave (`CurlHttpClient.cc:232-249`): when the file is edited
  meanwhile a mixture of two contents is stored, and both the CRC and the size check
  accept it.  `OkMeansStored` says so: a content of the file, or such a mixture, is
  there, and nothing else.
- For `PartAlreadyExist`, which is to be ignored, the uploader takes the CRC from a
  result that was never filled in (`ResumableUploader.cc:158`).
- A small download renames what an earlier process left in the temporary file when
  the answer had no data and the size is right (`PdsClientImpl.cc:845-896`), and looks
  up a header that a failed request does not have (line 880).
- The 401 that is to be retried never is, since `Client::buildError` has replaced the
  code the test looks for; 599 is not either (`ClientConfiguration.cc:70`).
- `addHeaders` overwrites the user agent of a request; meta data of data requests and
  the traffic limit of `get_upload_url` are never sent, and small uploads do not pass
  the traffic limit on.
- A thread that cannot be started leaves the executor locked for ever
  (`ThreadExecutor.cc:61`).
- The size in the result of a rapid upload, and every number and flag of a result
  whose answer is not JSON, are uninitialised.

The models also contain, without a property, the behaviours listed under "Events
left out" and the notes of the hazards.

## 5. What is proved

With TLAPS, for every number of threads, versions, parts, uploads, connections,
calls and events and every setting of the options, from the assumptions on the
constants named in the modules (`VersionsAssumption`, `OptionsAssumption`,
`OperationsAssumption`, `BoundsAssumption`, `WorkersAssumption`, `PoolAssumption`, `CallersAssumption`,
`NoSubmitterAssumption`, `SizesAssumption`, `LimitsAssumption`, `WidthsAssumption`, `PolyAssumption`,
`ContentAssumption`) and, where the table
names one, a hypothesis of the theorem:

| Theorem | Says |
|---|---|
| `TypeCorrect` | `TypeOK` of the download |
| `EveryPartAccounted` | `PartsAccounted`: a part is queued, with one worker, or downloaded once |
| `LockIsExclusive` | `LockDiscipline` |
| `UploadTypeCorrect` | `TypeOK` of the upload |
| `ListedPartsStayStored` | `ListedPartsAreStored`: record and call list only what the service holds |
| `DownloadOkMeansWhole`, `DownloadIsAtomic` | `OkMeansWhole` and `ImplementsAtomicPublish` of the download, if `ChecksOn`: CRC and size checks are on, records can be opened and removed, bytes that were flushed are there, and no version comes back |
| `RecordStaysBehindFile`, `DownloadOkWithoutCrc`, `CompleteBeforeRename` | `RecordBehindFile` and `OkMeansWhole` of the download with or without CRC, and that a call goes on to the rename with every part in its list, if `Pinned`: urls keep serving the version they were issued for, hashes tell versions apart, and the events are those of `download_no_crc` |
| `QuietDownloadDelivers` | `QuietCallDelivers`: a download that meets no failure delivers, whatever the calls before it left on disk, if `Recoverable`: one of the two hypotheses above, hashes tell versions apart, and no version has fewer parts than an older one |
| `UploadOkMeansWhole` | `OkMeansWhole` of the upload, if `VersionsDiffer` in size or modification time |
| `UploadIsAtomic` | `ImplementsAtomicPublish` of the upload, if `Steady`: versions differ, nobody edits the file during a call or takes a request to quit back |
| `SecondQuietUploadDelivers` | `SecondQuietCallDelivers`: of two uploads in a row that meet no failure the second delivers, whatever the calls before them left, if `Recoverable`: `Steady`, the service forgets no upload, records can be opened, there is a checkpoint directory, and a SHA-1 where there is a CRC |
| `ClientTypes` | `TypeOK` of a call of the client |
| `ClientOkMeansStored` | `OkMeansStored`: a small upload that reports success left with the service what a PUT of the call sent, a content of the file or, if it was edited during the PUT, a mixture, of the size of the request |
| `ClientDestIsReplacedWhole` | `DestIsReplacedWhole` of a small download |
| `ClientFailureMeansDoubt` | `FailureMeansDoubt`: what the outcome says of how often the service carried an operation out |
| `ClientUrlIsKept` | `UrlIsKept`: a request goes to the url it was given, to the letter from the path on, or to the host of the endpoint and the path of the operation, for every text these may be |
| `ClientOptionsAreSent`, `ClientResultIsRead` | `OptionsAreSent`, `ResultIsRead`: what was given is in every attempt, what is returned was read |
| `PoolTypeCorrect` | `TypeOK` of the pool and the threads, `poolSize` within `maxConnections` included |
| `EveryHandleAccounted` | `HandlesAccounted`: no handle shared, free twice, or lost |
| `NoWakeupIsLost` | `NoHandleIsForgotten` |
| `ThreadsNeverStuck` | `NeverStuck`: some thread can go on as long as one has work to do, if `EnoughHandles`: every download has a thread, and the threads beyond the first of each are fewer than the handles the pool begins with |
| `ExecutorTypes`, `ExecutorLock`, `ExecutorFindsThread`, `ExecutorIsQuiet` | `TypeOK`, `LockIsHeldByOne`, `ThreadIsFound`, `NobodyIsInside` of the executor |
| `PlanTypes`, `PlanKeepsLimit`, `PlanCovers` | `TypeOK`, `PartSizeIsLeast`, `PlanCoversFile` of the part plan (the last for every upload, and for downloads without parts of a rejected record) |
| `PlansAgree` | upload and download cut a file into the same parts |
| `CalcIsOfBits` | the checksum of a block, table driven and a word at a time, in two pieces anywhere in memory and for either byte order, is that of its bits one after the other |
| `CombineIsOfBoth` | two checksums are combined into that of both blocks, whatever their lengths |
| `FileChecksumIsOfFile` | `CombinedCrcIsOfFile`: the checksum combined from the parts, those of earlier calls too, is that of the file (the same downloads left out) |

Each proof module defines the inductive invariant `Inv`, proves `Init => Inv` and,
with one lemma for each action, that a step keeps it, and reads the theorems off
it.

- **Download.**  `PartsAccounted` alone is not inductive: a worker lists its part
  after steps in which nothing says that the part is still its own.  The
  invariant adds which program counters have a part, that between two calls no
  worker has one, and that a *saved record lists no part twice*, which is what a
  call that resumes starts from; and `LockDiscipline`, without which two workers
  could be between opening and writing the record.
- **Upload.**  `ListedPartsAreStored` speaks of the upload that the record and the
  call name.  It is inductive only together with `Named`: a saved record names an
  upload, a call that lists, puts or saves has one, and one that has not yet
  created its upload has none.  The lemma behind every step is `Grows`: the
  service forgets uploads, never parts of one.
- **Whole downloads** (`WholeInv`).  What a record lists can be resumed from when each of
  its parts is in the temporary file, the parts at least whose CRC is not older than the
  version asked for (`InFile`: an older one fails the CRC check at the end), or when the
  file has been renamed away from under the record (`Spent`: the size check finds the
  empty file).  It is kept because bytes only come in for parts nobody has listed
  (`WrittenKeepsFile`, from `PartsAccounted`), because a record is behind the list only
  while a thread rewrites it (`Trusted`), and because the records of other hashes list
  nothing newer than the last call's version (`Ordered`).  At the end the CRC says which
  parts the list has and the size that they are still there (`ChecksFindWhole`).  The
  hypotheses on events are those of the run `download_crc`.  The refinement follows: the
  rename is the one step that changes the destination, and `Published` says that the
  temporary file is whole then.
- **Downloads without a CRC** (`PinnedInv`).  What stands in for the checksum is counting.
  A part in a list is in the file with the bytes of the version asked for (`Held`), or the
  list was left behind by a crash between the rename and the removal of the record, and
  then it has every part (`Left`).  A part in no list is in the queue or with a thread
  until the threads are done, or the call fails (`Queued`); so a call that goes on has
  them all.  That a thread's bytes are of the version asked for (`Fetched`) is what the
  pinned urls give, and `Forward` says that no record lists parts of a version that no
  call has asked for.  A request to quit that is taken back breaks `Queued`
  (`download_part_lost` shows it), an url that serves another version breaks `Fetched`.
- **Downloads that meet no failure** (`QuietInv`, on top of either invariant above).  What
  the record lists can be resumed from: every part is in the temporary file, or the file
  is the destination already and the record lists every part (`Resumable`); whatever is
  listed is of the version asked for or, with a CRC, of a newer one, and a version that
  no call has asked for has no record (`Lists`); urls are those of the version asked for
  (`Dated`).  In a call without failures no part gets lost between queue and list, and
  there is an outcome for no more parts than the list has (`Smooth`), so nothing is left
  to complain of at the end (`NothingToRejectYet`), unless the file is in place.
  `NeverShrinks` is needed because nobody cuts the temporary file: after a call for a
  longer version, its tail makes every later call fail the size check
  (`ResumableDownloader.cc:245`).
- **Whole uploads** (`WholeInv`).  The record leads back only to an upload that holds
  nothing but parts of the version the file has now (`Clean`), and record and call name
  the same one (`Agreed`).  This needs that `validateRecord` tells the versions apart,
  hence `VersionsDiffer`.  An upload of as many parts as the version has, all of them
  its own, is the version (`FullIsWhole`), so the size check finds every hole.  For the
  refinement `AllAccounted` says where a part is that no list has: in the queue, or being
  put, or the call fails; so what is completed is whole before it is checked.
- **Uploads that meet no failure** (`QuietInv`, on top of the two invariants above).  A
  record that a call would resume from names an upload that still takes parts, or lists
  every part of it (`Useful`): an upload is closed only when it is completed, and then
  the record says what the call lists (`Followed`), which is everything.  So a call that
  asks for the url of a part gets it, and a call without failures has nothing to complain
  of (`Smooth`) up to the completion.  There an upload that an earlier call completed may
  be refused, which drops the record; every end of such a call leaves no record, and the
  next has an upload of its own, which is not refused (`Fresh`).  The SHA-1 is needed
  where there is a CRC: a part that is already there is listed with the CRC of a result
  nobody initialised (`ResumableUploader.cc:158`).
- **Client calls** (`Inv` of `PdsClientImpl_proofs`).  Each property speaks of the end of
  a call, so the invariant says, for every step of it, what an answer that is good is
  worth: of a put, that the upload of the call holds the data whose CRC was compared,
  a content of the file or a mixture of the call (`Putting`); of a completion, that the file is what the upload holds (`Completing`);
  of a listing and a get, which content was listed and is in the temporary file
  (`Listings`, `Getting`); of a rapid upload, that what is there has the hash that was
  sent (`Creating`).  `Accounts` is what the loop of attempts keeps: each begins with
  every effect so far in doubt, so that after an answer there is at most one that is
  not.  It stands on `Stages` (which program counters go with which request) and
  `Sources` (the file a call reads has been seen).  `TypeOK`, `OkMeansStored`,
  `FailureMeansDoubt` and `ResultIsRead` follow from it; `DestIsReplacedWhole` follows
  since only `Rename` touches the destination, and `Getting` holds before it.
  `ClientOptionsAreSent` has an invariant of its own (`OptionsKept`): a message is made
  once and repeated as it is.  One lemma for each request class says that it carries
  its options (`...Carries`), one that the headers the client adds take none away.
- **Urls.**  A message keeps its url (`UrlIsMade`), so `ClientUrlIsKept` is about texts of
  any length.  The first place of a piece in a text is a least number, which is there
  because the order of the numbers is well founded (`LeastIs`, `PieceIsFound`); a text is
  cut there into two parts that make it up again (`WordSplits`), and no other place could
  be meant (`SplitIsUnique`).  From this the lemmas go up: user and host and port
  (`AuthorityIsKept`), path, query and fragment (`RestSplits`), a whole url
  (`DataUrlIsKept`).  An endpoint is taken apart, put together to a host, taken apart
  again (`HostStringIs`, `HostUrlIs`, `EndpointIsKept`), the second time in small letters,
  which move no separator (`LowerSplits`).
- **Pool.**  `HandlesAccounted` counts handles, so the invariant adds `Holding`
  (who has a handle at which program counter), `Growing` (only the thread in
  `growPool` has uncounted handles, and there is room for what it is to add) and
  `Numbered` (every handle in use or free has a number up to
  `poolSize + added`, so a new number is new).  `NoHandleIsForgotten` is inductive
  by counting: a step that puts a handle back makes its thread one that will
  notify, a notification turns one stirring thread into another as long as
  somebody sleeps, and a thread that goes to sleep found the list empty.
  `NeverStuck` needs two more facts (`StuckInv`): who holds `lock_` is asking for a url,
  so it waits for a handle and for nothing else (`Locking`), and a pool that was ever
  grown has, or is about to have, the handles that are needed (`Begun`).  If nobody can go
  on, somebody sleeps, so no handle is free, so all are with threads that wait for
  `lock_`; but each download has a thread that has none (`FewHolders`), which leaves more
  handles than threads to hold them.  The hypothesis is as weak as the code allows: with
  one handle less, or one thread more in a download, TLC finds the threads stuck.

- **Executor.**  `NobodyIsInside` needs to know why nobody can be inside: whoever is
  in `execute()` is a caller, and then the destructor has not begun, or a task whose
  thread runs (`Inside`); a thread that runs and was entered is in `threads_`
  (`Entered`), which is empty when the destructor returns (`Closed`); and a thread that
  was not entered yet belongs to an `execute()` that holds the lock, which cannot be
  when the lock is closed (`LockIsHeldByOne`).
- **Part plan.**  The theorems rest on lemmas about division (`LastPart`: the count of
  the upload is where the loop of the download ends) and on three invariants: a record
  has the part size its parts were placed with (`PartsBelong`), an upload that has got as
  far as a plan holds no part of a rejected record (`NotMixed`), and every plan that
  gets as far as a record keeps the limit (`RecordIsPlanned`), so that a call that
  resumes needs no `determinePartSize`.
- **Checksum.**  A loop is a fold, and the fold of the community modules is a recursive
  function on sets of numbers.  `Folding` says what it computes, for any operator, values
  and elements, which are parameters of the module: the last of the values that lead from
  one element to the next (`FoldIs`).  There is such a value for every prefix because a
  set of numbers has a least one (`LeastIs`, from the well-foundedness of `<`).  Each loop
  of `Crc64` is an instance of that module.  What carries the rest is that a step of the
  shift register is linear (`BitStepOfXor`, `StepsOfXor`) and that low bits that are zero
  are just shifted out (`StepsAreShifts`).  So a byte is eight steps (`ByteStepsAre`), an
  entry of the tables the steps of one byte of a word (`TableOfWord`), a word all its bytes
  (`WordIsFed`), and with what comes before and after whole words a block is fed byte by
  byte (`WordsAreFed`, `CrcLittleIs`).  On the other byte order every register is the
  reversed one (`BigByteIs`, `BigWordIs`, `CrcBigIs`).  A matrix stands for a number of
  steps (`Represents`), squaring doubles it (`SquareIs`), and the rounds of
  `crc64_combine` keep the number of steps left to do (`Rest`, `ZerosStepIs`), so zero
  bytes are put behind the first checksum as many as the second block has
  (`PutZerosIs`).  The file: sorting puts each part at the place of its number
  (`SortedIs`), the parts lie one behind the other (`EndsOfParts`, from the part plan's
  `PartsBelong`), and combining one more is having one more of the file (`PartsCombine`).

**Model-checked only.**  Liveness (`CallReturns`, `AllDownloadsEnd`, `DestructionEnds`,
`AcceptedTasksAreRun`, `PartSizeIsFound`) is beyond the prover.  It is checked on the
instances above.  Every safety invariant, action property and refinement that a passing
run checks has a theorem.

## 6. What is not modelled, and the plan

Done, in this order: `ResumableDownload`, `AtomicPublish`, `ResumableUpload`,
`DownloadOverPool`, `PdsClientImpl` with `ServiceOperations`, `ServiceResults` and `Url`,
`ThreadExecutor`, `PartPlan`, `Crc64`, `FileChecksum`, and a theorem for every safety
property of a run that passes.  Left: `ShutdownAndWait` of the pool, in
`DownloadOverPool`.

Not to be modelled: `PdsClientImpl::asyncExecute`, which no operation of the SDK calls (the
executor is modelled for itself); percent and Base64 encoding, digests, dates, logging
and the credentials holder (functions of their arguments, not about state); files and
directories (wrappers of the operating system, modelled where they are used); the rate
limiters and progress numbers; and vendored code.

## 7. Running it

    tlc -config download_crc.cfg MCResumableDownload
    tlapm ResumableDownload_proofs.tla

`PROJECT.json` names the module of every `.cfg`, maps every definition to the
lines it translates, and gives for every property of a passing run a mutant (a
definition with a plausible bug, beside the original in its module) with which
TLC finds the property violated.
