--------------------------- MODULE PdsClientImpl ---------------------------
(***************************************************************************)
(* One caller of a PdsClient: the service operations, each a request that  *)
(* Client::AttemptRequest sends up to four times, and the uploads and      *)
(* downloads of files no longer than a part, which string a few requests   *)
(* together (ResumableFileUpload and ResumableFileDownload; longer files   *)
(* go on in ResumableUpload and ResumableDownload).                        *)
(*                                                                         *)
(* The service and the network are external: a request may not leave, may  *)
(* be refused, may take effect although its answer is lost, or be answered *)
(* by something that is not JSON; data may arrive altered or cut.  Another *)
(* thread may disable and enable requests, the caller's handlers may stop  *)
(* or cancel, files may be edited on both sides, the process may die.      *)
(*                                                                         *)
(* Abstractions: the content of a file is an identity and a size, in units *)
(* of PartSizeLowerLimit, and its CRC-64 and SHA-1 are the content itself. *)
(***************************************************************************)
EXTENDS ServiceOperations, ServiceResults, Url, FiniteSets

CONSTANTS
    Operations,     \* the service operations the caller uses
    Uploads,        \* the upload requests and ...
    Downloads,      \* ... the download requests the caller may make
    Versions,       \* the contents a file may have, pairs of identity and size
    Configurations, \* the clients to check: endpoint and settings
    MaxRetries,     \* m_maxRetries
    Events,         \* the kinds of event the environment may cause
    MaxCalls,       \* bound on the number of calls
    MaxEvents       \* bound on the number of events

\* unsent: the request does not reach the service; lost: its answer does not
\* come back; busy: the service answers 429, 503 or 599; refuse: 403 or 401;
\* garble: the answer is not JSON; alter, cut: data arrives changed or short;
\* write: the temporary file cannot be written; variant: an unusual answer;
\* disable: another thread disables requests; stop, cancel: the handler asks;
\* edit: the local file changes; modify: the remote one; rename: RenameFile
\* fails; crash: the process dies.
EventKinds == {"unsent", "lost", "busy", "refuse", "garble", "alter", "cut", "write", "variant", "disable", "stop", "cancel",
               "edit", "modify", "rename", "crash"}

Settings == [endpoint : Seq(STRING), enableCrc64 : BOOLEAN, enableRapidUpload : BOOLEAN,
             enableCheckDownloadFileSize : BOOLEAN, enableDownloadPunishedFile : BOOLEAN]

ASSUME BoundsAssumption ==
    /\ Configurations \subseteq Settings
    /\ MaxRetries \in Nat /\ MaxCalls \in Nat /\ MaxEvents \in Nat
    /\ Events \subseteq EventKinds

VARIABLES
    \* the caller's side
    source,         \* the local file an upload reads
    tempFile, dest, \* the files a download writes
    configuration,  \* the client's settings
    enabled,        \* Client::isEnableRequest()
    control,        \* what the caller's progress control handler answers
    \* the service
    remote,         \* the file a download reads
    uploads,        \* the uploads that were created, with the data they hold
    stored,         \* the file an upload replaces
    \* the call
    call,           \* the operation and its options
    pc,
    step,           \* the request of the call that is on its way
    message,        \* what it sends
    attempt,        \* retry, the number of attempts that failed
    reply,          \* the response of the last attempt
    fileSize,       \* request.FileSize(), or the size get_download_url gave
    listed,         \* what get_download_url answered
    hashed,         \* the content whose SHA-1 was sent
    upload,         \* the upload the call works with
    result,         \* what the last call returned
    \* bookkeeping
    seen,           \* the contents its file had during the call
    mixed,          \* what its PUT may have sent instead, an edit having come between the bytes
    effects,        \* times the service carried out what the call asked for
    doubts,         \* answers of the call that were lost, or came with altered data
    misread,        \* an answer of the call was not JSON
    calls, events

files   == <<source, tempFile, dest>>
switch  == <<configuration, enabled, control>>
service == <<remote, uploads, stored>>
request == <<step, message, attempt, reply>>
target  == <<call, fileSize, listed, hashed, upload>>
ghosts  == <<seen, mixed, effects, doubts, misread>>
budget  == <<calls, events>>
vars    == <<files, switch, service, pc, request, target, result, ghosts, budget>>

-----------------------------------------------------------------------------
NoFile == <<>>
EmptyFile == <<0, 0>>
Size(content) == IF content = NoFile THEN 0 ELSE content[2]
Altered(content) == <<0, Size(content)>>
Cut(content) == <<0, Size(content) - 1>>
\* Some bytes from before an edit and some from after it, as many as the attempt announced (Content-Length).
Mixture(length) == <<200 + attempt, length>>

\* There is one empty content.
ASSUME VersionsAssumption == Versions \subseteq Nat \X Nat /\ \A v \in Versions : Size(v) = 0 => v = EmptyFile

NoData == <<>>
NoCall == [op |-> "none", options |-> NoFields]
NoMessage == [url |-> FromString(<<>>), path |-> "", headers |-> NoPairs, body |-> NoPairs]
NoReply == [status |-> 0, code |-> "", answer |-> Answer(NoFields), theirs |-> NoFile, mine |-> NoFile]
NotListed == [content |-> NoFile, hash |-> FALSE, punished |-> FALSE]

CurlBase == 200000              \* ERROR_CURL_BASE
CrcInconsistent == 100001
PunishFlagFileFreeze == 2

\* sure: everything the result holds was written by the code.
Success(sure) == [ok |-> TRUE, code |-> "", sure |-> sure]
Failure(code) == [ok |-> FALSE, code |-> code, sure |-> TRUE]
NotReturned == Failure("not returned")


IsTransfer == step \in {"Put", "Get"}

-----------------------------------------------------------------------------
(* The service operations: what they send and what they make of the        *)
(* answer.  x stands for what the constructors leave uninitialised.        *)

DirRequest(op, o) ==
    CASE op = "DirCreate" -> DirCreateRequest(o)
      [] op = "DirList"   -> DirListRequest(o)
      [] op = "DirSearch" -> DirSearchRequest(o)
      [] op = "DirRename" -> DirRenameRequest(o)
      [] op = "DirTrash"  -> DirTrashRequest(o)
      [] op = "DirDelete" -> DirDeleteRequest(o)
      [] op = "DirCopy"   -> DirCopyRequest(o)
      [] op = "DirMove"   -> DirMoveRequest(o)
      [] op = "DirHidden" -> DirHiddenRequest(o)
DirResult(op, a) ==
    CASE op = "DirCreate" -> DirCreateResult(a)
      [] op = "DirList"   -> DirListResult(a)
      [] op = "DirSearch" -> DirSearchResult(a)
      [] op = "DirRename" -> DirRenameResult(a)
      [] op = "DirTrash"  -> DirTrashResult(a)
      [] op = "DirDelete" -> DirDeleteResult(a)
      [] op = "DirCopy"   -> DirCopyResult(a)
      [] op = "DirMove"   -> DirMoveResult(a)
      [] op = "DirHidden" -> DirHiddenResult(a)

FileRequest(op, o, parts, x) ==
    CASE op = "FileCreate"            -> FileCreateRequest(o, parts)
      [] op = "FileGetUploadUrl"      -> FileGetUploadUrlRequest(o, parts)
      [] op = "FileListUploadedParts" -> FileListUploadedPartsRequest(o)
      [] op = "FileComplete"          -> FileCompleteRequest(o)
      [] op = "FileGetDownloadUrl"    -> FileGetDownloadUrlRequest(o)
      [] op = "FileGet"               -> FileGetRequest(o)
      [] op = "FileRename"            -> FileRenameRequest(o)
      [] op = "FileTrash"             -> FileTrashRequest(o)
      [] op = "FileDelete"            -> FileDeleteRequest(o)
      [] op = "FileGetVideoPreviewPlayInfo" -> FileGetVideoPreviewPlayInfoRequest(o, x)
      [] op = "FileCopy"              -> FileCopyRequest(o)
      [] op = "FileMove"              -> FileMoveRequest(o)
      [] op = "FileHidden"            -> FileHiddenRequest(o)
FileResult(op, a) ==
    CASE op = "FileCreate"            -> FileCreateResult(a)
      [] op = "FileGetUploadUrl"      -> FileGetUploadUrlResult(a)
      [] op = "FileListUploadedParts" -> FileListUploadedPartsResult(a)
      [] op = "FileComplete"          -> FileCompleteResult(a)
      [] op = "FileGetDownloadUrl"    -> FileGetDownloadUrlResult(a)
      [] op = "FileGet"               -> FileGetResult(a)
      [] op = "FileRename"            -> FileRenameResult(a)
      [] op \in {"FileTrash", "FileDelete"} -> {NoFields}
      [] op = "FileGetVideoPreviewPlayInfo" -> FileGetVideoPreviewPlayInfoResult(a)
      [] op = "FileCopy"              -> FileCopyResult(a)
      [] op = "FileMove"              -> FileMoveResult(a)
      [] op = "FileHidden"            -> FileHiddenResult(a)

DirOperations == {"DirCreate", "DirList", "DirSearch", "DirRename", "DirTrash", "DirDelete", "DirCopy", "DirMove", "DirHidden"}
FileOperations ==
    {"FileCreate", "FileGetUploadUrl", "FileListUploadedParts", "FileComplete", "FileGetDownloadUrl", "FileGet", "FileRename",
     "FileTrash", "FileDelete", "FileGetVideoPreviewPlayInfo", "FileCopy", "FileMove", "FileHidden"}
DataOperations == {"DataGetByUrl", "DataPutByUrl"}
OtherOperations == {"AsyncTaskGet", "MetaUserTagsPut", "MetaUserTagsDelete"}

\* The options an operation has, with the values its request is constructed with.
DirDefaults(op) ==
    CASE op = "DirCreate" -> DirCreateDefaults
      [] op = "DirList"   -> DirListDefaults
      [] op = "DirSearch" -> DirSearchDefaults
      [] op = "DirRename" -> DirRenameDefaults
      [] op = "DirTrash"  -> DirTrashDefaults
      [] op = "DirDelete" -> DirDeleteDefaults
      [] op = "DirCopy"   -> DirCopyDefaults
      [] op = "DirMove"   -> DirMoveDefaults
      [] op = "DirHidden" -> DirHiddenDefaults
FileDefaults(op) ==
    CASE op = "FileCreate"            -> FileCreateDefaults
      [] op = "FileGetUploadUrl"      -> FileGetUploadUrlDefaults
      [] op = "FileListUploadedParts" -> FileListUploadedPartsDefaults
      [] op = "FileComplete"          -> FileCompleteDefaults
      [] op = "FileGetDownloadUrl"    -> FileGetDownloadUrlDefaults
      [] op = "FileGet"               -> FileGetDefaults
      [] op = "FileRename"            -> FileRenameDefaults
      [] op = "FileTrash"             -> FileTrashDefaults
      [] op = "FileDelete"            -> FileDeleteDefaults
      [] op = "FileGetVideoPreviewPlayInfo" -> FileGetVideoPreviewPlayInfoDefaults
      [] op = "FileCopy"              -> FileCopyDefaults
      [] op = "FileMove"              -> FileMoveDefaults
      [] op = "FileHidden"            -> FileHiddenDefaults
Defaults(op) ==
    CASE op \in DirOperations        -> DirDefaults(op)
      [] op \in FileOperations       -> FileDefaults(op)
      [] op = "AsyncTaskGet"         -> AsyncTaskGetDefaults
      [] op = "MetaUserTagsPut"      -> MetaUserTagsPutDefaults
      [] op = "MetaUserTagsDelete"   -> MetaUserTagsDeleteDefaults
      [] op = "DataGetByUrl"         -> DataGetByUrlDefaults
      [] op = "DataPutByUrl"         -> DataPutByUrlDefaults

\* A caller gives texts to the options there are, and a url to a data request.
ASSUME OperationsAssumption ==
    \A c \in Operations :
        /\ c.op \in DirOperations \cup FileOperations \cup DataOperations \cup OtherOperations
        /\ c.options \in [DOMAIN Defaults(c.op) -> STRING]
        /\ c.op \in DataOperations => c.url \in Seq(STRING)

\* The requests of an operation, and the results its answer may come to.
Requests(c) ==
    LET o == c.options IN
    CASE c.op = "AsyncTaskGet"       -> {AsyncTaskGetRequest(o)}
      [] c.op \in DirOperations      -> {DirRequest(c.op, o)}
      [] c.op = "MetaUserTagsPut"    -> {MetaUserTagsPutRequest(o)}
      [] c.op = "MetaUserTagsDelete" -> {MetaUserTagsDeleteRequest(o)}
      [] c.op = "DataGetByUrl"       -> {DataGetByUrlRequest(o, c.range)}
      [] c.op = "DataPutByUrl"       -> {DataPutByUrlRequest(o)}
      [] OTHER                       -> {FileRequest(c.op, o, c.parts, x) : x \in {"", "unwritten"}}
Results(op, a, headers) ==
    CASE op = "AsyncTaskGet"       -> AsyncTaskGetResult(a)
      [] op \in DirOperations      -> DirResult(op, a)
      [] op = "MetaUserTagsPut"    -> MetaUserTagsPutResult(a)
      [] op = "MetaUserTagsDelete" -> {a}
      [] op = "DataGetByUrl"       -> {DataGetResult(headers)}
      [] op = "DataPutByUrl"       -> DataPutResult(headers)
      [] OTHER                     -> FileResult(op, a)

-----------------------------------------------------------------------------
(* One request: building, sending and judging it.                          *)

\* addHeader overwrites; what is added after hasHeader() has said no does not.
Overwritten(headers, key, value) == {h \in headers : h[1] # key} \cup {<<key, value>>}
Completed(headers, key, value) == IF \E h \in headers : h[1] = key THEN headers ELSE headers \cup {<<key, value>>}

\* addHeaders overwrites a user agent with the configured one; data requests carry no token.
AllHeaders(headers, isData) ==
    LET common == Overwritten(headers, "User-Agent", "configured")
        pds    == Completed(Overwritten(common, "Authorization", "token"), "Content-Type", "application/json")
    IN  Completed(IF isData THEN common ELSE pds, "Content-Length", "computed")

\* The url of a data request is taken as it was given, that of any other is made of the endpoint and the path.
SignedUrl == <<"https", ":", "/", "/", "host", "/", "object", "?", "signature">>
ServiceUrl == FromString(SignedUrl)
GivenUrl(c) == IF c.op \in DataOperations THEN FromString(c.url) ELSE ServiceUrl
\* Which endpoints pass, and the urls of their hosts.
Endpoints == {c.endpoint : c \in Configurations}
ValidEndpoints == {endpoint \in Endpoints : IsValidEndpoint(endpoint)}
HostUrls == [endpoint \in Endpoints |-> FromString(HostString(endpoint))]
BuildHttpRequest(c, m, isData) ==
    [url |-> IF isData THEN GivenUrl(c) ELSE AddUrl(HostUrls[configuration.endpoint], m.path),
     path |-> m.path, headers |-> AllHeaders(m.headers, isData), body |-> m.body]

CrcDiffers(r) == /\ configuration.enableCrc64 /\ r.theirs # NoFile
                 /\ \A h \in message.headers : h[1] # "Range"
                 /\ r.mine # r.theirs

IsCallback == Has(<<"callback=">>, message.url.query)

\* A plausible bug: every answer of the service counts as success.
HasResponseError_Lenient(r) == r.status \div 100 \notin {2, 4}

HasResponseError(r) == \/ r.status \div 100 # 2
                       \/ CrcDiffers(r)
                       \/ r.status = 203 /\ IsCallback

StatusOf(r) == IF r.status \div 100 = 2 /\ CrcDiffers(r) THEN CrcInconsistent ELSE r.status

\* Client::buildError names a status, never the error in the body; PdsClientImpl::buildError then takes that of a JSON or XML body.
IsServerError(status) == status = 203 \/ (status > 299 /\ status < 600)
ClientErrorCode(status) == IF IsServerError(status) THEN "ServerError" ELSE "ClientError"
ErrorCode(r) == IF r.code # "" THEN r.code ELSE ClientErrorCode(StatusOf(r))

CurlRetried == {7, 18, 23, 28, 52, 55, 56}
ShouldRetry(status, code, attempted) ==
    /\ attempted < MaxRetries
    /\ \/ status = 401 /\ code = "AccessTokenInvalid"
       \/ status = 429
       \/ status > 499 /\ status < 599
       \/ status - CurlBase \in CurlRetried

\* MakeRequest validates the request; DataPutByUrl goes straight to AttemptRequest.
Begin(c, s, m, isData, isPut) ==
    /\ step' = s
    /\ message' = BuildHttpRequest(c, m, isData)
    /\ attempt' = 0
    /\ IF isPut \/ (m.valid /\ configuration.endpoint \in ValidEndpoints) THEN pc' = "attempt" /\ reply' = NoReply
       ELSE pc' = "returned" /\ reply' = [NoReply EXCEPT !.code = "ValidateError"]

Event(kind) == kind \in Events /\ events < MaxEvents /\ events' = events + 1 /\ UNCHANGED calls
Calm == UNCHANGED budget

Broken(curl) == [NoReply EXCEPT !.status = CurlBase + curl]

\* AttemptOnceRequest looks at the flag before it sends anything.
AttemptDisabled ==
    /\ pc = "attempt" /\ ~enabled
    /\ reply' = [NoReply EXCEPT !.code = "ClientError:100002"]
    /\ pc' = "decide" /\ Calm
    /\ UNCHANGED <<files, switch, service, step, message, attempt, target, result, ghosts>>

\* curl refuses an empty url (CURLE_URL_MALFORMAT).
UrlMalformed ==
    /\ pc = "attempt" /\ enabled /\ UrlToString(message.url) = <<>>
    /\ reply' = Broken(3) /\ pc' = "decide" /\ Calm
    /\ UNCHANGED <<files, switch, service, step, message, attempt, target, result, ghosts>>

\* The request ends in r without the service doing anything.
EndWith(kind, r) ==
    /\ pc = "attempt" /\ enabled /\ UrlToString(message.url) # <<>>
    /\ Event(kind)
    /\ reply' = r /\ pc' = "decide"
    /\ UNCHANGED <<source, dest, switch, service, step, message, attempt, target, result, ghosts>>

ErrorReply(status, code) == [NoReply EXCEPT !.status = status, !.code = code]

Unsent == \E curl \in {6, 7} : EndWith("unsent", Broken(curl)) /\ UNCHANGED tempFile
Busy == \E status \in {429, 503, 599} : EndWith("busy", ErrorReply(status, "")) /\ UNCHANGED tempFile
Refused == /\ \/ EndWith("refuse", ErrorReply(401, "AccessTokenInvalid"))
              \/ EndWith("refuse", ErrorReply(403, "Forbidden"))
           /\ UNCHANGED tempFile

Decide ==
    /\ pc = "decide"
    /\ pc' = IF /\ HasResponseError(reply) /\ enabled
                /\ ShouldRetry(StatusOf(reply), ClientErrorCode(StatusOf(reply)), attempt)
             THEN "waiting" ELSE "returned"
    /\ Calm
    /\ UNCHANGED <<files, switch, service, request, target, result, ghosts>>

\* A plausible bug: wait() in place of wait_for(): only disable() wakes the thread up.
WaitForRetry_Untimed ==
    /\ pc = "waiting" /\ ~enabled
    /\ pc' = "attempt" /\ attempt' = attempt + 1 /\ Calm
    /\ UNCHANGED <<files, switch, service, step, message, reply, target, result, ghosts>>

\* A plausible bug: an attempt is not counted.
WaitForRetry_Miscounted ==
    /\ pc = "waiting"
    /\ pc' = "attempt" /\ attempt' = attempt + 2 /\ Calm
    /\ UNCHANGED <<files, switch, service, step, message, reply, target, result, ghosts>>

\* waitForRetry: the time is over, or disable() woke the thread up.
WaitForRetry ==
    /\ pc = "waiting"
    /\ pc' = "attempt" /\ attempt' = attempt + 1 /\ Calm
    /\ UNCHANGED <<files, switch, service, step, message, reply, target, result, ghosts>>

-----------------------------------------------------------------------------
(* What the service does with a request (external).                        *)

Reaction(r) == [reply |-> r, uploads |-> uploads, stored |-> stored, temp |-> tempFile, effect |-> 0]
OkReply(fields) == [NoReply EXCEPT !.status = 200, !.answer = Answer(fields)]

NewUpload == Len(uploads) + 1
UploadUrl(n) == [part_number |-> 1, part_size |-> fileSize, upload_url |-> n]
Created(parts) ==
    [Reaction(OkReply([file_id |-> NewUpload, upload_id |-> NewUpload, part_info_list |-> parts]))
        EXCEPT !.uploads = Append(uploads, [data |-> NoData, done |-> FALSE])]

ServeCreate ==
    {Created(<<UploadUrl(NewUpload)>>)}
    \cup (IF step = "PreCheck" THEN {Reaction(ErrorReply(409, "PreHashMatched"))} ELSE {})
    \cup (IF step = "Rapid" /\ Size(hashed) = fileSize
          THEN {[Reaction(OkReply([file_id |-> 0, rapid_upload |-> TRUE])) EXCEPT !.stored = hashed]} ELSE {})
UnusualCreate == {Created(<<>>), Reaction(OkReply([file_id |-> 0, exist |-> TRUE]))}

\* The upload of the call with this data.
Holding(data, done) == [uploads EXCEPT ![upload] = [data |-> data, done |-> done]]

\* The file is read while it is sent, and the CRC taken of what is sent: an edit comes before, behind or between the bytes; a
\* file that has become too short then leaves the request unfinished.
Sendable == {source} \cup {m \in mixed : m = Mixture(Size(m)) /\ Size(m) <= Size(source)}
ServePut ==
    IF uploads[upload].data = NoData
    THEN {[Reaction([OkReply(NoFields) EXCEPT !.theirs = c, !.mine = c]) EXCEPT !.uploads = Holding(c, FALSE)] : c \in Sendable}
    ELSE {Reaction(ErrorReply(409, "PartAlreadyExist"))}

ServeComplete ==
    LET u == uploads[upload]
        completed == OkReply([size |-> Size(u.data)])
    IN  IF u.data = NoData THEN {Reaction(ErrorReply(400, "InvalidParameter"))}
        ELSE IF u.done THEN {Reaction(completed), Reaction(ErrorReply(404, "NotFound"))}
        ELSE {[Reaction(completed) EXCEPT !.uploads = Holding(u.data, TRUE), !.stored = u.data]}

Listing(hash, punished) ==
    Reaction([OkReply([url |-> "url", size |-> Size(remote), crc64_hash |-> IF hash THEN "crc" ELSE "", content_hash |-> "hash",
                       punish_flag |-> IF punished THEN PunishFlagFileFreeze ELSE 0])
              EXCEPT !.theirs = remote, !.mine = remote])
UnusualListing == {Listing(FALSE, FALSE), Listing(TRUE, TRUE), Reaction(OkReply([size |-> Size(remote)]))}

\* A url may serve the version it was given for, or whatever the file has become; a frozen file is served as a notice.
Notice == <<100, 1>>
Served == IF listed.punished THEN {Notice} ELSE {listed.content, remote}
\* Data goes to the temporary file, truncated first; without any the file is not touched.
Written(content) == IF Size(content) = 0 THEN tempFile ELSE content
ServeGet == {[Reaction([OkReply(NoFields) EXCEPT !.theirs = c, !.mine = c]) EXCEPT !.temp = Written(c)] : c \in Served}

ServeOnly == {[Reaction([OkReply(NoFields) EXCEPT !.theirs = <<1, 1>>, !.mine = <<1, 1>>]) EXCEPT !.effect = 1]}
UnusualOnly == {[Reaction([OkReply(NoFields) EXCEPT !.status = 203]) EXCEPT !.effect = 1]}

Reactions ==
    CASE pc # "attempt"    -> {}
      [] step \in {"PreCheck", "Rapid", "Create"} -> ServeCreate
      [] step = "Put"      -> ServePut
      [] step = "Complete" -> ServeComplete
      [] step = "GetUrl"   -> {Listing(TRUE, FALSE)}
      [] step = "Get"      -> ServeGet
      [] step = "Only"     -> ServeOnly
Unusual ==
    CASE pc # "attempt"     -> {}
      [] step \in {"PreCheck", "Rapid", "Create"} -> UnusualCreate
      [] step = "GetUrl" -> UnusualListing
      [] step = "Only"   -> UnusualOnly
      [] OTHER           -> {}

Carry(r) ==
    /\ pc = "attempt" /\ enabled /\ UrlToString(message.url) # <<>>
    /\ uploads' = r.uploads /\ stored' = r.stored /\ tempFile' = r.temp
    /\ effects' = effects + r.effect
    /\ pc' = "decide"
    /\ UNCHANGED <<source, dest, configuration, control, remote, step, message, attempt, target, result, seen, mixed>>

Answered ==
    /\ \/ (\E r \in Reactions : Carry(r) /\ reply' = r.reply) /\ Calm
       \/ Event("variant") /\ \E r \in Unusual : Carry(r) /\ reply' = r.reply
    /\ UNCHANGED <<enabled, doubts, misread>>

AnswerLost ==
    \E r \in Reactions :
        /\ Carry(r) /\ Event("lost")
        /\ reply' = Broken(56) /\ doubts' = doubts + 1
        /\ UNCHANGED <<enabled, misread>>

AnswerGarbled ==
    \E r \in Reactions :
        /\ Carry(r) /\ Event("garble")
        /\ ~IsTransfer /\ call.op \notin DataOperations /\ r.reply.status = 200
        /\ reply' = [r.reply EXCEPT !.answer = Unreadable]
        /\ misread' = TRUE
        /\ UNCHANGED <<enabled, doubts>>

\* progressCallback ends a transfer when requests are disabled or the handler says so.
Aborted ==
    /\ \E r \in Reactions \cup {Reaction(NoReply)} : Carry(r)
    /\ reply' = Broken(42) /\ doubts' = doubts + 1
    /\ \/ Event("disable") /\ enabled' = FALSE
       \/ IsTransfer /\ control # "go" /\ Calm /\ UNCHANGED enabled
    /\ UNCHANGED misread

\* Data that arrives changed: on the service's disk, in the temporary file, or in the caller's stream.
DataAltered ==
    \E r \in Reactions :
        /\ (IsTransfer \/ call.op \in DataOperations) /\ r.reply.status = 200
        /\ Size(r.reply.theirs) > 0 /\ Event("alter")
        /\ IF step = "Put"
           THEN /\ Carry([r EXCEPT !.uploads = Holding(Altered(r.reply.theirs), FALSE)])
                /\ reply' = [r.reply EXCEPT !.theirs = Altered(@)]
           ELSE /\ Carry([r EXCEPT !.temp = IF step = "Get" THEN Written(Altered(r.reply.theirs)) ELSE @])
                /\ reply' = [r.reply EXCEPT !.mine = Altered(@)]
        /\ doubts' = doubts + 1
        /\ UNCHANGED <<enabled, misread>>

\* The connection breaks while data arrives, or the temporary file cannot be written.
DataCut ==
    \E r \in Reactions :
        /\ step = "Get" /\ Size(r.reply.theirs) > 0
        /\ \/ Event("cut") /\ Carry([r EXCEPT !.temp = Cut(r.reply.theirs)]) /\ reply' = Broken(18)
           \/ Event("write") /\ Carry([r EXCEPT !.temp = EmptyFile]) /\ reply' = Broken(23)
        /\ UNCHANGED <<enabled, doubts, misread>>

-----------------------------------------------------------------------------
(* Calls.                                                                  *)

Return(r) == pc' = "idle" /\ result' = r
Fail(code) == Return(Failure(code)) /\ UNCHANGED request
Send(s, m) == Begin(call, s, m, s \in {"Put", "Get"}, s = "Put") /\ UNCHANGED result

IsGood == reply.status # 0 /\ ~HasResponseError(reply)
Arrived(s) == pc = "returned" /\ step = s /\ Calm
FailWithReply == ~IsGood /\ Fail(ErrorCode(reply))

Start(c, contents) ==
    /\ pc = "idle" /\ calls < MaxCalls
    /\ calls' = calls + 1 /\ UNCHANGED events
    /\ call' = c
    /\ control' = "go"
    /\ seen' = contents /\ mixed' = {} /\ effects' = 0 /\ doubts' = 0 /\ misread' = FALSE
    /\ listed' = NotListed /\ hashed' = NoFile /\ upload' = 0
    /\ UNCHANGED <<dest, configuration, enabled, uploads, stored>>

CallOperation ==
    \E c \in Operations :
        /\ Start(c, {})
        /\ \E m \in Requests(call') : Begin(c, "Only", m, c.op \in DataOperations, c.op = "DataPutByUrl")
        /\ fileSize' = 0 /\ result' = NotReturned
        /\ UNCHANGED <<source, tempFile, remote>>

ReturnOperation ==
    /\ Arrived("Only")
    /\ LET headers == IF call.op \in DataOperations /\ configuration.enableCrc64 THEN CrcGiven ELSE NoFields
       IN  Return(IF IsGood THEN Success(Cardinality(Results(call.op, reply.answer, headers)) = 1)
                  ELSE Failure(ErrorCode(reply)))
    /\ UNCHANGED <<files, switch, service, request, target, ghosts>>

-----------------------------------------------------------------------------
(* ResumableFileUpload of a file no longer than a part.                    *)

\* The request takes the size of the file, which may be any between calls, when it is made; the call comes later.
MakeUploadRequest ==
    \E o \in Uploads, v \in Versions \cup {NoFile} :
        /\ Start([op |-> "Upload", options |-> o], {v})
        /\ source' = v /\ fileSize' = Size(v)
        /\ pc' = "validate" /\ step' = (IF v = NoFile THEN "no file" ELSE "file") /\ message' = NoMessage
        /\ attempt' = 0 /\ reply' = NoReply /\ result' = NotReturned
        /\ UNCHANGED <<tempFile, remote>>

ResumableRequestIsValid(o) ==
    /\ o.partSize >= 1 /\ o.threadNum > 0           \* PartSizeLowerLimit is the unit of sizes
    /\ o.checkpointDirW = "" /\ o.filePathW = ""
    /\ o.checkpointDir # "missing"
UploadRequestIsValid(o, isFileExist) ==
    ResumableRequestIsValid(o) /\ isFileExist /\ ~(o.taskID = "" /\ o.checkNameMode = "auto_rename")

PartInfoReqList == <<1>>
CreateRequest(preHash, contentHash) ==
    LET o == call.options IN
    FileCreateRequest([driveID |-> o.driveID, parentFileID |-> o.parentFileID, name |-> o.name, fileID |-> o.fileID,
                       checkNameMode |-> o.checkNameMode, size |-> "size", preHash |-> preHash, contentHash |-> contentHash,
                       hidden |-> o.hidden, userTags |-> o.userTags], PartInfoReqList)

ResumableFileUpload ==
    /\ pc = "validate" /\ call.op = "Upload"
    /\ LET isValid == UploadRequestIsValid(call.options, step = "file")
           isSmall == isValid /\ fileSize <= call.options.partSize
           \* The first 1024 bytes are hashed, or the whole of a shorter file.
           isRead == source # NoFile /\ (Size(source) > 0 \/ fileSize = 0)
       IN  \/ ~isValid /\ Fail("ValidateError")
           \/ isValid /\ ~isSmall /\ Fail("to ResumableUploader")
           \/ isSmall /\ configuration.enableRapidUpload /\ ~isRead /\ Fail("ReadFileError")
           \/ isSmall /\ configuration.enableRapidUpload /\ isRead /\ Send("PreCheck", CreateRequest("preHash", ""))
           \/ isSmall /\ ~configuration.enableRapidUpload /\ Send("Create", CreateRequest("", ""))
    /\ Calm
    /\ UNCHANGED <<files, switch, service, target, ghosts>>

\* The first url of the answer is used; no part of it says that it belongs to part 1.
UploadData(created) ==
    \/ created["exist"] /\ Fail("SameNameFileExist") /\ UNCHANGED upload
    \/ ~created["exist"] /\ created["part_info_list"] = <<>> /\ Fail("GetUploadUrlError") /\ UNCHANGED upload
    \/ /\ ~created["exist"] /\ created["part_info_list"] # <<>>
       /\ upload' = created["part_info_list"][1]["upload_url"]
       /\ Send("Put", DataPutByUrlRequest([DataPutByUrlDefaults EXCEPT !.url = "url"]))

\* The whole file is hashed.  (Edited meanwhile, it has the hash of a mixture, which is that of no file the service has: it
\* answers with an upload, as it may to any hash.)
AfterPreCheck ==
    /\ Arrived("PreCheck")
    /\ \/ /\ ~IsGood /\ ErrorCode(reply) = "PreHashMatched"
          /\ hashed' = source
          /\ Send("Rapid", CreateRequest("", "contentHash")) /\ UNCHANGED upload
       \/ ErrorCode(reply) # "PreHashMatched" /\ FailWithReply /\ UNCHANGED <<upload, hashed>>
       \/ IsGood /\ (\E created \in FileCreateResult(reply.answer) : UploadData(created)) /\ UNCHANGED hashed
    /\ UNCHANGED <<files, switch, service, call, fileSize, listed, ghosts>>

AfterRapid ==
    /\ Arrived("Rapid")
    /\ \/ FailWithReply /\ UNCHANGED upload
       \/ \E created \in FileCreateResult(reply.answer) :
            /\ IsGood /\ created["rapid_upload"]
            /\ Return(Success(Cardinality(FileCompleteResultOfCreate(created)) = 1)) /\ UNCHANGED <<request, upload>>
       \/ IsGood /\ \E created \in FileCreateResult(reply.answer) : ~created["rapid_upload"] /\ UploadData(created)
    /\ UNCHANGED <<files, switch, service, call, fileSize, listed, hashed, ghosts>>

AfterCreate ==
    /\ Arrived("Create")
    /\ \/ FailWithReply /\ UNCHANGED upload
       \/ IsGood /\ \E created \in FileCreateResult(reply.answer) : UploadData(created)
    /\ UNCHANGED <<files, switch, service, call, fileSize, listed, hashed, ghosts>>

\* A plausible bug: the handler and the answer to the put are not looked at before the upload is completed.
AfterPut_Unchecked ==
    /\ Arrived("Put")
    /\ Send("Complete", FileCompleteRequest([driveID |-> call.options.driveID, fileID |-> "fileID", uploadID |-> "uploadID"]))
    /\ UNCHANGED <<files, switch, service, target, ghosts>>

\* The handler is asked before the answer to the put is looked at.
AfterPut ==
    /\ Arrived("Put")
    /\ \/ control = "stop" /\ Fail("ClientError:100003")
       \/ control = "cancel" /\ Fail("ClientError:100004")
       \/ control = "go" /\ FailWithReply
       \/ /\ control = "go" /\ IsGood
          /\ Send("Complete", FileCompleteRequest([driveID |-> call.options.driveID, fileID |-> "fileID", uploadID |-> "uploadID"]))
    /\ UNCHANGED <<files, switch, service, target, ghosts>>

AfterComplete ==
    /\ Arrived("Complete")
    /\ \/ FailWithReply
       \/ /\ IsGood
          /\ \E completed \in FileCompleteResult(reply.answer) :
                IF completed["size"] # fileSize THEN Fail("FileSizeCheckError")
                ELSE Return(Success(reply.answer.readable)) /\ UNCHANGED request
    /\ UNCHANGED <<files, switch, service, target, ghosts>>

-----------------------------------------------------------------------------
(* ResumableFileDownload of a file shorter than a part, or of one that is  *)
(* punished, of any length.                                                *)

DownloadRequestIsValid(o) == ResumableRequestIsValid(o) /\ o.filePath # ""

\* validate() opens the temporary file for appending, which creates it; an earlier process may have left one.
ResumableFileDownload ==
    \E o \in Downloads, v \in Versions, left \in Versions \cup {tempFile} :
        /\ Start([op |-> "Download", options |-> o], {v})
        /\ remote' = v /\ fileSize' = 0
        /\ IF ~DownloadRequestIsValid(o)
           THEN Fail("ValidateError") /\ tempFile' = left
           ELSE /\ Begin(call', "GetUrl",
                         FileGetDownloadUrlRequest([driveID |-> o.driveID, shareID |-> o.shareID, fileID |-> o.fileID,
                                                    urlExpireSec |-> "", shareToken |-> o.shareToken]), FALSE, FALSE)
                /\ tempFile' = IF left = NoFile THEN EmptyFile ELSE left
                /\ result' = NotReturned
        /\ UNCHANGED source

AfterGetUrl ==
    /\ Arrived("GetUrl")
    /\ \/ FailWithReply /\ UNCHANGED <<listed, fileSize>>
       \/ /\ IsGood
          /\ \E answer \in FileGetDownloadUrlResult(reply.answer) :
               LET punished == answer["punish_flag"] = PunishFlagFileFreeze
                   refused == punished /\ ~configuration.enableDownloadPunishedFile
                   small == answer["size"] < call.options.partSize \/ punished
                   got == answer["url"] # "" /\ ~refused
               IN  /\ fileSize' = answer["size"]
                   /\ listed' = [content |-> reply.theirs, hash |-> answer["crc64_hash"] # "", punished |-> punished]
                   /\ \/ answer["url"] = "" /\ Fail("DownloadUrlEmptyError")
                      \/ answer["url"] # "" /\ refused /\ Fail("FileIsPunished")
                      \/ got /\ ~small /\ Fail("to ResumableDownloader")
                      \/ /\ got /\ small
                         /\ Send("Get", DataGetByUrlRequest([url |-> answer["url"], metaData |-> "", userAgent |-> "",
                                                             trafficLimit |-> call.options.trafficLimit], <<>>))
    /\ UNCHANGED <<files, switch, service, call, hashed, upload, ghosts>>

\* A plausible bug: after a timeout of the GET the file is renamed all the same.
AfterGet_Unchecked ==
    /\ Arrived("Get") /\ pc' = "rename"
    /\ UNCHANGED <<result, request, tempFile, source, dest, switch, service, target, ghosts>>

\* Whether the GET succeeded is not asked.  When the hash is listed a failed one has no CRC header and
\* at() throws; a CRC that differs has failed the GET already, so CrcCheckError is never reached.
AfterGet ==
    /\ Arrived("Get")
    /\ LET rightSize == \/ ~configuration.enableCheckDownloadFileSize
                        \/ Size(tempFile) = fileSize
                        \/ listed.punished
           checked == configuration.enableCrc64 /\ listed.hash
       IN  \/ control = "stop" /\ Fail("ClientError:100003") /\ tempFile' = NoFile
           \/ control = "cancel" /\ Fail("ClientError:100004") /\ tempFile' = NoFile
           \/ control = "go" /\ ~rightSize /\ Fail("FileSizeCheckError") /\ UNCHANGED tempFile
           \/ control = "go" /\ rightSize /\ checked /\ ~IsGood /\ Fail("out_of_range") /\ UNCHANGED tempFile
           \/ /\ control = "go" /\ rightSize /\ (checked => IsGood)
              /\ pc' = "rename" /\ UNCHANGED <<result, request, tempFile>>
    /\ UNCHANGED <<source, dest, switch, service, target, ghosts>>

\* The outcome of the GET is returned, whatever it was.
Rename ==
    /\ pc = "rename"
    /\ \/ Event("rename") /\ Fail("RenameError") /\ UNCHANGED <<tempFile, dest>>
       \/ /\ Calm /\ dest' = tempFile /\ tempFile' = NoFile
          /\ Return(IF IsGood THEN Success(TRUE) ELSE Failure(ErrorCode(reply))) /\ UNCHANGED request
    /\ UNCHANGED <<source, switch, service, target, ghosts>>

-----------------------------------------------------------------------------
(* Everybody else.                                                         *)

DisableRequest ==
    /\ enabled /\ Event("disable") /\ enabled' = FALSE
    /\ UNCHANGED <<files, configuration, control, service, pc, request, target, result, ghosts>>

EnableRequest ==
    /\ ~enabled /\ enabled' = TRUE /\ Calm
    /\ UNCHANGED <<files, configuration, control, service, pc, request, target, result, ghosts>>

\* The caller's handler answers stop or cancel from now on.
AskToQuit ==
    /\ pc # "idle" /\ call.op \in {"Upload", "Download"} /\ control = "go"
    /\ \E wish \in {"stop", "cancel"} : Event(wish) /\ control' = wish
    /\ UNCHANGED <<files, configuration, enabled, service, pc, request, target, result, ghosts>>

Edit ==
    /\ pc # "idle" /\ call.op = "Upload" /\ Event("edit")
    /\ \E v \in Versions \ {source} : source' = v /\ seen' = seen \cup {v}
    /\ mixed' = mixed \cup (IF pc = "attempt" /\ step = "Put" /\ Size(source) > 0 THEN {Mixture(Size(source))} ELSE {})
    /\ UNCHANGED <<tempFile, dest, switch, service, pc, request, target, result, effects, doubts, misread>>

Modify ==
    /\ pc # "idle" /\ call.op = "Download" /\ Event("modify")
    /\ \E v \in Versions \ {remote} : remote' = v /\ seen' = seen \cup {v}
    /\ UNCHANGED <<files, switch, uploads, stored, pc, request, target, result, mixed, effects, doubts, misread>>

\* The process dies; the files and the service are as they are.
Crash ==
    /\ pc # "idle" /\ Event("crash")
    /\ Return(NotReturned) /\ enabled' = TRUE
    /\ UNCHANGED <<files, configuration, control, service, request, target, ghosts>>

Init ==
    /\ source = NoFile /\ tempFile = NoFile /\ dest = NoFile
    /\ configuration \in Configurations /\ enabled = TRUE /\ control = "go"
    /\ remote = NoFile /\ uploads = <<>> /\ stored = NoFile
    /\ call = NoCall /\ pc = "idle" /\ step = "none" /\ message = NoMessage /\ attempt = 0 /\ reply = NoReply
    /\ fileSize = 0 /\ listed = NotListed /\ hashed = NoFile /\ upload = 0
    /\ result = NotReturned
    /\ seen = {} /\ mixed = {} /\ effects = 0 /\ doubts = 0 /\ misread = FALSE
    /\ calls = 0 /\ events = 0

Attempt ==
    \/ AttemptDisabled \/ UrlMalformed \/ Unsent \/ Busy \/ Refused
    \/ Answered \/ AnswerLost \/ AnswerGarbled \/ Aborted \/ DataAltered \/ DataCut
Proceed ==
    \/ Attempt \/ Decide \/ WaitForRetry \/ ReturnOperation
    \/ ResumableFileUpload \/ AfterPreCheck \/ AfterRapid \/ AfterCreate \/ AfterPut \/ AfterComplete
    \/ AfterGetUrl \/ AfterGet \/ Rename
Next ==
    \/ CallOperation \/ MakeUploadRequest \/ ResumableFileDownload \/ Proceed
    \/ DisableRequest \/ EnableRequest \/ AskToQuit \/ Edit \/ Modify \/ Crash

Spec == Init /\ [][Next]_vars

\* The thread of the call runs on, and curl and the service answer in the end (CURLOPT_LOW_SPEED_TIME).
FairSpec == Spec /\ WF_vars(Proceed)
-----------------------------------------------------------------------------
(* Correctness.                                                            *)

\* The types of the variables.
TypeOK ==
    /\ {source, remote} \subseteq Versions \cup {NoFile}
    /\ \A content \in {tempFile, dest, stored, hashed} : content = NoFile \/ (content[1] \in Nat /\ content[2] \in Nat)
    /\ mixed \subseteq Nat \X Nat
    /\ configuration \in Configurations /\ enabled \in BOOLEAN /\ control \in {"go", "stop", "cancel"}
    /\ \A i \in DOMAIN uploads : uploads[i].done \in BOOLEAN
    /\ pc \in {"idle", "attempt", "decide", "waiting", "returned", "validate", "rename"}
    /\ attempt \in 0 .. MaxRetries /\ upload \in 0 .. Len(uploads)
    /\ fileSize \in Nat /\ effects \in Nat /\ doubts \in Nat
    /\ misread \in BOOLEAN /\ result.ok \in BOOLEAN /\ result.sure \in BOOLEAN

\* A small upload that reports success left a content the local file had during the call, of the size the request was
\* made with, whatever was lost, refused, retried, altered on the way or edited between two requests: the CRC and the size
\* are checked before and after FileComplete.  An edit while the PUT reads the file is the exception: what it sends is then
\* a mixture the file never was, and both checks accept it; it still has that size, and nothing else is stored then.  (When
\* an answer was not JSON, its numbers are not to be trusted.)
OkMeansStored ==
    (pc = "idle" /\ call.op = "Upload" /\ result.ok /\ ~misread /\ configuration.enableCrc64)
        => stored \in seen \cup mixed /\ Size(stored) = fileSize

\* A small download replaces the destination only by a content the remote file had during the call, or by the notice that
\* stands for a punished file, when the service lists a CRC: nothing short, altered or left over from an earlier call is renamed.
\* (An answer without data is left out: it does not truncate the temporary file, and what an earlier process left there, if it has
\* the size that is expected, passes both checks.)
DestIsReplacedWhole ==
    [][(dest' # dest /\ configuration.enableCrc64 /\ listed.hash /\ reply.theirs # EmptyFile)
        => dest' \in seen \/ (listed.punished /\ dest' = Notice)]_vars

\* An operation that reports success was carried out, and one that reports failure was not, except for as many times as an
\* answer was lost or altered; the retries never carry it out more often than that.  (A put whose callback failed, status 203, is
\* reported as a failure though the data is stored.)
FailureMeansDoubt ==
    (pc = "idle" /\ call.op # "none" /\ step = "Only" /\ result.code # "not returned")
        => /\ effects <= doubts + 1
           /\ result.ok => effects >= 1
           /\ ~result.ok => effects <= doubts \/ reply.status = 203

\* What the caller's options become: everything that was given is somewhere in the request that is sent.  Lost on the way are the
\* user agent of an operation (addHeaders overwrites it), the meta data of data requests and the traffic limit of get_upload_url.
LostOptions(op) ==
    CASE op \in DataOperations    -> {"metaData", "userAgent"}
      [] op = "FileGetUploadUrl"  -> {"trafficLimit", "userAgent"}
      [] OTHER                    -> {}
Sent(m) == {m.path} \cup {pair[2] : pair \in m.headers \cup m.body}
OptionsAreSent ==
    (pc = "attempt" /\ step = "Only")
        => \A k \in DOMAIN call.options \ LostOptions(call.op) : call.options[k] \in {"", "0", "false"} \cup Sent(message)

\* The url a data request asks for is the one the service gave, to the letter from the path on, whatever the signed query holds:
\* other urls, slashes, a fragment; only the case of scheme and host is lost, and a path is added if there is none.  Any other
\* request goes to the host of the endpoint, by http unless it says otherwise, and to the path of its operation, whatever path or
\* query the endpoint has.  (Left out are urls of which the Url class loses something: a separator that nothing comes after, the
\* case of a user beside that of the host, a port that is not a number.)
HasScheme(url) == Len(url) > 4 /\ SubSeq(url, 2, 4) = SchemeEnd
IsSigned(url) == HasScheme(url) /\ {url[1], url[5], url[Len(url)]} \cap Punctuation = {} /\ ~Has(<<"?", "#">>, url)
OriginStart(url) == IF HasScheme(url) THEN 5 ELSE 1
OriginLength(url) ==
    LET Inside(n) == \A i \in OriginStart(url) .. n : url[i] \notin {"/", "?", "#"}
    IN  CHOOSE n \in OriginStart(url) - 1 .. Len(url) : Inside(n) /\ (n = Len(url) \/ ~Inside(n + 1))
Origin(url) == Lower(SubSeq(url, 1, OriginLength(url)))
AuthorityOf(url) == SubSeq(url, OriginStart(url), OriginLength(url))
IsPlain(authority) ==
    LET userInfo == IF Has(<<"@">>, authority) THEN Before(<<"@">>, authority) ELSE <<>>
        address  == IF Has(<<"@">>, authority) THEN After(<<"@">>, authority) ELSE authority
        port     == After(<<":">>, address)
    IN  /\ Has(<<"@">>, authority) =>
              userInfo # <<>> /\ ":" \notin {userInfo[1], userInfo[Len(userInfo)]} /\ Lower(userInfo) = userInfo
        /\ Before(<<":">>, address) # <<>>
        /\ Has(<<":">>, address) => port # <<>> /\ port = Decimal(port)
DataUrl(url) ==
    LET rest == SubSeq(url, OriginLength(url) + 1, Len(url))
    IN  Origin(url) \o (IF rest # <<>> /\ rest[1] = "/" THEN rest ELSE <<"/">> \o rest)
OperationUrl(endpoint, path) == (IF HasScheme(endpoint) THEN <<>> ELSE <<"http">> \o SchemeEnd) \o Origin(endpoint) \o <<path>>
IsTidy(endpoint) == (HasScheme(endpoint) \/ ~Has(SchemeEnd, endpoint)) /\ IsPlain(AuthorityOf(endpoint))
UrlIsKept ==
    (pc = "attempt" /\ step = "Only")
        => IF call.op \in DataOperations
           THEN IsSigned(call.url) /\ IsPlain(AuthorityOf(call.url)) => UrlToString(message.url) = DataUrl(call.url)
           ELSE IsTidy(configuration.endpoint) => UrlToString(message.url) = OperationUrl(configuration.endpoint, message.path)

\* The values a successful operation returns are all written by the code, when the answer was JSON.  Not so for the size and
\* flags after a rapid upload, the CRC of a put whose answer has none, and a preview whose answer has no meta data.
ResultIsRead ==
    (pc = "idle" /\ result.ok /\ ~misread)
        => \/ result.sure
           \/ step = "Rapid" \/ call.op = "FileGetVideoPreviewPlayInfo"
           \/ call.op = "DataPutByUrl" /\ ~configuration.enableCrc64

\* Every call returns, whatever fails and however long requests stay disabled.
CallReturns == (pc # "idle") ~> (pc = "idle")

=============================================================================
