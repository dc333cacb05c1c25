-------------------------- MODULE MCPdsClientImpl --------------------------
(* Instances of PdsClientImpl for TLC.                                     *)
EXTENDS PdsClientImpl

\* Two contents of one unit, one of two, and the empty one.
SmallVersions == {EmptyFile, <<1, 1>>, <<2, 1>>, <<3, 2>>}

Domain == <<"HTTPS", ":", "/", "/", "HOST">>
Client(endpoint, crc, rapid, size, punished) ==
    [endpoint |-> endpoint, enableCrc64 |-> crc, enableRapidUpload |-> rapid,
     enableCheckDownloadFileSize |-> size, enableDownloadPunishedFile |-> punished]
DefaultAndCareful ==
    {Client(Domain, TRUE, FALSE, TRUE, TRUE), Client(<<"domain", ":", "8443", "/", "base", "?", "x">>, TRUE, TRUE, TRUE, FALSE)}
AllClients ==
    DefaultAndCareful \cup {Client(<<"bad", " ", "domain">>, TRUE, TRUE, TRUE, TRUE), Client(Domain, FALSE, FALSE, FALSE, TRUE)}

\* No option given, or all of them.
AllGiven(defaults) == [k \in DOMAIN defaults |-> k]
Choices(defaults) == {defaults, AllGiven(defaults)}
Calls(op, defaults) == {[op |-> op, options |-> o] : o \in Choices(defaults)}
WithParts(op, defaults, lists) == {[op |-> op, options |-> o, parts |-> p] : o \in Choices(defaults), p \in lists}
\* The calls of FileRequest carry a list of parts, most of them the empty one.
FileCalls(op, defaults) == WithParts(op, defaults, {<<>>})
PartLists == {<<>>, <<1>>, <<0>>, <<PartNumberUpperLimit - 1>>, <<1, PartNumberUpperLimit>>}

\* Urls with what urls may have, some of it where it is easily taken for something else; the last two are none of the service's.
CallbackUrl == <<"https", ":", "/", "/", "host", "/", "object", "?", "callback=", ":", "/", "/", "other", "@", "x", "?", "y">>
GivenUrls ==
    {<<"HTTPS", ":", "/", "/", "HOST", ":", "443", "/", "object", "/", "part", "?", "signature", "/", "x", "#", "y", "?", "z">>,
     <<"http", ":", "/", "/", "host", "?", "signature", "/", "x">>,
     <<"http", ":", "/", "/", "user", ":", "password", "@", "host", "#", "x", "?", "y">>,
     <<"host", "/", "object", "?", "callback=", ":", "/", "/", "other">>,
     <<"http", ":", "/", "/", ":", "password", "@", "host", "/", "object">>}
DataGetByUrlOfUrl == [DataGetByUrlDefaults EXCEPT !.url = "url"]

AllOperations ==
    Calls("AsyncTaskGet", AsyncTaskGetDefaults) \cup Calls("DirCreate", DirCreateDefaults) \cup Calls("DirList", DirListDefaults)
    \cup Calls("DirSearch", DirSearchDefaults) \cup Calls("DirRename", DirRenameDefaults) \cup Calls("DirTrash", DirTrashDefaults)
    \cup Calls("DirDelete", DirDeleteDefaults) \cup Calls("DirCopy", DirCopyDefaults) \cup Calls("DirMove", DirMoveDefaults)
    \cup Calls("DirHidden", DirHiddenDefaults)
    \cup WithParts("FileCreate", FileCreateDefaults, PartLists) \cup WithParts("FileGetUploadUrl", FileGetUploadUrlDefaults, PartLists)
    \cup FileCalls("FileListUploadedParts", FileListUploadedPartsDefaults) \cup FileCalls("FileComplete", FileCompleteDefaults)
    \cup FileCalls("FileGetDownloadUrl", FileGetDownloadUrlDefaults) \cup FileCalls("FileGet", FileGetDefaults)
    \cup FileCalls("FileRename", FileRenameDefaults) \cup FileCalls("FileTrash", FileTrashDefaults)
    \cup FileCalls("FileDelete", FileDeleteDefaults)
    \cup FileCalls("FileGetVideoPreviewPlayInfo", FileGetVideoPreviewPlayInfoDefaults)
    \cup FileCalls("FileCopy", FileCopyDefaults) \cup FileCalls("FileMove", FileMoveDefaults) \cup FileCalls("FileHidden", FileHiddenDefaults)
    \cup Calls("MetaUserTagsPut", MetaUserTagsPutDefaults) \cup Calls("MetaUserTagsDelete", MetaUserTagsDeleteDefaults)
    \cup {[op |-> "DataGetByUrl", options |-> DataGetByUrlDefaults, range |-> <<>>, url |-> <<>>]}
    \cup {[op |-> "DataGetByUrl", options |-> AllGiven(DataGetByUrlDefaults), range |-> r, url |-> SignedUrl] :
            r \in {<<0, -1>>, <<2, 1>>, <<-1, 0>>}}
    \cup {[op |-> "DataGetByUrl", options |-> DataGetByUrlOfUrl, range |-> <<>>, url |-> u] : u \in GivenUrls}
    \cup {[op |-> "DataPutByUrl", options |-> AllGiven(DataPutByUrlDefaults), url |-> u] : u \in {SignedUrl, CallbackUrl}}

PlainUpload ==
    [driveID |-> "driveID", parentFileID |-> "parentFileID", name |-> "name", fileID |-> "", checkNameMode |-> "refuse",
     taskID |-> "", userTags |-> "", hidden |-> "false", filePathW |-> "", checkpointDir |-> "", checkpointDirW |-> "",
     partSize |-> 1, threadNum |-> 3]
UploadRequests ==
    {PlainUpload, [PlainUpload EXCEPT !.partSize = 2], [PlainUpload EXCEPT !.partSize = 0], [PlainUpload EXCEPT !.threadNum = 0],
     [PlainUpload EXCEPT !.checkpointDir = "missing"], [PlainUpload EXCEPT !.checkNameMode = "auto_rename"],
     [PlainUpload EXCEPT !.checkNameMode = "auto_rename", !.taskID = "taskID", !.partSize = 2]}

PlainDownload ==
    [driveID |-> "driveID", shareID |-> "", fileID |-> "fileID", shareToken |-> "", filePath |-> "filePath", filePathW |-> "",
     checkpointDir |-> "", checkpointDirW |-> "", partSize |-> 2, threadNum |-> 3, trafficLimit |-> ""]
DownloadRequests ==
    {PlainDownload, [PlainDownload EXCEPT !.partSize = 3, !.trafficLimit = "trafficLimit"], [PlainDownload EXCEPT !.filePath = ""],
     [PlainDownload EXCEPT !.filePathW = "filePathW"]}
=============================================================================
