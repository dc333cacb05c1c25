------------------------- MODULE ServiceOperations -------------------------
(***************************************************************************)
(* What the request classes of src/sdk/src/model put on the wire.          *)
(*                                                                         *)
(* The options of a request are a record with a field per member that the  *)
(* constructor or a setter fills in.  The value a caller gives to an       *)
(* option is represented by the name of the option; an option the caller   *)
(* leaves out keeps the value XDefaults gives it: "" stands for an empty   *)
(* string, the number 0 and the null pointer alike.  A request is its      *)
(* path, its headers and its body, each a set of pairs of key and value,   *)
(* and whether validate() accepts it.                                      *)
(***************************************************************************)
EXTENDS Integers, Sequences

NoPairs == {}

\* root[key] = value, and the same under a test that value is given.
Always(key, value) == {<<key, value>>}
Given(key, value) == IF value = "" THEN NoPairs ELSE Always(key, value)

Message(path, headers, body) == [path |-> path, headers |-> headers, body |-> body, valid |-> TRUE]
Post(path, body) == Message(path, NoPairs, body)

DriveAndFile(o) == Always("drive_id", o.driveID) \cup Always("file_id", o.fileID)
DriveOrShare(o) == Given("drive_id", o.driveID) \cup Given("share_id", o.shareID) \cup Always("file_id", o.fileID)
ShareHeader(o) == Given("x-share-token", o.shareToken)

-----------------------------------------------------------------------------
(* Asynchronous tasks and directories.                                     *)

AsyncTaskGetDefaults == [asyncTaskID |-> ""]
AsyncTaskGetRequest(o) == Post("/v2/async_task/get", Always("async_task_id", o.asyncTaskID))

DirCreateDefaults == [driveID |-> "", parentFileID |-> "", name |-> "", checkNameMode |-> "", hidden |-> "false", userTags |-> ""]
DirCreateRequest(o) ==
    Post("/v2/file/create",
         Always("drive_id", o.driveID) \cup Always("parent_file_id", o.parentFileID) \cup Always("name", o.name)
         \cup Always("check_name_mode", o.checkNameMode) \cup Always("type", "folder") \cup Always("hidden", o.hidden)
         \cup Given("user_tags", o.userTags))

DirListDefaults ==
    [driveID |-> "", shareID |-> "", parentFileID |-> "", orderBy |-> "", orderDirection |-> "", fields |-> "", marker |-> "",
     limit |-> "0", type |-> "", category |-> "", urlExpireSec |-> "", starred |-> "", all |-> "", shareToken |-> ""]
DirListRequest(o) ==
    Message("/v2/file/list", ShareHeader(o),
         Given("drive_id", o.driveID) \cup Given("share_id", o.shareID) \cup Always("parent_file_id", o.parentFileID)
         \cup Always("order_by", o.orderBy) \cup Always("order_direction", o.orderDirection) \cup Always("marker", o.marker)
         \cup Always("limit", o.limit) \cup Always("fields", o.fields) \cup Given("type", o.type) \cup Given("category", o.category)
         \cup Given("url_expire_sec", o.urlExpireSec) \cup Given("starred", o.starred) \cup Given("all", o.all))

DirSearchDefaults == [driveID |-> "", query |-> "", orderBy |-> "", marker |-> "", limit |-> "0", urlExpireSec |-> "", returnTotalCount |-> ""]
DirSearchRequest(o) ==
    Post("/v2/file/search",
         Always("drive_id", o.driveID) \cup Always("query", o.query) \cup Always("order_by", o.orderBy) \cup Always("marker", o.marker)
         \cup Always("limit", o.limit) \cup Given("url_expire_sec", o.urlExpireSec) \cup Given("return_total_count", o.returnTotalCount))

DirRenameDefaults == [driveID |-> "", fileID |-> "", name |-> "", checkNameMode |-> ""]
DirRenameRequest(o) == Post("/v2/file/update", DriveAndFile(o) \cup Always("name", o.name) \cup Always("check_name_mode", o.checkNameMode))

DirTrashDefaults == [driveID |-> "", fileID |-> ""]
DirTrashRequest(o) == Post("/v2/recyclebin/trash", DriveAndFile(o))

DirDeleteDefaults == [driveID |-> "", fileID |-> ""]
DirDeleteRequest(o) == Post("/v2/file/delete", DriveAndFile(o))

DirCopyDefaults == [driveID |-> "", fileID |-> "", toParentFileID |-> "", autoRename |-> "false"]
DirCopyRequest(o) ==
    Post("/v2/file/copy", DriveAndFile(o) \cup Always("to_parent_file_id", o.toParentFileID) \cup Always("auto_rename", o.autoRename))

DirMoveDefaults == [driveID |-> "", fileID |-> "", toParentFileID |-> "", checkNameMode |-> ""]
DirMoveRequest(o) ==
    Post("/v2/file/move", DriveAndFile(o) \cup Always("to_parent_file_id", o.toParentFileID) \cup Given("check_name_mode", o.checkNameMode))

DirHiddenDefaults == [driveID |-> "", fileID |-> "", hidden |-> "false"]
DirHiddenRequest(o) == Post("/v2/file/update", DriveAndFile(o) \cup Always("hidden", o.hidden))

-----------------------------------------------------------------------------
(* Files.                                                                  *)

\* validate() of the two requests that carry a list of parts.
PartNumberUpperLimit == 10000
PartNumbersInRange(parts) == \A i \in DOMAIN parts : parts[i] > 0 /\ parts[i] < PartNumberUpperLimit
PartInfoList(parts) == Given("part_info_list", IF parts = <<>> THEN "" ELSE "parts")

FileCreateDefaults ==
    [driveID |-> "", parentFileID |-> "", name |-> "", fileID |-> "", checkNameMode |-> "", size |-> "0", preHash |-> "",
     contentHash |-> "", hidden |-> "false", userTags |-> ""]
FileCreateRequest(o, parts) ==
    LET body == Always("drive_id", o.driveID) \cup Always("parent_file_id", o.parentFileID) \cup Always("name", o.name)
                \cup Always("check_name_mode", o.checkNameMode) \cup Always("size", o.size) \cup Always("type", "file")
                \cup Always("hidden", o.hidden) \cup Given("file_id", o.fileID) \cup Given("pre_hash", o.preHash)
                \cup Given("content_hash", o.contentHash)
                \cup Given("content_hash_name", IF o.contentHash = "" THEN "" ELSE "sha1")
                \cup Given("user_tags", o.userTags) \cup PartInfoList(parts)
    IN  [Post("/v2/file/create", body) EXCEPT !.valid = PartNumbersInRange(parts)]

FileGetUploadUrlDefaults == [driveID |-> "", fileID |-> "", uploadID |-> "", trafficLimit |-> "", userAgent |-> ""]
FileGetUploadUrlRequest(o, parts) ==
    [Post("/v2/file/get_upload_url", DriveAndFile(o) \cup Always("upload_id", o.uploadID) \cup PartInfoList(parts))
        EXCEPT !.valid = parts # <<>> /\ PartNumbersInRange(parts)]

FileListUploadedPartsDefaults == [driveID |-> "", fileID |-> "", uploadID |-> "", marker |-> "0", limit |-> "0"]
FileListUploadedPartsRequest(o) ==
    Post("/v2/file/list_uploaded_parts",
         DriveAndFile(o) \cup Always("upload_id", o.uploadID) \cup Always("part_number_marker", o.marker) \cup Always("limit", o.limit))

FileCompleteDefaults == [driveID |-> "", fileID |-> "", uploadID |-> ""]
FileCompleteRequest(o) == Post("/v2/file/complete", DriveAndFile(o) \cup Always("upload_id", o.uploadID))

FileGetDefaults == [driveID |-> "", shareID |-> "", fileID |-> "", urlExpireSec |-> "", shareToken |-> ""]
\* A plausible bug: the token of a share is left out.
FileGetRequest_Tokenless(o) == Post("/v2/file/get", DriveOrShare(o) \cup Given("url_expire_sec", o.urlExpireSec))

FileGetRequest(o) == Message("/v2/file/get", ShareHeader(o), DriveOrShare(o) \cup Given("url_expire_sec", o.urlExpireSec))

FileGetDownloadUrlDefaults == [driveID |-> "", shareID |-> "", fileID |-> "", urlExpireSec |-> "", shareToken |-> ""]
FileGetDownloadUrlRequest(o) ==
    Message("/v2/file/get_download_url", ShareHeader(o), DriveOrShare(o) \cup Given("url_expire_sec", o.urlExpireSec))

\* The constructor does not set getWithoutUrl_, a pointer: left alone it is null, or points somewhere.
FileGetVideoPreviewPlayInfoDefaults ==
    [driveID |-> "", shareID |-> "", fileID |-> "", category |-> "", urlExpireSec |-> "", templateID |-> "",
     getWithoutUrl |-> "", shareToken |-> ""]
FileGetVideoPreviewPlayInfoRequest(o, uninitialised) ==
    LET getWithoutUrl == IF o.getWithoutUrl = "" THEN uninitialised ELSE o.getWithoutUrl
    IN  Message("/v2/file/get_video_preview_play_info", ShareHeader(o),
                DriveOrShare(o) \cup Always("category", o.category) \cup Given("url_expire_sec", o.urlExpireSec)
                \cup Given("template_id", o.templateID) \cup Given("get_without_url", getWithoutUrl))

FileRenameDefaults == [driveID |-> "", fileID |-> "", name |-> "", checkNameMode |-> ""]
FileRenameRequest(o) == Post("/v2/file/update", DriveAndFile(o) \cup Always("name", o.name) \cup Always("check_name_mode", o.checkNameMode))

FileTrashDefaults == [driveID |-> "", fileID |-> ""]
FileTrashRequest(o) == Post("/v2/recyclebin/trash", DriveAndFile(o))

FileDeleteDefaults == [driveID |-> "", fileID |-> ""]
FileDeleteRequest(o) == Post("/v2/file/delete", DriveAndFile(o))

FileCopyDefaults == [driveID |-> "", fileID |-> "", toParentFileID |-> "", autoRename |-> "false"]
FileCopyRequest(o) ==
    Post("/v2/file/copy", DriveAndFile(o) \cup Always("to_parent_file_id", o.toParentFileID) \cup Always("auto_rename", o.autoRename))

FileMoveDefaults == [driveID |-> "", fileID |-> "", toParentFileID |-> "", checkNameMode |-> ""]
FileMoveRequest(o) ==
    Post("/v2/file/move", DriveAndFile(o) \cup Always("to_parent_file_id", o.toParentFileID) \cup Given("check_name_mode", o.checkNameMode))

FileHiddenDefaults == [driveID |-> "", fileID |-> "", hidden |-> "false"]
FileHiddenRequest(o) == Post("/v2/file/update", DriveAndFile(o) \cup Always("hidden", o.hidden))

MetaUserTagsPutDefaults == [driveID |-> "", fileID |-> "", userTags |-> ""]
MetaUserTagsPutRequest(o) == Post("/v2/file/put_usertags", DriveAndFile(o) \cup Given("user_tags", o.userTags))

MetaUserTagsDeleteDefaults == [driveID |-> "", fileID |-> "", keyList |-> ""]
MetaUserTagsDeleteRequest(o) == Post("/v2/file/delete_usertags", DriveAndFile(o) \cup Given("key_list", o.keyList))

-----------------------------------------------------------------------------
(* Data.  The path is the signed url; the meta data given to the           *)
(* constructors is kept and never sent.                                    *)

\* range is <<>> or the two numbers of setRange.
RangeIsValid(range) == range = <<>> \/ (range[1] >= 0 /\ range[2] >= -1 /\ (range[2] > -1 => range[2] >= range[1]))
RangeHeader(range) == Given("Range", IF range = <<>> THEN "" ELSE "range")

DataGetByUrlDefaults == [url |-> "", metaData |-> "", trafficLimit |-> "", userAgent |-> ""]
DataGetByUrlRequest(o, range) ==
    [Message(o.url, RangeHeader(range) \cup Given("x-oss-traffic-limit", o.trafficLimit) \cup Given("User-Agent", o.userAgent), NoPairs)
        EXCEPT !.valid = RangeIsValid(range)]

\* What validate() would refuse is sent all the same: DataPutByUrl does not call it.
DataPutByUrlDefaults == [url |-> "", metaData |-> "", contentLength |-> "", trafficLimit |-> "", userAgent |-> ""]
DataPutByUrlRequest(o) ==
    Message(o.url,
            Always("Content-Type", "") \cup Given("Content-Length", o.contentLength)
            \cup Given("x-oss-traffic-limit", o.trafficLimit) \cup Given("User-Agent", o.userAgent),
            NoPairs)
=============================================================================
