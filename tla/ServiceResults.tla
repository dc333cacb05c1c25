--------------------------- MODULE ServiceResults ---------------------------
(***************************************************************************)
(* What the result classes of src/sdk/src/model take from an answer.       *)
(*                                                                         *)
(* An answer is readable, with a function from its JSON keys to values, or *)
(* it is not JSON at all.  The constructors leave at once in that case:    *)
(* strings and lists are empty then, but numbers and Booleans were never   *)
(* written and are whatever the memory held.  A result is therefore        *)
(* defined as the set of the results the code may come to, each a function *)
(* from the keys of the answer.  A key that is missing reads as "", 0 or   *)
(* FALSE.                                                                  *)
(***************************************************************************)
EXTENDS Integers, Sequences

NoFields == <<>>
Answer(fields) == [readable |-> TRUE, fields |-> fields]
Unreadable == [readable |-> FALSE, fields |-> <<>>]

\* The values a number that was never written is tried with.
UnwrittenNumbers == {0, 1, 2}

Value(fields, key, default) == IF key \in DOMAIN fields THEN fields[key] ELSE default

\* root["..."].asString(), asInt64() and asBool() of the keys.
Read(fields, texts, numbers, flags) ==
    [k \in texts \cup numbers \cup flags |->
        Value(fields, k, IF k \in texts THEN "" ELSE IF k \in numbers THEN 0 ELSE FALSE)]

\* What the results are when nothing is read.
Unread(texts, numbers, flags) ==
    {[k \in texts \cup numbers \cup flags |-> IF k \in texts THEN "" ELSE IF k \in numbers THEN held[1][k] ELSE held[2][k]] :
        held \in [numbers -> UnwrittenNumbers] \X [flags -> BOOLEAN]}

Result(answer, texts, numbers, flags) ==
    IF answer.readable THEN {Read(answer.fields, texts, numbers, flags)} ELSE Unread(texts, numbers, flags)

\* The same with a list of items, read one by one.
List(fields, key, Item(_)) == LET list == Value(fields, key, <<>>) IN [i \in DOMAIN list |-> Item(list[i])]
With(r, key, value) == [k \in DOMAIN r \cup {key} |-> IF k = key THEN value ELSE r[k]]
ResultWithList(results, key, list) == {With(r, key, list) : r \in results}

-----------------------------------------------------------------------------
(* The items of lists.                                                     *)

FileItem(fields) ==
    Read(fields,
         {"category", "content_hash", "content_hash_name", "content_type", "crc64_hash", "created_at", "description", "download_url",
          "drive_id", "encrypt_mode", "file_extension", "file_id", "name", "parent_file_id", "status", "thumbnail", "type",
          "updated_at", "url", "upload_id", "user_tags"},
         {"punish_flag", "size"}, {"hidden", "starred", "trashed"})
PartInfoResp(fields) == Read(fields, {"upload_url"}, {"part_number", "part_size"}, {})
Part(fields) == Read(fields, {"etag"}, {"part_number", "part_size"}, {})
FileLiveTranscodingTask(fields) == Read(fields, {"template_id", "status", "url"}, {}, {"keep_original_resolution"})
FileVideoPreviewPlayInfoMeta(fields) == Read(fields, {}, {"duration", "width", "height"}, {})

-----------------------------------------------------------------------------
(* Asynchronous tasks and directories.                                     *)

AsyncTaskGetResult(a) ==
    Result(a, {"async_task_id", "state", "message", "url"}, {"consumed_process", "total_process", "err_code"}, {})
DirCreateResult(a) == Result(a, {"drive_id", "file_id", "file_name", "parent_file_id", "type"}, {}, {"exist"})
DirListResult(a) == ResultWithList(Result(a, {"next_marker"}, {}, {}), "items", List(a.fields, "items", FileItem))
DirSearchResult(a) == ResultWithList(Result(a, {"next_marker"}, {"total_count"}, {}), "items", List(a.fields, "items", FileItem))
DirRenameResult(a) == Result(a, {"drive_id", "file_id", "name", "parent_file_id", "type", "created_at", "updated_at"}, {}, {})
DirTrashResult(a) == Result(a, {"drive_id", "file_id", "async_task_id"}, {}, {})
DirDeleteResult(a) == Result(a, {"drive_id", "file_id", "async_task_id"}, {}, {})
DirCopyResult(a) == Result(a, {"drive_id", "file_id", "async_task_id"}, {}, {})
DirMoveResult(a) == Result(a, {"drive_id", "file_id", "async_task_id"}, {}, {"exist"})
\* A plausible bug: a flag of the answer is not read.
DirHiddenResult_Unread(a) ==
    {With(r, "hidden", h) : r \in Result(a, {"drive_id", "file_id", "parent_file_id", "type", "created_at", "updated_at"}, {}, {}), h \in BOOLEAN}

DirHiddenResult(a) == Result(a, {"drive_id", "file_id", "parent_file_id", "type", "created_at", "updated_at"}, {}, {"hidden"})

-----------------------------------------------------------------------------
(* Files.                                                                  *)

FileCreateResult(a) ==
    ResultWithList(Result(a, {"drive_id", "file_id", "file_name", "parent_file_id", "type", "upload_id"}, {}, {"rapid_upload", "exist"}), "part_info_list", List(a.fields, "part_info_list", PartInfoResp))
FileGetUploadUrlResult(a) == ResultWithList(Result(a, {"drive_id", "file_id", "upload_id"}, {}, {}), "part_info_list", List(a.fields, "part_info_list", PartInfoResp))
FileListUploadedPartsResult(a) ==
    ResultWithList(Result(a, {"file_id", "upload_id", "next_part_number_marker"}, {}, {}), "uploaded_parts", List(a.fields, "uploaded_parts", Part))
FileCompleteResult(a) ==
    Result(a, {"category", "content_hash", "content_hash_name", "content_type", "crc64_hash", "created_at", "drive_id", "encrypt_mode",
               "file_extension", "file_id", "location", "name", "parent_file_id", "status", "type", "updated_at", "upload_id"},
           {"size"}, {"hidden", "rapid_upload", "starred"})
\* After a rapid upload the result is made of that of the creation; its size and two of its flags are never written.
FileCompleteResultOfCreate(created) ==
    {[category |-> "", drive_id |-> created["drive_id"], file_id |-> created["file_id"], name |-> created["file_name"],
      parent_file_id |-> created["parent_file_id"], type |-> created["type"], upload_id |-> created["upload_id"],
      rapid_upload |-> created["rapid_upload"], size |-> n] : n \in UnwrittenNumbers}
FileGetDownloadUrlResult(a) ==
    Result(a, {"cdn_url", "content_hash", "content_hash_name", "crc64_hash", "expiration", "internal_url", "method", "url"},
           {"size", "punish_flag"}, {})
FileGetResult(a) == IF a.readable THEN {FileItem(a.fields)} ELSE
    Result(a, DOMAIN FileItem(<<>>) \ {"punish_flag", "size", "hidden", "starred", "trashed"}, {"punish_flag", "size"}, {"hidden", "starred", "trashed"})
MetaUserTagsPutResult(a) == Result(a, {"file_id"}, {}, {})
FileRenameResult(a) == Result(a, {"drive_id", "file_id", "name", "parent_file_id", "type", "created_at", "updated_at"}, {}, {})
FileCopyResult(a) == Result(a, {"drive_id", "file_id"}, {}, {})
FileMoveResult(a) == Result(a, {"drive_id", "file_id", "async_task_id"}, {}, {"exist"})
FileHiddenResult(a) == Result(a, {"drive_id", "file_id", "parent_file_id", "type", "created_at", "updated_at"}, {}, {"hidden"})

\* The meta of the play information is read only when the answer has it, and is unwritten otherwise.
FileVideoPreviewPlayInfo(fields) ==
    {With(With(Read(fields, {"category"}, {}, {}), "meta", meta),
          "live_transcoding_task_list", List(fields, "live_transcoding_task_list", FileLiveTranscodingTask)) :
        meta \in IF "meta" \in DOMAIN fields THEN {FileVideoPreviewPlayInfoMeta(fields["meta"])}
                 ELSE [DOMAIN FileVideoPreviewPlayInfoMeta(<<>>) -> UnwrittenNumbers]}
FileGetVideoPreviewPlayInfoResult(a) ==
    {With(r, "video_preview_play_info", info) :
        r \in Result(a, {"domain_id", "share_id", "drive_id", "file_id"}, {}, {}),
        info \in FileVideoPreviewPlayInfo(Value(a.fields, "video_preview_play_info", <<>>))}

-----------------------------------------------------------------------------
(* Data.  The results are made of the headers; the CRC of a put is         *)
(* unwritten when the answer carries none.                                 *)

UserMetaHeaders == {"x-oss-meta-a"}
RequestMetaData(headers) == [h \in DOMAIN headers \ UserMetaHeaders |-> headers[h]]
CrcHeader == "x-oss-hash-crc64ecma"
CrcGiven == [h \in {CrcHeader} |-> 1]
DataPutResult(headers) ==
    {[crc64 |-> c] : c \in IF CrcHeader \in DOMAIN headers THEN {headers[CrcHeader]} ELSE UnwrittenNumbers}
DataGetResult(headers) == RequestMetaData(headers)
=============================================================================
