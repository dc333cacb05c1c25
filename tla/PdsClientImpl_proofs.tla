------------------------ MODULE PdsClientImpl_proofs ------------------------
(***************************************************************************)
(* Proofs about a call of a PdsClient: types, what success of an upload or *)
(* a download means, what the outcome of an operation says about how often *)
(* it was carried out, that what a caller gives is sent, and where to, and *)
(* that what a result returns was read; for every set of operations,       *)
(* requests, contents, urls and clients, and any number of retries, calls  *)
(* and events.                                                             *)
(***************************************************************************)
EXTENDS PdsClientImpl, FiniteSetTheorems, SequenceTheorems, WellFoundedInduction, TLAPS

Contents == (Nat \X Nat) \cup {NoFile}
CreateSteps == {"PreCheck", "Rapid", "Create"}
UploadSteps == CreateSteps \cup {"Put", "Complete"}
DownloadSteps == {"GetUrl", "Get"}

Running == pc # "idle"
Replied == pc \in {"decide", "returned"}
WithCrc == configuration.enableCrc64
Readable == reply.answer.readable = TRUE

Typed ==
    /\ {source, remote} \subseteq Versions \cup {NoFile}
    /\ {tempFile, dest, stored, hashed} \subseteq Contents
    /\ configuration \in Configurations /\ enabled \in BOOLEAN /\ control \in {"go", "stop", "cancel"}
    /\ uploads \in Seq([data : Contents, done : BOOLEAN]) /\ upload \in 0 .. Len(uploads)
    /\ attempt \in 0 .. MaxRetries /\ (pc = "waiting" => attempt < MaxRetries)
    /\ fileSize \in Nat /\ mixed \subseteq Nat \X Nat /\ effects \in Nat /\ doubts \in Nat
    /\ misread \in BOOLEAN /\ result.ok \in BOOLEAN /\ result.sure \in BOOLEAN

(* Which step of which call a program counter belongs to. *)
Stages ==
    /\ pc \in {"idle", "attempt", "decide", "waiting", "returned", "validate", "rename"}
    /\ pc = "validate" => step \in {"no file", "file"}
    /\ pc = "rename" => step = "Get"
    /\ pc \in {"attempt", "decide", "waiting", "returned"} => step \in {"Only"} \cup UploadSteps \cup DownloadSteps
    /\ Running => /\ step = "Only" => call \in Operations
                  /\ step \in DownloadSteps => call.op = "Download"
                  /\ step \in UploadSteps \cup {"no file", "file"} => call.op = "Upload"

(* What the call may take for the content of its file, and what its requests and replies are. *)
Sources ==
    Running => /\ call.op = "Upload" => source \in seen
               /\ call.op = "Download" => remote \in seen /\ seen \subseteq Versions
               /\ step \in {"Put", "Get"} => \A h \in message.headers : h[1] # "Range"
               /\ Readable \/ (misread /\ reply.answer = Unreadable)

(* An attempt begins with every effect doubted. *)
Accounts ==
    (Running /\ step = "Only") =>
        /\ ~Replied => effects <= doubts
        /\ Replied => /\ effects <= doubts + 1
                      /\ IsGood => effects >= 1
                      /\ ~IsGood => effects <= doubts \/ reply.status = 203

(* A good answer to FileCreate names an upload without data, or none; or the file is there by rapid upload. *)
Fresh(n) == uploads[n].data = NoData /\ ~uploads[n].done
Creating ==
    /\ Running /\ step = "Rapid" => hashed \in seen
    /\ (Replied /\ step \in CreateSteps /\ IsGood /\ Readable) =>
          /\ "part_info_list" \in DOMAIN reply.answer.fields =>
                LET list == reply.answer.fields["part_info_list"]
                IN  list = <<>> \/ \E n \in DOMAIN uploads : Fresh(n) /\ list = <<UploadUrl(n)>>
          /\ "rapid_upload" \in DOMAIN reply.answer.fields =>
                step = "Rapid" /\ stored = hashed /\ Size(hashed) = fileSize

(* With a CRC, data that was put well is what was sent, a content of the file or a mixture; an upload that is done is the file
   of the service. *)
Putting ==
    (Running /\ step = "Put") =>
        /\ upload \in DOMAIN uploads /\ ~uploads[upload].done
        /\ Replied /\ IsGood /\ WithCrc => uploads[upload].data \in seen \cup mixed
Completing ==
    (Running /\ step = "Complete") =>
        /\ upload \in DOMAIN uploads
        /\ WithCrc => uploads[upload].data \in seen \cup mixed
        /\ uploads[upload].done => stored = uploads[upload].data
        /\ Replied /\ IsGood /\ Readable =>
              /\ "size" \in DOMAIN reply.answer.fields /\ reply.answer.fields["size"] = Size(uploads[upload].data)
              /\ stored = uploads[upload].data

(* What is listed was a content of the remote file, and what a good GET brought is in the temporary file. *)
Listings ==
    (Replied /\ step = "GetUrl" /\ IsGood /\ Readable) =>
        /\ "url" \in DOMAIN reply.answer.fields => reply.theirs \in seen
        /\ "size" \in DOMAIN reply.answer.fields => reply.answer.fields["size"] \in Nat
Getting ==
    (Running /\ step = "Get") =>
        /\ listed.content \in seen
        /\ (pc # "attempt" /\ pc # "waiting" /\ IsGood /\ WithCrc) =>
              /\ reply.theirs \in seen \/ (listed.punished /\ reply.theirs = Notice)
              /\ reply.theirs # EmptyFile => tempFile = reply.theirs
        /\ pc = "rename" /\ WithCrc /\ listed.hash => IsGood

Inv ==
    /\ Typed /\ Stages /\ Sources /\ Accounts /\ Creating /\ Putting /\ Completing /\ Listings /\ Getting
    /\ OkMeansStored /\ FailureMeansDoubt /\ ResultIsRead

-----------------------------------------------------------------------------
(* Replies and reactions, written out.                                     *)

Uploaded == [data : Contents, done : BOOLEAN]
IsReply(r) == r \in [status : Nat, code : {r.code}, answer : {r.answer}, theirs : Contents, mine : Contents]
Answers(r, status, fields) ==
    r.status = status /\ r.code = "" /\ r.answer = Answer(fields) /\ r.theirs = NoFile /\ r.mine = NoFile

LEMMA PairsAre ==
    ASSUME NEW a \in Nat, NEW b \in Nat
    PROVE  <<a, b>> \in Contents /\ <<a, b>> # NoFile /\ Size(<<a, b>>) = b
<1>1. <<a, b>> \in Nat \X Nat
  OBVIOUS
<1>2. <<a, b>> # <<>>
  OBVIOUS
<1> QED BY <1>1, <1>2 DEF Contents, NoFile, Size

LEMMA ContentsAre ==
    /\ NoFile \in Contents /\ EmptyFile \in Contents /\ Notice \in Contents /\ <<1, 1>> \in Contents
    /\ Versions \subseteq Contents
    /\ \A c \in Contents : Size(c) \in Nat /\ Altered(c) \in Contents /\ (Size(c) > 0 => Cut(c) \in Contents)
    /\ \A c \in Contents : Size(Altered(c)) = Size(c)
<1>1. NoFile \in Contents
  BY DEF Contents
<1>2. EmptyFile \in Contents /\ Notice \in Contents /\ <<1, 1>> \in Contents
  BY PairsAre DEF EmptyFile, Notice
<1>3. Versions \subseteq Contents
  BY VersionsAssumption DEF Contents
<1>4. ASSUME NEW c \in Contents
      PROVE  Size(c) \in Nat
  BY <1>4 DEF Contents, Size
<1>5. ASSUME NEW c \in Contents
      PROVE  /\ Altered(c) \in Contents /\ Size(Altered(c)) = Size(c)
             /\ Size(c) > 0 => Cut(c) \in Contents
  BY <1>4, PairsAre DEF Altered, Cut
<1> QED BY <1>1, <1>2, <1>3, <1>4, <1>5

LEMMA NoReplyIs == IsReply(NoReply) /\ Answers(NoReply, 0, NoFields)
<1>1. Answers(NoReply, 0, NoFields)
  BY DEF NoReply, Answers
<1>2. NoReply \in [status : Nat, code : {""}, answer : {Answer(NoFields)}, theirs : Contents, mine : Contents]
  BY ContentsAre DEF NoReply
<1> QED BY <1>1, <1>2 DEF IsReply, Answers

LEMMA OkReplyIs == ASSUME NEW fields PROVE IsReply(OkReply(fields)) /\ Answers(OkReply(fields), 200, fields)
BY NoReplyIs DEF OkReply, IsReply, Answers

LEMMA ErrorReplyIs ==
    ASSUME NEW status \in Nat, NEW code
    PROVE  /\ IsReply(ErrorReply(status, code))
           /\ ErrorReply(status, code).status = status /\ ErrorReply(status, code).answer = Answer(NoFields)
BY NoReplyIs DEF ErrorReply, IsReply, Answers

LEMMA AnswerIs == ASSUME NEW fields PROVE Answer(fields).readable = TRUE /\ Answer(fields).fields = fields
BY DEF Answer

LEMMA NoAnswerIs == Answer(NoFields).readable = TRUE /\ Answer(NoFields).fields = NoFields
BY AnswerIs

(* A reply that brings data. *)
DataReply(c) == [OkReply(NoFields) EXCEPT !.theirs = c, !.mine = c]
LEMMA DataReplyIs ==
    ASSUME NEW c \in Contents
    PROVE  LET r == DataReply(c)
           IN  IsReply(r) /\ r.status = 200 /\ r.answer = Answer(NoFields) /\ r.theirs = c /\ r.mine = c
<1> DEFINE ok == OkReply(NoFields)
           r  == [ok EXCEPT !.theirs = c, !.mine = c]
<1>1. IsReply(ok) /\ Answers(ok, 200, NoFields)
  BY OkReplyIs
<1> HIDE DEF ok
<1>2. r.status = 200 /\ r.answer = Answer(NoFields) /\ r.theirs = c /\ r.mine = c
  BY <1>1 DEF IsReply, Answers
<1>3. r \in [status : Nat, code : {ok.code}, answer : {ok.answer}, theirs : Contents, mine : Contents]
  BY <1>1 DEF IsReply
<1>4. IsReply(r)
  BY <1>1, <1>2, <1>3 DEF IsReply, Answers
<1> QED BY <1>2, <1>4 DEF ok, DataReply

(* What the service does with a request, whatever it is for. *)
IsReaction(r) ==
    /\ r \in [reply : {r.reply}, uploads : Seq(Uploaded), stored : Contents, temp : Contents, effect : {0, 1}]
    /\ IsReply(r.reply) /\ r.reply.answer.readable = TRUE
    /\ Len(r.uploads) >= Len(uploads)

LEMMA PlainReaction ==
    ASSUME Typed, NEW m, IsReply(m), m.answer.readable = TRUE
    PROVE  /\ IsReaction(Reaction(m))
           /\ Reaction(m).reply = m /\ Reaction(m).uploads = uploads /\ Reaction(m).stored = stored
           /\ Reaction(m).temp = tempFile /\ Reaction(m).effect = 0
BY DEF Reaction, IsReaction, Typed, Uploaded

-----------------------------------------------------------------------------
(* What the service does, request by request.                              *)

Fields(r) == r.reply.answer.fields
EmptyUpload == [data |-> NoData, done |-> FALSE]

LEMMA EmptyUploadIs == EmptyUpload \in Uploaded /\ EmptyUpload.data = NoData /\ ~EmptyUpload.done
BY ContentsAre DEF EmptyUpload, Uploaded, NoData, NoFile

LEMMA OkReaction ==
    ASSUME Typed, NEW fields
    PROVE  LET r == Reaction(OkReply(fields))
           IN  /\ IsReaction(r) /\ Fields(r) = fields /\ r.uploads = uploads /\ r.stored = stored
               /\ r.temp = tempFile /\ r.effect = 0 /\ r.reply = OkReply(fields)
<1>1. IsReply(OkReply(fields)) /\ OkReply(fields).answer = Answer(fields)
  BY OkReplyIs DEF Answers
<1>2. OkReply(fields).answer.readable = TRUE /\ OkReply(fields).answer.fields = fields
  BY <1>1, AnswerIs
<1> QED BY <1>1, <1>2, PlainReaction DEF Fields

LEMMA DataReaction ==
    ASSUME Typed, NEW c \in Contents
    PROVE  LET r == Reaction(DataReply(c))
           IN  /\ IsReaction(r) /\ r.uploads = uploads /\ r.stored = stored /\ r.temp = tempFile /\ r.effect = 0
               /\ r.reply.status = 200 /\ r.reply.theirs = c /\ r.reply.mine = c /\ Fields(r) = NoFields
<1>1. /\ IsReply(DataReply(c)) /\ DataReply(c).answer.readable = TRUE /\ DataReply(c).answer.fields = NoFields
      /\ DataReply(c).status = 200 /\ DataReply(c).theirs = c /\ DataReply(c).mine = c
  BY DataReplyIs, NoAnswerIs
<1>2. /\ IsReaction(Reaction(DataReply(c))) /\ Reaction(DataReply(c)).reply = DataReply(c)
      /\ Reaction(DataReply(c)).uploads = uploads /\ Reaction(DataReply(c)).stored = stored
      /\ Reaction(DataReply(c)).temp = tempFile /\ Reaction(DataReply(c)).effect = 0
  BY <1>1, PlainReaction
<1> QED BY <1>1, <1>2 DEF Fields

LEMMA ErrorReaction ==
    ASSUME Typed, NEW status \in Nat, NEW code
    PROVE  LET r == Reaction(ErrorReply(status, code))
           IN  /\ IsReaction(r) /\ r.uploads = uploads /\ r.stored = stored /\ r.temp = tempFile /\ r.effect = 0
               /\ r.reply.status = status /\ Fields(r) = NoFields
<1>1. /\ IsReply(ErrorReply(status, code)) /\ ErrorReply(status, code).answer.readable = TRUE
      /\ ErrorReply(status, code).answer.fields = NoFields /\ ErrorReply(status, code).status = status
  BY ErrorReplyIs, AnswerIs
<1>2. /\ IsReaction(Reaction(ErrorReply(status, code))) /\ Reaction(ErrorReply(status, code)).reply = ErrorReply(status, code)
      /\ Reaction(ErrorReply(status, code)).uploads = uploads /\ Reaction(ErrorReply(status, code)).stored = stored
      /\ Reaction(ErrorReply(status, code)).temp = tempFile /\ Reaction(ErrorReply(status, code)).effect = 0
  BY <1>1, PlainReaction
<1> QED BY <1>1, <1>2 DEF Fields

LEMMA CreatedIs ==
    ASSUME Typed, NEW parts
    PROVE  /\ IsReaction(Created(parts))
           /\ Created(parts).uploads = Append(uploads, EmptyUpload) /\ Created(parts).stored = stored
           /\ Created(parts).temp = tempFile /\ Created(parts).effect = 0
           /\ Fields(Created(parts)) = [file_id |-> NewUpload, upload_id |-> NewUpload, part_info_list |-> parts]
<1> DEFINE f == [file_id |-> NewUpload, upload_id |-> NewUpload, part_info_list |-> parts]
           p == Reaction(OkReply(f))
<1> HIDE DEF f
<1>2. /\ IsReaction(p) /\ Fields(p) = f /\ p.uploads = uploads /\ p.stored = stored
      /\ p.temp = tempFile /\ p.effect = 0
  BY OkReaction
<1>3. /\ Append(uploads, EmptyUpload) \in Seq(Uploaded)
      /\ Len(Append(uploads, EmptyUpload)) >= Len(uploads)
  BY EmptyUploadIs DEF Typed, Uploaded
<1>4. Created(parts) = [p EXCEPT !.uploads = Append(uploads, EmptyUpload)]
  BY DEF Created, EmptyUpload, f
<1> HIDE DEF p
<1> QED BY <1>2, <1>3, <1>4 DEF IsReaction, Fields, f

LEMMA CreateReactions ==
    ASSUME Typed, pc = "attempt", step \in CreateSteps, NEW r \in Reactions \cup Unusual
    PROVE  /\ IsReaction(r) /\ r.temp = tempFile /\ r.effect = 0
           /\ r.uploads = uploads \/ r.uploads = Append(uploads, EmptyUpload)
           /\ r.stored # stored => step = "Rapid"
           /\ "part_info_list" \in DOMAIN Fields(r) =>
                \/ Fields(r)["part_info_list"] = <<>>
                \/ /\ r.uploads = Append(uploads, EmptyUpload)
                   /\ Fields(r)["part_info_list"] = <<UploadUrl(NewUpload)>>
           /\ "rapid_upload" \in DOMAIN Fields(r) => step = "Rapid" /\ r.stored = hashed /\ Size(hashed) = fileSize
<1>1. CASE \E parts \in {<<>>, <<UploadUrl(NewUpload)>>} : r = Created(parts)
  <2>1. PICK parts \in {<<>>, <<UploadUrl(NewUpload)>>} : r = Created(parts)
    BY <1>1
  <2>2. DOMAIN Fields(r) = {"file_id", "upload_id", "part_info_list"} /\ Fields(r)["part_info_list"] = parts
    BY <2>1, CreatedIs
  <2> QED BY <2>1, <2>2, CreatedIs
<1>2. CASE r = Reaction(ErrorReply(409, "PreHashMatched"))
  <2>1. Fields(r) = <<>> /\ IsReaction(r) /\ r.temp = tempFile /\ r.effect = 0 /\ r.uploads = uploads /\ r.stored = stored
    BY <1>2, ErrorReaction DEF NoFields
  <2> QED BY <2>1
<1>3. CASE r = Reaction(OkReply([file_id |-> 0, exist |-> TRUE]))
  <2> DEFINE f == [file_id |-> 0, exist |-> TRUE]
  <2>1. DOMAIN f = {"file_id", "exist"}
    OBVIOUS
  <2>2. r = Reaction(OkReply(f))
    BY <1>3
  <2> HIDE DEF f
  <2>3. Fields(r) = f /\ IsReaction(r) /\ r.temp = tempFile /\ r.effect = 0 /\ r.uploads = uploads /\ r.stored = stored
    BY <2>2, OkReaction
  <2> QED BY <2>1, <2>3
<1>4. CASE /\ step = "Rapid" /\ Size(hashed) = fileSize
           /\ r = [Reaction(OkReply([file_id |-> 0, rapid_upload |-> TRUE])) EXCEPT !.stored = hashed]
  <2> DEFINE f == [file_id |-> 0, rapid_upload |-> TRUE]
             p == Reaction(OkReply(f))
  <2>2. DOMAIN f = {"file_id", "rapid_upload"}
    OBVIOUS
  <2>3. r = [p EXCEPT !.stored = hashed]
    BY <1>4
  <2> HIDE DEF f
  <2>1. Fields(p) = f /\ IsReaction(p) /\ p.temp = tempFile /\ p.effect = 0 /\ p.uploads = uploads /\ p.stored = stored
    BY OkReaction
  <2> HIDE DEF p
  <2>4. Fields(r) = f /\ IsReaction(r) /\ r.temp = tempFile /\ r.effect = 0 /\ r.uploads = uploads /\ r.stored = hashed
    BY <2>1, <2>3 DEF IsReaction, Fields, Typed
  <2> QED BY <1>4, <2>2, <2>4
<1>5. /\ r \in Reactions => r \in ServeCreate
      /\ r \in Unusual => r \in UnusualCreate
  BY DEF Reactions, Unusual, CreateSteps
<1> QED BY <1>1, <1>2, <1>3, <1>4, <1>5 DEF ServeCreate, UnusualCreate

LEMMA HoldingIs ==
    ASSUME Typed, upload \in DOMAIN uploads, NEW c \in Contents, NEW b \in BOOLEAN
    PROVE  LET us == Holding(c, b)
           IN  /\ us \in Seq(Uploaded) /\ Len(us) = Len(uploads)
               /\ us[upload].data = c /\ us[upload].done = b
<1> DEFINE u == [data |-> c, done |-> b]
<1>1. u \in Uploaded /\ u.data = c /\ u.done = b
  BY DEF Uploaded
<1>2. uploads \in Seq(Uploaded) /\ upload \in 1 .. Len(uploads)
  BY DEF Typed, Uploaded
<1> HIDE DEF u
<1>3. [uploads EXCEPT ![upload] = u] \in Seq(Uploaded) /\ Len([uploads EXCEPT ![upload] = u]) = Len(uploads)
  BY <1>1, <1>2, ExceptSeq
<1>4. [uploads EXCEPT ![upload] = u][upload] = u
  BY <1>2
<1> QED BY <1>1, <1>3, <1>4 DEF Holding, u

LEMMA SendableIs == ASSUME Typed, source \in Contents PROVE Sendable \subseteq Contents /\ Sendable \subseteq {source} \cup mixed
BY DEF Typed, Sendable, Contents

(* The data of the put is stored, unless there is data already. *)
LEMMA PutReactions ==
    ASSUME Typed, source \in Contents, pc = "attempt", step = "Put", upload \in DOMAIN uploads, NEW r \in Reactions \cup Unusual
    PROVE  /\ IsReaction(r) /\ r.temp = tempFile /\ r.effect = 0 /\ r.stored = stored
           /\ \/ /\ r.uploads = Holding(r.reply.theirs, FALSE) /\ r.reply.theirs \in Sendable
                 /\ r.reply.status = 200 /\ r.reply.mine = r.reply.theirs
              \/ r.uploads = uploads /\ r.reply.status = 409
<1>1. CASE \E c \in Sendable : r = [Reaction(DataReply(c)) EXCEPT !.uploads = Holding(c, FALSE)]
  <2>0. PICK c \in Sendable : r = [Reaction(DataReply(c)) EXCEPT !.uploads = Holding(c, FALSE)]
    BY <1>1
  <2> DEFINE p  == Reaction(DataReply(c))
             us == Holding(c, FALSE)
  <2>c. c \in Contents
    BY SendableIs
  <2>1. /\ IsReaction(p) /\ p.uploads = uploads /\ p.stored = stored /\ p.temp = tempFile /\ p.effect = 0
        /\ p.reply.status = 200 /\ p.reply.theirs = c /\ p.reply.mine = c
    BY <2>c, DataReaction
  <2>3. us \in Seq(Uploaded) /\ Len(us) = Len(uploads)
    BY <2>c, HoldingIs
  <2> HIDE DEF p, us
  <2>4. r = [p EXCEPT !.uploads = us]
    BY <2>0 DEF p, us
  <2>5. IsReaction(r) /\ r.uploads = us /\ r.stored = p.stored /\ r.temp = p.temp /\ r.effect = p.effect /\ r.reply = p.reply
    BY <2>1, <2>3, <2>4 DEF IsReaction
  <2>6. c \in Sendable
    OBVIOUS
  <2>7. r.reply.theirs = c /\ r.reply.mine = c /\ r.reply.status = 200 /\ r.uploads = Holding(c, FALSE)
    BY <2>1, <2>5 DEF us
  <2>8. r.uploads = Holding(r.reply.theirs, FALSE) /\ r.reply.theirs \in Sendable /\ r.reply.mine = r.reply.theirs
    BY <2>6, <2>7, Zenon
  <2>9. IsReaction(r) /\ r.temp = tempFile /\ r.effect = 0 /\ r.stored = stored
    BY <2>1, <2>5
  <2> QED BY <2>7, <2>8, <2>9
<1>2. CASE r = Reaction(ErrorReply(409, "PartAlreadyExist"))
  <2>1. /\ IsReaction(r) /\ r.temp = tempFile /\ r.effect = 0 /\ r.stored = stored
        /\ r.uploads = uploads /\ r.reply.status = 409
    BY <1>2, ErrorReaction
  <2> QED BY <2>1
<1> QED BY <1>1, <1>2 DEF Reactions, Unusual, ServePut, DataReply

(* The upload becomes the file, or already is. *)
LEMMA CompleteReactions ==
    ASSUME Typed, pc = "attempt", step = "Complete", upload \in DOMAIN uploads,
           uploads[upload].done => stored = uploads[upload].data, NEW r \in Reactions \cup Unusual
    PROVE  /\ IsReaction(r) /\ r.temp = tempFile /\ r.effect = 0
           /\ Len(r.uploads) = Len(uploads) /\ r.uploads[upload].data = uploads[upload].data
           /\ r.uploads[upload].done => r.stored = uploads[upload].data
           /\ \/ r.reply.status \in {400, 404}
              \/ /\ r.reply.status = 200 /\ r.stored = uploads[upload].data
                 /\ Fields(r) = [size |-> Size(uploads[upload].data)]
<1> DEFINE u == uploads[upload]
           f == [size |-> Size(u.data)]
           p == Reaction(OkReply(f))
<1>0. u \in Uploaded /\ u.data \in Contents
  <2>1. uploads \in Seq(Uploaded)
    BY DEF Typed, Uploaded
  <2>2. u \in Uploaded
    BY <2>1
  <2> QED BY <2>2 DEF Uploaded
<1>1. /\ IsReaction(p) /\ Fields(p) = f /\ p.uploads = uploads /\ p.stored = stored
      /\ p.temp = tempFile /\ p.effect = 0 /\ p.reply.status = 200
  <2> HIDE DEF f
  <2>1. IsReaction(p) /\ Fields(p) = f /\ p.uploads = uploads /\ p.stored = stored
    BY OkReaction
  <2>2. p.temp = tempFile /\ p.effect = 0 /\ p.reply = OkReply(f)
    BY OkReaction
  <2>3. OkReply(f).status = 200
    BY OkReplyIs DEF Answers
  <2> HIDE DEF p
  <2> QED BY <2>1, <2>2, <2>3
<1>2. CASE r \in {Reaction(ErrorReply(400, "InvalidParameter")), Reaction(ErrorReply(404, "NotFound"))}
  <2> QED BY <1>2, ErrorReaction
<1>3. CASE u.done /\ r = p
  <2> HIDE DEF p, f
  <2> QED BY <1>1, <1>3 DEF f
<1>4. CASE r = [p EXCEPT !.uploads = Holding(u.data, TRUE), !.stored = u.data]
  <2> DEFINE us == Holding(u.data, TRUE)
  <2>1. us \in Seq(Uploaded) /\ Len(us) = Len(uploads) /\ us[upload].data = u.data
    BY <1>0, HoldingIs
  <2> HIDE DEF p, us, f
  <2>2. r = [p EXCEPT !.uploads = us, !.stored = u.data]
    BY <1>4 DEF us
  <2>3. IsReaction(r) /\ r.uploads = us /\ r.stored = u.data /\ r.temp = p.temp /\ r.effect = p.effect /\ r.reply = p.reply
    BY <1>0, <1>1, <2>1, <2>2 DEF IsReaction
  <2> QED BY <1>1, <2>1, <2>3 DEF Fields, f
<1>5. r \in ServeComplete
  BY DEF Reactions, Unusual
<1> QED BY <1>2, <1>3, <1>4, <1>5 DEF ServeComplete

(* What does not touch the uploads. *)
Apart(r) == IsReaction(r) /\ r.uploads = uploads /\ r.stored = stored

LEMMA ListingIs ==
    ASSUME Typed, NEW hash, NEW punished
    PROVE  LET r == Listing(hash, punished)
           IN  /\ Apart(r) /\ r.temp = tempFile /\ r.effect = 0 /\ r.reply.theirs = remote
               /\ Fields(r).size = Size(remote)
<1> DEFINE f == [url |-> "url", size |-> Size(remote), crc64_hash |-> IF hash THEN "crc" ELSE "", content_hash |-> "hash",
                 punish_flag |-> IF punished THEN PunishFlagFileFreeze ELSE 0]
           ok == OkReply(f)
           m  == [ok EXCEPT !.theirs = remote, !.mine = remote]
<1>1. f.size = Size(remote)
  OBVIOUS
<1>2. remote \in Contents
  BY ContentsAre DEF Typed
<1>3. Listing(hash, punished) = Reaction(m)
  BY DEF Listing
<1> HIDE DEF f
<1>0. IsReply(ok) /\ ok.answer = Answer(f)
  BY OkReplyIs DEF Answers
<1>4. IsReply(ok) /\ ok.answer.readable = TRUE /\ ok.answer.fields = f
  BY <1>0, AnswerIs
<1> HIDE DEF ok
<1>5. IsReply(m) /\ m.answer = ok.answer /\ m.theirs = remote
  BY <1>2, <1>4 DEF IsReply
<1> HIDE DEF m
<1>6. IsReaction(Reaction(m)) /\ Reaction(m).reply = m /\ Reaction(m).uploads = uploads /\ Reaction(m).stored = stored
      /\ Reaction(m).temp = tempFile /\ Reaction(m).effect = 0
  BY <1>4, <1>5, PlainReaction
<1> QED BY <1>1, <1>3, <1>4, <1>5, <1>6 DEF Apart, Fields

LEMMA GetUrlReactions ==
    ASSUME Typed, pc = "attempt", step = "GetUrl", NEW r \in Reactions \cup Unusual
    PROVE  /\ Apart(r) /\ r.temp = tempFile /\ r.effect = 0
           /\ "url" \in DOMAIN Fields(r) => r.reply.theirs = remote
           /\ Fields(r).size = Size(remote)
<1>1. CASE \E hash, punished \in BOOLEAN : r = Listing(hash, punished)
  BY <1>1, ListingIs
<1>2. CASE r = Reaction(OkReply([size |-> Size(remote)]))
  <2> DEFINE f == [size |-> Size(remote)]
  <2>1. DOMAIN f = {"size"} /\ f.size = Size(remote)
    OBVIOUS
  <2>2. r = Reaction(OkReply(f))
    BY <1>2
  <2> HIDE DEF f
  <2>3. Fields(r) = f /\ Apart(r) /\ r.temp = tempFile /\ r.effect = 0
    BY <2>2, OkReaction DEF Apart
  <2> QED BY <2>1, <2>3
<1> QED BY <1>1, <1>2 DEF Reactions, Unusual, UnusualListing

(* The data of a GET goes to the temporary file, when there is any. *)
LEMMA GetReactions ==
    ASSUME Typed, listed.content \in Contents, pc = "attempt", step = "Get", NEW r \in Reactions \cup Unusual
    PROVE  /\ Apart(r) /\ r.effect = 0 /\ r.reply.theirs \in Served /\ r.reply.theirs \in Contents
           /\ r.reply.mine = r.reply.theirs /\ r.temp = Written(r.reply.theirs)
<1>1. PICK c \in Served : r = [Reaction(DataReply(c)) EXCEPT !.temp = Written(c)]
  BY DEF Reactions, Unusual, ServeGet, DataReply
<1>2. c \in Contents /\ Written(c) \in Contents
  BY <1>1, ContentsAre DEF Served, Written, Typed
<1> DEFINE p == Reaction(DataReply(c))
<1>3. /\ IsReaction(p) /\ p.uploads = uploads /\ p.stored = stored /\ p.effect = 0
      /\ p.reply.theirs = c /\ p.reply.mine = c
  BY <1>2, DataReaction
<1> HIDE DEF p
<1>4. r = [p EXCEPT !.temp = Written(c)]
  BY <1>1 DEF p
<1> QED BY <1>1, <1>2, <1>3, <1>4 DEF Apart, IsReaction

(* An operation is carried out. *)
LEMMA OnlyReactions ==
    ASSUME Typed, pc = "attempt", step = "Only", NEW r \in Reactions \cup Unusual
    PROVE  /\ Apart(r) /\ r.temp = tempFile /\ r.effect = 1
           /\ r \in Reactions => r.reply.status = 200 /\ r.reply.theirs = r.reply.mine /\ r.reply.theirs = <<1, 1>>
           /\ r \in Unusual => r.reply.status = 203 /\ r.reply.theirs = NoFile
<1>1. ASSUME r = [Reaction(DataReply(<<1, 1>>)) EXCEPT !.effect = 1]
      PROVE  /\ Apart(r) /\ r.temp = tempFile /\ r.effect = 1
             /\ r.reply.status = 200 /\ r.reply.theirs = r.reply.mine /\ r.reply.theirs = <<1, 1>>
  <2> DEFINE p == Reaction(DataReply(<<1, 1>>))
  <2>1. /\ IsReaction(p) /\ p.uploads = uploads /\ p.stored = stored /\ p.temp = tempFile
        /\ p.reply.theirs = <<1, 1>> /\ p.reply.mine = <<1, 1>> /\ p.reply.status = 200
    BY ContentsAre, DataReaction
  <2> HIDE DEF p
  <2>2. r = [p EXCEPT !.effect = 1]
    BY <1>1 DEF p
  <2> QED BY <2>1, <2>2 DEF Apart, IsReaction
<1>2. ASSUME r = [Reaction([OkReply(NoFields) EXCEPT !.status = 203]) EXCEPT !.effect = 1]
      PROVE  Apart(r) /\ r.temp = tempFile /\ r.effect = 1 /\ r.reply.status = 203 /\ r.reply.theirs = NoFile
  <2> DEFINE ok == OkReply(NoFields)
             m  == [ok EXCEPT !.status = 203]
             p  == Reaction(m)
  <2>1. r = [p EXCEPT !.effect = 1]
    BY <1>2
  <2>0. IsReply(ok) /\ ok.theirs = NoFile /\ ok.answer = Answer(NoFields)
    BY OkReplyIs DEF Answers
  <2>2. IsReply(ok) /\ ok.theirs = NoFile /\ ok.answer.readable = TRUE
    BY <2>0, AnswerIs
  <2> HIDE DEF ok
  <2>3. IsReply(m) /\ m.theirs = NoFile /\ m.answer.readable = TRUE /\ m.status = 203
    BY <2>2 DEF IsReply
  <2> HIDE DEF m
  <2>4. IsReaction(p) /\ p.reply = m /\ p.uploads = uploads /\ p.stored = stored /\ p.temp = tempFile
    BY <2>3, PlainReaction
  <2> HIDE DEF p
  <2> QED BY <2>1, <2>3, <2>4 DEF Apart, IsReaction
<1>3. /\ r \in Reactions => r = [Reaction(DataReply(<<1, 1>>)) EXCEPT !.effect = 1]
      /\ r \in Unusual => r = [Reaction([OkReply(NoFields) EXCEPT !.status = 203]) EXCEPT !.effect = 1]
  BY DEF Reactions, Unusual, ServeOnly, UnusualOnly, DataReply
<1> QED BY <1>1, <1>2, <1>3

-----------------------------------------------------------------------------
(* An attempt ends in a reply, and may have moved the service.             *)

Ends ==
    /\ pc = "attempt" /\ pc' = "decide"
    /\ UNCHANGED <<source, dest, configuration, control, remote, step, message, attempt, target, result, seen, mixed>>

(* What an attempt may do to the service and to the temporary file. *)
Moves ==
    /\ uploads' \in Seq(Uploaded) /\ Len(uploads') >= Len(uploads) /\ stored' \in Contents /\ tempFile' \in Contents
    /\ step = "Put" => ~uploads'[upload].done
    /\ step = "Complete" => /\ uploads'[upload].data = uploads[upload].data
                            /\ uploads'[upload].done => stored' = uploads[upload].data

(* What its reply says, as the invariant has it. *)
OnlyMeans == step = "Only" =>
    effects <= doubts + 1 /\ (IsGood => effects >= 1) /\ (~IsGood => effects <= doubts \/ reply.status = 203)
CreateMeans == (step \in CreateSteps /\ IsGood /\ Readable) =>
    /\ "part_info_list" \in DOMAIN reply.answer.fields =>
          LET list == reply.answer.fields["part_info_list"]
          IN  list = <<>> \/ \E n \in DOMAIN uploads : Fresh(n) /\ list = <<UploadUrl(n)>>
    /\ "rapid_upload" \in DOMAIN reply.answer.fields => step = "Rapid" /\ stored = hashed /\ Size(hashed) = fileSize
PutMeans == (step = "Put" /\ IsGood /\ WithCrc) => uploads[upload].data \in seen \cup mixed
CompleteMeans == (step = "Complete" /\ IsGood /\ Readable) =>
    /\ "size" \in DOMAIN reply.answer.fields /\ reply.answer.fields["size"] = Size(uploads[upload].data)
    /\ stored = uploads[upload].data
GetUrlMeans == (step = "GetUrl" /\ IsGood /\ Readable) =>
    /\ "url" \in DOMAIN reply.answer.fields => reply.theirs \in seen
    /\ "size" \in DOMAIN reply.answer.fields => reply.answer.fields["size"] \in Nat
GetMeans == (step = "Get" /\ IsGood /\ WithCrc) =>
    /\ reply.theirs \in seen \/ (listed.punished /\ reply.theirs = Notice)
    /\ reply.theirs # EmptyFile => tempFile = reply.theirs
Means == OnlyMeans /\ CreateMeans /\ PutMeans /\ CompleteMeans /\ GetUrlMeans /\ GetMeans

LEMMA EndsKeepsInv ==
    ASSUME Inv, Ends, Moves, Means', enabled' \in BOOLEAN, effects' \in Nat, doubts' \in Nat, misread' \in BOOLEAN,
           misread => misread', reply'.answer.readable = TRUE \/ (misread' /\ reply'.answer = Unreadable)
    PROVE  Inv'
<1> USE DEF Inv, Ends, target
<1>1. Typed'
  BY DEF Typed, Moves, Uploaded
<1>2. Stages'
  BY DEF Stages, Running
<1>3. Sources'
  BY DEF Sources, Running, Readable
<1>4. Accounts'
  BY DEF Accounts, Running, Replied, Means, OnlyMeans
<1>5. Creating'
  BY DEF Creating, Running, Means, CreateMeans, CreateSteps
<1>6. DOMAIN uploads = 1 .. Len(uploads) /\ DOMAIN uploads' = 1 .. Len(uploads') /\ Len(uploads) \in Nat /\ Len(uploads') \in Nat
  BY DEF Typed, Moves, Uploaded
<1>7. upload \in DOMAIN uploads => upload \in DOMAIN uploads'
  BY <1>6 DEF Moves
<1>8. Putting'
  BY <1>7 DEF Putting, Running, Means, PutMeans, Moves, WithCrc
<1>9. Completing'
  BY <1>7 DEF Completing, Running, Means, CompleteMeans, Moves, WithCrc
<1>10. Listings'
  BY DEF Listings, Means, GetUrlMeans
<1>11. Getting'
  BY DEF Getting, Running, Means, GetMeans, WithCrc
<1>12. OkMeansStored' /\ FailureMeansDoubt' /\ ResultIsRead'
  BY DEF OkMeansStored, FailureMeansDoubt, ResultIsRead
<1> QED BY <1>1, <1>2, <1>3, <1>4, <1>5, <1>8, <1>9, <1>10, <1>11, <1>12

LEMMA StaysAreMoves == Inv /\ pc = "attempt" /\ UNCHANGED <<uploads, stored, tempFile>> => Moves
BY DEF Inv, Moves, Typed, Putting, Completing, Running, Uploaded

LEMMA HundredsAre == ASSUME NEW status \in Nat PROVE status \div 100 = 2 <=> status \in 200 .. 299
OBVIOUS

LEMMA BadIs == reply'.status \in Nat /\ reply'.status \notin 200 .. 299 => ~IsGood'
BY HundredsAre DEF IsGood, HasResponseError

LEMMA BadMeans ==
    ASSUME Ends, ~IsGood', step = "Only" => effects' <= doubts', effects' \in Nat, doubts' \in Nat
    PROVE  Means'
<1>0. step = "Only" => effects' <= doubts' + 1
  <2>1. \A a, b \in Nat : a <= b => a <= b + 1
    OBVIOUS
  <2> QED BY <2>1
<1>1. OnlyMeans'
  BY <1>0 DEF Ends, OnlyMeans
<1>2. CreateMeans' /\ PutMeans' /\ CompleteMeans' /\ GetUrlMeans' /\ GetMeans'
  BY DEF CreateMeans, PutMeans, CompleteMeans, GetUrlMeans, GetMeans
<1> QED BY <1>1, <1>2 DEF Means

(* Replies that say that a request failed. *)
Fails(r) == IsReply(r) /\ r.answer.readable = TRUE /\ r.status \notin 200 .. 299

LEMMA StatusFails ==
    ASSUME NEW status \in Nat, status \notin 200 .. 299
    PROVE  Fails([NoReply EXCEPT !.status = status])
<1> DEFINE r == [NoReply EXCEPT !.status = status]
<1>1. IsReply(r) /\ r.status = status /\ r.answer = Answer(NoFields)
  BY NoReplyIs DEF IsReply, Answers
<1> HIDE DEF r
<1>2. Fails(r)
  BY <1>1, NoAnswerIs DEF Fails
<1> QED BY <1>2 DEF r

LEMMA BrokenIs ==
    ASSUME NEW curl \in {3, 6, 7, 18, 23, 42, 56}
    PROVE  Fails(Broken(curl))
<1>1. CurlBase + curl \in Nat /\ CurlBase + curl \notin 200 .. 299
  BY DEF CurlBase
<1>2. Broken(curl) = [NoReply EXCEPT !.status = CurlBase + curl]
  BY DEF Broken
<1> DEFINE n == CurlBase + curl
<1> HIDE DEF n
<1> QED BY <1>1, <1>2, StatusFails DEF n

LEMMA ErrorFails ==
    ASSUME NEW status \in Nat, status \notin 200 .. 299, NEW code
    PROVE  Fails(ErrorReply(status, code))
BY ErrorReplyIs, AnswerIs DEF Fails

LEMMA DisabledFails == Fails([NoReply EXCEPT !.code = "ClientError:100002"])
<1> DEFINE r == [NoReply EXCEPT !.code = "ClientError:100002"]
<1>1. IsReply(r) /\ r.status = 0 /\ r.answer = Answer(NoFields)
  BY NoReplyIs DEF IsReply, Answers
<1> HIDE DEF r
<1>2. Fails(r)
  BY <1>1, NoAnswerIs DEF Fails
<1> QED BY <1>2 DEF r

LEMMA FailsAreBad == Fails(reply') => ~IsGood'
BY BadIs DEF Fails, IsReply

(* Nothing happens but that the attempt fails. *)
LEMMA QuietAttempt ==
    ASSUME Inv, AttemptDisabled \/ UrlMalformed \/ Unsent \/ Busy \/ Refused
    PROVE  Inv'
<1>1. Ends /\ UNCHANGED <<uploads, stored, tempFile, enabled, effects, doubts, misread>>
  BY DEF AttemptDisabled, UrlMalformed, Unsent, Busy, Refused, EndWith, Ends, files, switch, service, target, ghosts
<1>2. Fails(reply')
  <2>1. CASE AttemptDisabled
    BY <2>1, DisabledFails DEF AttemptDisabled
  <2>2. CASE UrlMalformed \/ Unsent
    <3>1. reply' \in {Broken(3), Broken(6), Broken(7)}
      BY <2>2 DEF UrlMalformed, Unsent, EndWith
    <3> QED BY <3>1, BrokenIs
  <2>3. CASE Busy \/ Refused
    <3>1. \/ \E status \in {429, 503, 599} : reply' = ErrorReply(status, "")
          \/ reply' \in {ErrorReply(401, "AccessTokenInvalid"), ErrorReply(403, "Forbidden")}
      BY <2>3 DEF Busy, Refused, EndWith
    <3>2. CASE \E status \in {429, 503, 599} : reply' = ErrorReply(status, "")
      <4>1. PICK status \in {429, 503, 599} : reply' = ErrorReply(status, "")
        BY <3>2
      <4>0. \A n \in {429, 503, 599} : n \in Nat /\ n \notin 200 .. 299
        OBVIOUS
      <4>2. status \in Nat /\ status \notin 200 .. 299
        BY <4>0, <4>1, Zenon
      <4>3. Fails(ErrorReply(status, ""))
        BY <4>2, ErrorFails
      <4> QED BY <4>1, <4>3
    <3>3. Fails(ErrorReply(401, "AccessTokenInvalid")) /\ Fails(ErrorReply(403, "Forbidden"))
      <4>1. 401 \in Nat /\ 401 \notin 200 .. 299 /\ 403 \in Nat /\ 403 \notin 200 .. 299
        OBVIOUS
      <4> QED BY <4>1, ErrorFails
    <3>4. CASE reply' = ErrorReply(401, "AccessTokenInvalid")
      BY <3>3, <3>4
    <3>5. CASE reply' = ErrorReply(403, "Forbidden")
      BY <3>3, <3>5
    <3> QED BY <3>1, <3>2, <3>4, <3>5
  <2> QED BY <2>1, <2>2, <2>3
<1>3. step = "Only" => effects' <= doubts'
  BY <1>1 DEF Inv, Accounts, Running, Replied, Ends
<1>4. Moves
  BY <1>1, StaysAreMoves DEF Ends
<1>5. /\ enabled' \in BOOLEAN /\ effects' \in Nat /\ doubts' \in Nat /\ misread' \in BOOLEAN
      /\ misread => misread'
  BY <1>1 DEF Inv, Typed
<1>6. Means'
  BY <1>1, <1>2, <1>3, <1>5, FailsAreBad, BadMeans
<1> QED BY <1>1, <1>2, <1>4, <1>5, <1>6, EndsKeepsInv DEF Fails

-----------------------------------------------------------------------------
(* Attempts that reach the service.                                        *)

(* What the invariant says where an attempt stands. *)
LEMMA AttemptStands ==
    ASSUME Inv, pc = "attempt"
    PROVE  /\ step \in {"Only"} \cup UploadSteps \cup DownloadSteps
           /\ source \in Contents /\ remote \in Contents
           /\ step = "Put" => source \in seen /\ upload \in DOMAIN uploads /\ ~uploads[upload].done
           /\ step = "Complete" => upload \in DOMAIN uploads /\ (uploads[upload].done => stored = uploads[upload].data)
           /\ step \in DownloadSteps => call.op = "Download" /\ remote \in seen /\ seen \subseteq Versions
           /\ step = "Get" => listed.content \in seen
           /\ step \in UploadSteps => call.op = "Upload"
           /\ step = "Only" => call \in Operations /\ effects <= doubts
           /\ step \in {"Put", "Get"} => \A h \in message.headers : h[1] # "Range"
<1>1. source \in Contents /\ remote \in Contents
  BY ContentsAre DEF Inv, Typed
<1>2. /\ step \in {"Only"} \cup UploadSteps \cup DownloadSteps
      /\ step \in DownloadSteps => call.op = "Download"
      /\ step \in UploadSteps => call.op = "Upload"
      /\ step = "Only" => call \in Operations
  BY DEF Inv, Stages, Running
<1>3. /\ call.op = "Download" => remote \in seen /\ seen \subseteq Versions
      /\ call.op = "Upload" => source \in seen
      /\ step \in {"Put", "Get"} => \A h \in message.headers : h[1] # "Range"
  BY DEF Inv, Sources, Running
<1>4. /\ step = "Put" => upload \in DOMAIN uploads /\ ~uploads[upload].done
      /\ step = "Complete" => upload \in DOMAIN uploads /\ (uploads[upload].done => stored = uploads[upload].data)
      /\ step = "Get" => listed.content \in seen
      /\ step = "Only" => effects <= doubts
  BY DEF Inv, Putting, Completing, Getting, Accounts, Running, Replied
<1>5. step = "Put" => step \in UploadSteps
  BY DEF UploadSteps
<1> QED BY <1>1, <1>2, <1>3, <1>4, <1>5

LEMMA ReactionMoves ==
    ASSUME Inv, pc = "attempt", NEW r \in Reactions \cup Unusual \cup {Reaction(NoReply)}
    PROVE  /\ IsReaction(r)
           /\ step = "Put" => ~r.uploads[upload].done
           /\ step = "Complete" => /\ r.uploads[upload].data = uploads[upload].data
                                   /\ r.uploads[upload].done => r.stored = uploads[upload].data
<1> USE AttemptStands
<1>0. Typed
  BY DEF Inv
<1>1. CASE r = Reaction(NoReply)
  <2>1. IsReply(NoReply) /\ NoReply.answer = Answer(NoFields)
    BY NoReplyIs DEF Answers
  <2>2. IsReaction(r) /\ r.uploads = uploads /\ r.stored = stored
    BY <1>0, <1>1, <2>1, AnswerIs, PlainReaction
  <2> QED BY <2>2
<1> SUFFICES ASSUME r \in Reactions \cup Unusual
             PROVE  /\ IsReaction(r)
                    /\ step = "Put" => ~r.uploads[upload].done
                    /\ step = "Complete" => /\ r.uploads[upload].data = uploads[upload].data
                                            /\ r.uploads[upload].done => r.stored = uploads[upload].data
  BY <1>1
<1>2. CASE step \in CreateSteps
  BY <1>0, <1>2, CreateReactions DEF CreateSteps
<1>3. CASE step = "Put"
  <2>1. /\ IsReaction(r)
        /\ (r.uploads = Holding(r.reply.theirs, FALSE) /\ r.reply.theirs \in Sendable) \/ r.uploads = uploads
    BY <1>0, <1>3, PutReactions
  <2>2. \A c \in Sendable : Holding(c, FALSE)[upload].done = FALSE
    BY <1>0, <1>3, SendableIs, HoldingIs
  <2> QED BY <1>0, <1>3, <2>1, <2>2
<1>4. CASE step = "Complete"
  BY <1>0, <1>4, CompleteReactions
<1>5. CASE step = "GetUrl"
  BY <1>0, <1>5, GetUrlReactions DEF Apart
<1>6. CASE step = "Get"
  <2>1. listed.content \in Contents
    BY <1>6, ContentsAre DEF DownloadSteps
  <2> QED BY <1>0, <1>6, <2>1, GetReactions DEF Apart
<1>7. CASE step = "Only"
  BY <1>0, <1>7, OnlyReactions DEF Apart
<1> QED BY <1>2, <1>3, <1>4, <1>5, <1>6, <1>7 DEF UploadSteps, DownloadSteps

(* A carried request has ended, and moved the service as its reaction says. *)
LEMMA CarryIs ==
    ASSUME Inv, NEW r, NEW q \in Reactions \cup Unusual \cup {Reaction(NoReply)}, Carry(r),
           r.uploads = q.uploads, r.stored = q.stored, r.temp \in Contents, r.effect = q.effect
    PROVE  /\ Ends /\ Moves /\ effects' \in Nat /\ effects' <= effects + 1 /\ effects' = effects + r.effect
<1>1. Ends
  BY DEF Carry, Ends
<1>2. /\ IsReaction(q)
      /\ step = "Put" => ~q.uploads[upload].done
      /\ step = "Complete" => /\ q.uploads[upload].data = uploads[upload].data
                              /\ q.uploads[upload].done => q.stored = uploads[upload].data
  BY ReactionMoves DEF Carry
<1>3. q.uploads \in Seq(Uploaded) /\ Len(q.uploads) >= Len(uploads) /\ q.stored \in Contents /\ q.effect \in {0, 1}
  BY <1>2 DEF IsReaction
<1>4. uploads' = q.uploads /\ stored' = q.stored /\ tempFile' = r.temp /\ effects' = effects + q.effect
  BY DEF Carry
<1>5. Moves
  BY <1>2, <1>3, <1>4 DEF Moves
<1>6. effects \in Nat
  BY DEF Inv, Typed
<1>7. effects' \in Nat /\ effects' <= effects + 1
  BY <1>3, <1>4, <1>6
<1> QED BY <1>1, <1>4, <1>5, <1>7

LEMMA AppendedIs ==
    ASSUME Typed, uploads' = Append(uploads, EmptyUpload), NEW n, n = NewUpload
    PROVE  n \in DOMAIN uploads' /\ Fresh(n)'
<1>1. uploads \in Seq(Uploaded) /\ Len(uploads) \in Nat
  BY DEF Typed, Uploaded
<1> DEFINE u == EmptyUpload
<1>2. u \in Uploaded /\ u.data = NoData /\ ~u.done
  BY EmptyUploadIs
<1> HIDE DEF u
<1>3. uploads' = Append(uploads, u)
  BY DEF u
<1>4. n \in DOMAIN uploads' /\ uploads'[n] = u
  BY <1>1, <1>2, <1>3 DEF NewUpload
<1> QED BY <1>2, <1>4 DEF Fresh, NoData

LEMMA CreateAnswered ==
    ASSUME Inv, step \in CreateSteps, NEW r \in Reactions \cup Unusual, Carry(r), reply' = r.reply
    PROVE  CreateMeans'
<1> DEFINE list == Fields(r)["part_info_list"]
<1>1. Ends
  BY DEF Carry, Ends
<1>2. /\ r.uploads = uploads \/ r.uploads = Append(uploads, EmptyUpload)
      /\ "part_info_list" \in DOMAIN Fields(r) =>
           list = <<>> \/ (r.uploads = Append(uploads, EmptyUpload) /\ list = <<UploadUrl(NewUpload)>>)
      /\ "rapid_upload" \in DOMAIN Fields(r) => step = "Rapid" /\ r.stored = hashed /\ Size(hashed) = fileSize
  BY CreateReactions DEF Inv, Carry
<1>3. uploads' = r.uploads /\ stored' = r.stored /\ Fields(r) = reply'.answer.fields
  BY DEF Carry, Fields
<1>4. step' = step /\ hashed' = hashed /\ fileSize' = fileSize
  BY <1>1 DEF Ends, target
<1>5. PICK n : n = NewUpload
  OBVIOUS
<1>6. UploadUrl(n)' = UploadUrl(NewUpload)
  BY <1>4, <1>5 DEF UploadUrl
<1>7. ASSUME "part_info_list" \in DOMAIN Fields(r)
      PROVE  list = <<>> \/ (n \in DOMAIN uploads' /\ Fresh(n)' /\ list = <<UploadUrl(n)'>>)
  BY <1>2, <1>3, <1>5, <1>6, <1>7, AppendedIs DEF Inv
<1> HIDE DEF list
<1>8. "part_info_list" \in DOMAIN Fields(r) => list = <<>> \/ (\E k \in DOMAIN uploads : Fresh(k) /\ list = <<UploadUrl(k)>>)'
  BY <1>7
<1>9. list = reply'.answer.fields["part_info_list"] /\ Fields(r) = reply'.answer.fields
  BY <1>3 DEF list
<1>10. "rapid_upload" \in DOMAIN Fields(r) => step' = "Rapid" /\ stored' = hashed' /\ Size(hashed') = fileSize'
  BY <1>2, <1>3, <1>4
<1> QED BY <1>8, <1>9, <1>10 DEF CreateMeans

LEMMA PutAnswered ==
    ASSUME Inv, step = "Put", NEW r \in Reactions \cup Unusual, Carry(r), reply' = r.reply
    PROVE  PutMeans'
<1>1. Ends /\ pc = "attempt" /\ Typed
  BY DEF Carry, Ends, Inv
<1>2. source \in Contents /\ source \in seen /\ upload \in DOMAIN uploads
  BY <1>1, AttemptStands
<1>3. CASE r.uploads = Holding(r.reply.theirs, FALSE) /\ r.reply.theirs \in Sendable
  <2>1. r.reply.theirs \in Contents /\ r.reply.theirs \in seen \cup mixed
    BY <1>1, <1>2, <1>3, SendableIs
  <2>2. uploads'[upload].data = r.reply.theirs
    BY <1>1, <1>2, <1>3, <2>1, HoldingIs DEF Carry
  <2> QED BY <1>1, <2>1, <2>2 DEF PutMeans, Ends, target
<1>4. CASE r.reply.status = 409
  <2>1. ~IsGood'
    <3>1. 409 \in Nat /\ 409 \notin 200 .. 299
      OBVIOUS
    <3> QED BY <1>4, <3>1, BadIs
  <2> QED BY <2>1 DEF PutMeans
<1> QED BY <1>1, <1>2, <1>3, <1>4, PutReactions

LEMMA CompleteAnswered ==
    ASSUME Inv, step = "Complete", NEW r \in Reactions \cup Unusual, Carry(r), reply' = r.reply
    PROVE  CompleteMeans'
<1>1. Ends /\ pc = "attempt" /\ Typed
  BY DEF Carry, Ends, Inv
<1>2. upload \in DOMAIN uploads /\ (uploads[upload].done => stored = uploads[upload].data)
  BY <1>1, AttemptStands
<1>3. /\ r.uploads[upload].data = uploads[upload].data
      /\ \/ r.reply.status \in {400, 404}
         \/ /\ r.reply.status = 200 /\ r.stored = uploads[upload].data
            /\ Fields(r) = [size |-> Size(uploads[upload].data)]
  BY <1>1, <1>2, CompleteReactions
<1>4. CASE r.reply.status \in {400, 404}
  <2>1. ~IsGood'
    <3>1. \A status \in {400, 404} : status \in Nat /\ status \notin 200 .. 299
      OBVIOUS
    <3> QED BY <1>4, <3>1, BadIs
  <2> QED BY <2>1 DEF CompleteMeans
<1>5. CASE r.stored = uploads[upload].data /\ Fields(r) = [size |-> Size(uploads[upload].data)]
  <2>1. stored' = uploads'[upload].data
    BY <1>3, <1>5 DEF Carry
  <2>2. upload' = upload
    BY <1>1 DEF Ends, target
  <2>3. Fields(r) = reply'.answer.fields
    BY DEF Fields
  <2>4. "size" \in DOMAIN Fields(r) /\ Fields(r)["size"] = Size(uploads[upload].data)
    BY <1>5
  <2>5. uploads'[upload].data = uploads[upload].data
    BY <1>3 DEF Carry
  <2> QED BY <2>1, <2>2, <2>3, <2>4, <2>5 DEF CompleteMeans, Size
<1> QED BY <1>3, <1>4, <1>5

LEMMA GetUrlAnswered ==
    ASSUME Inv, step = "GetUrl", NEW r \in Reactions \cup Unusual, Carry(r), reply' = r.reply
    PROVE  GetUrlMeans'
<1>1. Ends /\ pc = "attempt" /\ Typed
  BY DEF Carry, Ends, Inv
<1>2. remote \in seen /\ remote \in Contents
  BY <1>1, AttemptStands DEF DownloadSteps
<1>3. ("url" \in DOMAIN Fields(r) => r.reply.theirs = remote) /\ Fields(r).size = Size(remote)
  BY <1>1, GetUrlReactions
<1>4. Size(remote) \in Nat
  BY <1>2, ContentsAre
<1>5. Fields(r) = reply'.answer.fields /\ seen' = seen
  BY <1>1 DEF Fields, Ends
<1>6. ("url" \in DOMAIN reply'.answer.fields => reply'.theirs \in seen') /\ reply'.answer.fields["size"] \in Nat
  BY <1>2, <1>3, <1>4, <1>5
<1> QED BY <1>6 DEF GetUrlMeans

(* Data that was served and is written whole. *)
LEMMA ServedIs ==
    ASSUME Inv, pc = "attempt", step = "Get", NEW c \in Served
    PROVE  /\ c \in seen \/ (listed.punished /\ c = Notice)
           /\ c # EmptyFile => Written(c) = c
<1>1. c \in seen \/ (listed.punished /\ c = Notice)
  BY AttemptStands DEF Served, DownloadSteps
<1>2. seen \subseteq Versions
  BY AttemptStands DEF DownloadSteps
<1>3. Size(Notice) = 1
  BY PairsAre DEF Notice
<1>4. ASSUME c \in Versions, c # EmptyFile
      PROVE  Size(c) # 0
  BY <1>4, VersionsAssumption
<1> QED BY <1>1, <1>2, <1>3, <1>4 DEF Written

LEMMA GetAnswered ==
    ASSUME Inv, step = "Get", NEW r \in Reactions \cup Unusual, Carry(r), reply' = r.reply
    PROVE  GetMeans'
<1>1. Ends /\ pc = "attempt" /\ Typed
  BY DEF Carry, Ends, Inv
<1>2. listed.content \in Contents
  BY <1>1, AttemptStands, ContentsAre DEF DownloadSteps
<1>3. r.reply.theirs \in Served /\ r.temp = Written(r.reply.theirs)
  BY <1>1, <1>2, GetReactions
<1>4. /\ r.reply.theirs \in seen \/ (listed.punished /\ r.reply.theirs = Notice)
      /\ r.reply.theirs # EmptyFile => r.temp = r.reply.theirs
  BY <1>1, <1>3, ServedIs
<1>5. seen' = seen /\ listed' = listed /\ tempFile' = r.temp
  BY <1>1 DEF Carry, Ends, target
<1>6. /\ reply'.theirs \in seen' \/ (listed'.punished /\ reply'.theirs = Notice)
      /\ reply'.theirs # EmptyFile => tempFile' = reply'.theirs
  BY <1>4, <1>5
<1> QED BY <1>6 DEF GetMeans

LEMMA OnlyAnswered ==
    ASSUME Inv, step = "Only", NEW r \in Reactions \cup Unusual, Carry(r), UNCHANGED doubts,
           r \in Reactions => reply'.status = 200 /\ reply'.theirs = reply'.mine,
           r \notin Reactions => reply'.status = r.reply.status
    PROVE  OnlyMeans'
<1>1. Ends /\ pc = "attempt" /\ Typed
  BY DEF Carry, Ends, Inv
<1>2. r.effect = 1 /\ (r \in Unusual => r.reply.status = 203)
  BY <1>1, OnlyReactions
<1>3. effects' = effects + 1 /\ effects \in Nat /\ doubts \in Nat /\ effects <= doubts
  BY <1>1, <1>2, AttemptStands DEF Carry, Typed
<1>4. effects' <= doubts' + 1 /\ effects' >= 1
  BY <1>3
<1>5. reply'.status = 200 /\ reply'.theirs = reply'.mine => IsGood'
  <2>1. 200 \div 100 = 2 /\ 200 # 0 /\ 200 # 203
    OBVIOUS
  <2> QED BY <2>1 DEF IsGood, HasResponseError, CrcDiffers
<1> QED BY <1>2, <1>4, <1>5 DEF OnlyMeans

LEMMA MeansByStep ==
    ASSUME Ends,
           step = "Only" => OnlyMeans', step \in CreateSteps => CreateMeans', step = "Put" => PutMeans',
           step = "Complete" => CompleteMeans', step = "GetUrl" => GetUrlMeans', step = "Get" => GetMeans'
    PROVE  Means'
<1>1. step' = step
  BY DEF Ends
<1>2. OnlyMeans'
  BY <1>1 DEF OnlyMeans
<1>3. CreateMeans'
  BY <1>1 DEF CreateMeans
<1>4. PutMeans' /\ CompleteMeans' /\ GetUrlMeans' /\ GetMeans'
  BY <1>1 DEF PutMeans, CompleteMeans, GetUrlMeans, GetMeans
<1> QED BY <1>2, <1>3, <1>4 DEF Means

LEMMA TypesOfGhosts == Inv => /\ enabled \in BOOLEAN /\ effects \in Nat /\ doubts \in Nat /\ misread \in BOOLEAN
                              /\ tempFile \in Contents /\ source \in Contents /\ remote \in Contents
BY ContentsAre DEF Inv, Typed

LEMMA AnsweredKeepsInv == ASSUME Inv, Answered PROVE Inv'
<1>1. PICK r \in Reactions \cup Unusual : Carry(r) /\ reply' = r.reply
  BY DEF Answered
<1>2. pc = "attempt" /\ UNCHANGED <<enabled, doubts, misread>>
  BY <1>1 DEF Answered, Carry
<1>3. IsReaction(r)
  BY <1>1, <1>2, ReactionMoves
<1>4. Ends /\ Moves /\ effects' \in Nat
  BY <1>1, <1>3, CarryIs DEF IsReaction
<1>5. ASSUME step = "Only" PROVE OnlyMeans'
  <2>1. r \in Reactions => r.reply.status = 200 /\ r.reply.theirs = r.reply.mine
    BY <1>2, <1>5, OnlyReactions DEF Inv
  <2> QED BY <1>1, <1>2, <1>5, <2>1, OnlyAnswered
<1>6. Means'
  BY <1>1, <1>4, <1>5, CreateAnswered, PutAnswered, CompleteAnswered, GetUrlAnswered, GetAnswered, MeansByStep
<1>7. reply'.answer.readable = TRUE
  BY <1>1, <1>3 DEF IsReaction
<1> QED BY <1>2, <1>4, <1>6, <1>7, TypesOfGhosts, EndsKeepsInv

(* The service may have done it, but the caller does not hear of it. *)
LEMMA LostKeepsInv == ASSUME Inv, AnswerLost \/ Aborted PROVE Inv'
<1>1. PICK r \in Reactions \cup {Reaction(NoReply)} : Carry(r)
  BY DEF AnswerLost, Aborted
<1>2. /\ pc = "attempt" /\ doubts' = doubts + 1 /\ misread' = misread /\ enabled' \in BOOLEAN
      /\ reply' = Broken(56) \/ reply' = Broken(42)
  BY <1>1, TypesOfGhosts DEF AnswerLost, Aborted, Carry
<1>3. IsReaction(r)
  BY <1>1, <1>2, ReactionMoves
<1>4. Ends /\ Moves /\ effects' \in Nat /\ effects' <= effects + 1
  BY <1>1, <1>3, CarryIs DEF IsReaction
<1>5. Fails(reply')
  BY <1>2, BrokenIs
<1>6. doubts' \in Nat /\ (effects <= doubts => effects' <= doubts')
  BY <1>2, <1>4, TypesOfGhosts
<1>7. step = "Only" => effects <= doubts
  BY <1>2, AttemptStands
<1>8. Means'
  BY <1>4, <1>5, <1>6, <1>7, FailsAreBad, BadMeans
<1> QED BY <1>2, <1>4, <1>5, <1>6, <1>8, TypesOfGhosts, EndsKeepsInv DEF Fails

LEMMA UnreadableReply ==
    ASSUME NEW q, IsReply(q), NEW r, r = [q EXCEPT !.answer = Unreadable]
    PROVE  r.answer = Unreadable /\ r.status = q.status /\ r.theirs = q.theirs /\ r.mine = q.mine
BY DEF IsReply

LEMMA GarbledKeepsInv == ASSUME Inv, AnswerGarbled PROVE Inv'
<1>1. PICK r \in Reactions :
        Carry(r) /\ ~IsTransfer /\ r.reply.status = 200 /\ reply' = [r.reply EXCEPT !.answer = Unreadable]
  BY DEF AnswerGarbled
<1>2. pc = "attempt" /\ UNCHANGED <<enabled, doubts>> /\ misread' = TRUE
  BY <1>1 DEF AnswerGarbled, Carry
<1>3. IsReaction(r)
  BY <1>1, <1>2, ReactionMoves
<1>4. Ends /\ Moves /\ effects' \in Nat
  BY <1>1, <1>3, CarryIs DEF IsReaction
<1>5. reply'.answer = Unreadable /\ reply'.status = 200 /\ reply'.theirs = r.reply.theirs /\ reply'.mine = r.reply.mine
  BY <1>1, <1>3, UnreadableReply DEF IsReaction
<1>6. ~Readable'
  BY <1>5 DEF Readable, Unreadable
<1>7. ASSUME step = "Only" PROVE OnlyMeans'
  <2>1. r.reply.theirs = r.reply.mine
    BY <1>2, <1>7, OnlyReactions DEF Inv
  <2> QED BY <1>1, <1>2, <1>5, <1>7, <2>1, OnlyAnswered
<1>8. CreateMeans' /\ CompleteMeans' /\ GetUrlMeans'
  BY <1>6 DEF CreateMeans, CompleteMeans, GetUrlMeans
<1>9. Means'
  BY <1>1, <1>4, <1>7, <1>8, MeansByStep DEF IsTransfer
<1> QED BY <1>2, <1>4, <1>5, <1>9, TypesOfGhosts, EndsKeepsInv

(* With a CRC, data that differs is not taken for good. *)
LEMMA CrcIsChecked ==
    ASSUME Inv, Ends, step \in {"Put", "Get"}, IsGood', WithCrc', reply'.theirs # NoFile
    PROVE  reply'.mine = reply'.theirs
<1>1. message' = message /\ \A h \in message.headers : h[1] # "Range"
  BY AttemptStands DEF Ends
<1>2. ~CrcDiffers(reply)'
  BY DEF IsGood, HasResponseError
<1> QED BY <1>1, <1>2 DEF CrcDiffers, WithCrc

LEMMA AlteredReplies ==
    ASSUME NEW q, IsReply(q), NEW c \in Contents
    PROVE  /\ [q EXCEPT !.mine = c].answer = q.answer /\ [q EXCEPT !.mine = c].theirs = q.theirs
           /\ [q EXCEPT !.mine = c].mine = c
           /\ [q EXCEPT !.theirs = c].answer = q.answer /\ [q EXCEPT !.theirs = c].mine = q.mine
           /\ [q EXCEPT !.theirs = c].theirs = c
BY DEF IsReply

LEMMA PositiveIsFile == ASSUME NEW c \in Contents, Size(c) > 0 PROVE c # NoFile /\ Altered(c) # NoFile /\ c # EmptyFile
<1>1. c # NoFile
  BY DEF Size
<1>2. Size(c) \in Nat /\ Size(NoFile) = 0 /\ Size(EmptyFile) = 0 /\ Size(Altered(c)) = Size(c)
  BY ContentsAre, PairsAre DEF Size, EmptyFile
<1> QED BY <1>1, <1>2

LEMMA PutTaken ==
    ASSUME Inv, pc = "attempt", step = "Put", NEW r \in Reactions \cup Unusual
    PROVE  /\ IsReaction(r) /\ r.temp = tempFile /\ r.effect = 0 /\ r.stored = stored
           /\ \/ r.reply.theirs \in Contents /\ r.reply.theirs \in seen \cup mixed /\ r.reply.mine = r.reply.theirs
              \/ r.reply.status = 409
<1>1. Typed /\ source \in Contents /\ source \in seen /\ upload \in DOMAIN uploads
  BY AttemptStands DEF Inv
<1>2. /\ IsReaction(r) /\ r.temp = tempFile /\ r.effect = 0 /\ r.stored = stored
      /\ (r.reply.theirs \in Sendable /\ r.reply.mine = r.reply.theirs) \/ r.reply.status = 409
  BY <1>1, PutReactions
<1>3. Sendable \subseteq Contents /\ Sendable \subseteq {source} \cup mixed
  BY <1>1, SendableIs
<1> QED BY <1>1, <1>2, <1>3

LEMMA PutAltered ==
    ASSUME Inv, step = "Put", NEW r \in Reactions, r.reply.status = 200,
           Carry([r EXCEPT !.uploads = Holding(Altered(r.reply.theirs), FALSE)]),
           reply' = [r.reply EXCEPT !.theirs = Altered(@)], Size(r.reply.theirs) > 0
    PROVE  Ends /\ Moves /\ Means' /\ effects' \in Nat /\ reply'.answer.readable = TRUE
<1> DEFINE c  == r.reply.theirs
           us == Holding(Altered(c), FALSE)
           q  == [r EXCEPT !.uploads = us]
<1>1. pc = "attempt" /\ Typed
  BY DEF Carry, Inv
<1>2. upload \in DOMAIN uploads
  BY <1>1, AttemptStands
<1>3. /\ IsReaction(r) /\ r.temp = tempFile /\ r.effect = 0 /\ r.stored = stored
      /\ c \in Contents /\ c \in seen \cup mixed /\ r.reply.mine = c
  <2>1. r.reply.status # 409
    OBVIOUS
  <2>2. /\ IsReaction(r) /\ r.temp = tempFile /\ r.effect = 0 /\ r.stored = stored
        /\ (c \in Contents /\ c \in seen \cup mixed /\ r.reply.mine = c) \/ r.reply.status = 409
    BY <1>1, PutTaken
  <2> QED BY <2>1, <2>2
<1>4. Altered(c) \in Contents
  BY <1>3, ContentsAre
<1>5. us \in Seq(Uploaded) /\ Len(us) = Len(uploads) /\ us[upload].data = Altered(c) /\ ~us[upload].done
  BY <1>1, <1>2, <1>4, HoldingIs
<1>6. reply'.answer = r.reply.answer /\ reply'.theirs = Altered(c) /\ reply'.mine = c
  BY <1>3, <1>4, AlteredReplies DEF IsReaction
<1>7. Carry(q)
  OBVIOUS
<1> HIDE DEF us
<1>8. q.uploads = us /\ q.stored = stored /\ q.temp = tempFile /\ q.effect = 0
  BY <1>3 DEF IsReaction
<1> HIDE DEF q
<1>9. Ends /\ uploads' = us /\ stored' = stored /\ tempFile' = tempFile /\ effects' = effects + 0
  BY <1>7, <1>8 DEF Carry, Ends
<1>10. Len(uploads) \in Nat /\ effects \in Nat /\ stored \in Contents /\ tempFile \in Contents
  BY <1>1 DEF Typed, Uploaded
<1>11. Moves /\ effects' \in Nat
  BY <1>5, <1>9, <1>10 DEF Moves
<1>12. PutMeans'
  <2> SUFFICES ASSUME IsGood', WithCrc' PROVE uploads'[upload'].data \in seen' \cup mixed'
    BY DEF PutMeans
  <2>1. reply'.theirs # NoFile
    BY <1>3, <1>6, PositiveIsFile
  <2>2. c = Altered(c)
    BY <1>6, <1>9, <2>1, CrcIsChecked
  <2> QED BY <1>3, <1>5, <1>9, <2>2 DEF Ends, target
<1>13. Means'
  BY <1>9, <1>12, MeansByStep DEF CreateSteps
<1> QED BY <1>3, <1>6, <1>9, <1>11, <1>13 DEF IsReaction

(* Data of a download, or of an operation, that arrives changed. *)
LEMMA GetAltered ==
    ASSUME Inv, step \in {"Get", "Only"}, NEW r \in Reactions,
           Carry([r EXCEPT !.temp = IF step = "Get" THEN Written(Altered(r.reply.theirs)) ELSE @]),
           reply' = [r.reply EXCEPT !.mine = Altered(@)], Size(r.reply.theirs) > 0, doubts' = doubts + 1
    PROVE  Ends /\ Moves /\ Means' /\ effects' \in Nat /\ reply'.answer.readable = TRUE
<1> DEFINE t == IF step = "Get" THEN Written(Altered(r.reply.theirs)) ELSE r.temp
           q == [r EXCEPT !.temp = t]
<1>1. pc = "attempt" /\ Typed
  BY DEF Carry, Inv
<1>2. step = "Get" => listed.content \in Contents
  BY <1>1, AttemptStands, ContentsAre DEF DownloadSteps
<1>3. IsReaction(r) /\ r.reply.theirs \in Contents /\ r.reply.mine \in Contents
  <2>1. IsReaction(r)
    BY <1>1, ReactionMoves
  <2> QED BY <2>1 DEF IsReaction, IsReply
<1>4. Altered(r.reply.theirs) \in Contents /\ Altered(r.reply.mine) \in Contents
  BY <1>3, ContentsAre
<1>5. t \in Contents
  BY <1>1, <1>3, <1>4 DEF IsReaction, Written, Typed
<1>6. reply'.answer = r.reply.answer /\ reply'.theirs = r.reply.theirs /\ reply'.mine = Altered(r.reply.mine)
  BY <1>3, <1>4, AlteredReplies DEF IsReaction
<1>7. [r EXCEPT !.temp = IF step = "Get" THEN Written(Altered(r.reply.theirs)) ELSE @] = q
  OBVIOUS
<1>8. Carry(q)
  BY <1>7
<1> HIDE DEF t
<1>9. q.uploads = r.uploads /\ q.stored = r.stored /\ q.temp = t /\ q.effect = r.effect
  BY <1>3 DEF IsReaction
<1> HIDE DEF q
<1>10. Ends /\ Moves /\ effects' \in Nat /\ effects' <= effects + 1 /\ effects' = effects + r.effect /\ tempFile' = t
  <2>1. tempFile' = q.temp
    BY <1>8 DEF Carry
  <2> QED BY <1>5, <1>8, <1>9, <2>1, CarryIs
<1>11. ASSUME step = "Get" PROVE GetMeans'
  <2> SUFFICES ASSUME IsGood', WithCrc'
               PROVE  /\ reply'.theirs \in seen' \/ (listed'.punished /\ reply'.theirs = Notice)
                      /\ reply'.theirs # EmptyFile => tempFile' = reply'.theirs
    BY DEF GetMeans
  <2>1. r.reply.theirs \in Served /\ r.reply.mine = r.reply.theirs
    BY <1>1, <1>2, <1>11, GetReactions
  <2>2. reply'.theirs # NoFile
    BY <1>3, <1>6, PositiveIsFile
  <2>3. Altered(r.reply.theirs) = r.reply.theirs
    BY <1>6, <1>10, <1>11, <2>1, <2>2, CrcIsChecked
  <2>4. /\ r.reply.theirs \in seen \/ (listed.punished /\ r.reply.theirs = Notice)
        /\ r.reply.theirs # EmptyFile => Written(r.reply.theirs) = r.reply.theirs
    BY <1>1, <1>11, <2>1, ServedIs
  <2>5. tempFile' = Written(r.reply.theirs)
    BY <1>10, <1>11, <2>3 DEF t
  <2> QED BY <1>6, <1>10, <2>4, <2>5 DEF Ends, target
<1>12. ASSUME step = "Only" PROVE OnlyMeans'
  <2>1. effects <= doubts /\ r.effect = 1 /\ effects \in Nat /\ doubts \in Nat
    BY <1>1, <1>12, AttemptStands, OnlyReactions DEF Typed
  <2>2. effects' <= doubts' /\ effects' <= doubts' + 1 /\ effects' >= 1
    BY <1>10, <2>1
  <2> QED BY <2>2 DEF OnlyMeans
<1>13. Means'
  BY <1>10, <1>11, <1>12, MeansByStep DEF CreateSteps
<1> QED BY <1>3, <1>6, <1>10, <1>13 DEF IsReaction

LEMMA AlteredKeepsInv == ASSUME Inv, DataAltered PROVE Inv'
<1>1. PICK r \in Reactions :
        /\ (IsTransfer \/ call.op \in DataOperations) /\ r.reply.status = 200 /\ Size(r.reply.theirs) > 0
        /\ IF step = "Put"
           THEN /\ Carry([r EXCEPT !.uploads = Holding(Altered(r.reply.theirs), FALSE)])
                /\ reply' = [r.reply EXCEPT !.theirs = Altered(@)]
           ELSE /\ Carry([r EXCEPT !.temp = IF step = "Get" THEN Written(Altered(r.reply.theirs)) ELSE @])
                /\ reply' = [r.reply EXCEPT !.mine = Altered(@)]
  BY DEF DataAltered
<1>2. doubts' = doubts + 1 /\ UNCHANGED <<enabled, misread>> /\ pc = "attempt"
  BY <1>1 DEF DataAltered, Carry
<1>3. step \in {"Put", "Get", "Only"}
  <2>1. "Upload" \notin DataOperations /\ "Download" \notin DataOperations
    BY DEF DataOperations
  <2> QED BY <1>1, <1>2, <2>1, AttemptStands DEF IsTransfer
<1>4. Ends /\ Moves /\ Means' /\ effects' \in Nat /\ reply'.answer.readable = TRUE
  <2>1. CASE step = "Put"
    BY <1>1, <2>1, PutAltered
  <2>2. CASE step \in {"Get", "Only"}
    <3>1. /\ Carry([r EXCEPT !.temp = IF step = "Get" THEN Written(Altered(r.reply.theirs)) ELSE @])
          /\ reply' = [r.reply EXCEPT !.mine = Altered(@)] /\ Size(r.reply.theirs) > 0
      BY <1>1, <2>2
    <3> QED BY <1>2, <2>2, <3>1, GetAltered
  <2> QED BY <1>3, <2>1, <2>2
<1>5. doubts' \in Nat
  BY <1>2, TypesOfGhosts
<1> QED BY <1>2, <1>4, <1>5, TypesOfGhosts, EndsKeepsInv

LEMMA CutKeepsInv == ASSUME Inv, DataCut PROVE Inv'
<1>1. PICK r \in Reactions :
        /\ step = "Get" /\ Size(r.reply.theirs) > 0
        /\ \E t \in {Cut(r.reply.theirs), EmptyFile} : Carry([r EXCEPT !.temp = t])
        /\ reply' = Broken(18) \/ reply' = Broken(23)
  BY DEF DataCut
<1>2. UNCHANGED <<enabled, doubts, misread>> /\ pc = "attempt"
  BY <1>1 DEF DataCut, Carry
<1>3. PICK t \in {Cut(r.reply.theirs), EmptyFile} : Carry([r EXCEPT !.temp = t])
  BY <1>1
<1>4. IsReaction(r) /\ r.reply.theirs \in Contents
  <2>1. IsReaction(r)
    BY <1>2, ReactionMoves
  <2> QED BY <2>1 DEF IsReaction, IsReply
<1>5. t \in Contents
  BY <1>1, <1>3, <1>4, ContentsAre
<1> DEFINE q == [r EXCEPT !.temp = t]
<1>6. q.uploads = r.uploads /\ q.stored = r.stored /\ q.temp = t /\ q.effect = r.effect
  BY <1>4 DEF IsReaction
<1>7. Carry(q)
  BY <1>3
<1> HIDE DEF q
<1>8. Ends /\ Moves /\ effects' \in Nat
  BY <1>5, <1>6, <1>7, CarryIs
<1>9. Fails(reply')
  BY <1>1, BrokenIs
<1>10. doubts' \in Nat
  BY <1>2, TypesOfGhosts
<1>11. Means'
  BY <1>1, <1>8, <1>9, <1>10, FailsAreBad, BadMeans
<1> QED BY <1>2, <1>8, <1>9, <1>10, <1>11, TypesOfGhosts, EndsKeepsInv DEF Fails

LEMMA AttemptKeepsInv == Inv /\ Attempt => Inv'
BY QuietAttempt, AnsweredKeepsInv, LostKeepsInv, GarbledKeepsInv, AlteredKeepsInv, CutKeepsInv DEF Attempt

-----------------------------------------------------------------------------
(* After an attempt: trying again, or giving back what it came to.         *)

(* A status that is tried again is not that of a request that was carried out. *)
LEMMA RetriedIsBad ==
    ASSUME HasResponseError(reply), NEW code, ShouldRetry(StatusOf(reply), code, attempt)
    PROVE  ~IsGood /\ reply.status # 203 /\ attempt < MaxRetries
<1>1. StatusOf(reply) = reply.status \/ StatusOf(reply) = 100001
  BY DEF StatusOf, CrcInconsistent
<1>2. ASSUME NEW status \in {203, 100001} PROVE ~ShouldRetry(status, code, attempt)
  BY <1>2 DEF ShouldRetry, CurlRetried, CurlBase
<1>3. attempt < MaxRetries
  BY DEF ShouldRetry
<1> QED BY <1>1, <1>2, <1>3 DEF IsGood

LEMMA DecideKeepsInv == ASSUME Inv, Decide PROVE Inv'
<1>1. /\ pc = "decide" /\ pc' \in {"waiting", "returned"}
      /\ pc' = "waiting" => HasResponseError(reply) /\ ShouldRetry(StatusOf(reply), ClientErrorCode(StatusOf(reply)), attempt)
  BY DEF Decide
<1>2. UNCHANGED <<files, switch, service, request, target, result, ghosts>>
  BY DEF Decide
<1> USE DEF Inv, files, switch, service, request, target, ghosts
<1>3. pc' = "waiting" => ~IsGood /\ reply.status # 203 /\ attempt < MaxRetries
  BY <1>1, RetriedIsBad
<1>4. Typed'
  BY <1>1, <1>2, <1>3 DEF Typed
<1>5. Stages' /\ Sources'
  BY <1>1, <1>2 DEF Stages, Sources, Running, Readable
<1>6. IsGood' = IsGood
  BY <1>2 DEF IsGood, HasResponseError, CrcDiffers, IsCallback
<1>7. Accounts'
  BY <1>1, <1>2, <1>3, <1>6 DEF Accounts, Running, Replied
<1>8. Creating'
  BY <1>1, <1>2, <1>6 DEF Creating, Running, Replied, Readable, Fresh, UploadUrl
<1>9. Putting' /\ Completing'
  BY <1>1, <1>2, <1>6 DEF Putting, Completing, Running, Replied, Readable, WithCrc
<1>10. Listings'
  BY <1>1, <1>2, <1>6 DEF Listings, Replied, Readable
<1>11. Getting'
  BY <1>1, <1>2, <1>3, <1>6 DEF Getting, Running, WithCrc
<1>12. OkMeansStored' /\ FailureMeansDoubt' /\ ResultIsRead'
  BY <1>1 DEF OkMeansStored, FailureMeansDoubt, ResultIsRead
<1> QED BY <1>4, <1>5, <1>7, <1>8, <1>9, <1>10, <1>11, <1>12

LEMMA WaitForRetryKeepsInv == ASSUME Inv, WaitForRetry PROVE Inv'
<1>1. pc = "waiting" /\ pc' = "attempt" /\ attempt' = attempt + 1
  BY DEF WaitForRetry
<1>2. UNCHANGED <<files, switch, service, step, message, reply, target, result, ghosts>>
  BY DEF WaitForRetry
<1> USE DEF Inv, files, switch, service, target, ghosts
<1>3. attempt' \in 0 .. MaxRetries
  BY <1>1, BoundsAssumption DEF Typed
<1>4. Typed'
  BY <1>1, <1>2, <1>3 DEF Typed
<1>5. Stages' /\ Sources'
  BY <1>1, <1>2 DEF Stages, Sources, Running, Readable
<1>6. Accounts'
  BY <1>1, <1>2 DEF Accounts, Running, Replied
<1>7. Creating'
  BY <1>1, <1>2 DEF Creating, Running, Replied
<1>8. Putting' /\ Completing'
  BY <1>1, <1>2 DEF Putting, Completing, Running, Replied, WithCrc
<1>9. Listings' /\ Getting'
  BY <1>1, <1>2 DEF Listings, Getting, Replied, Running
<1>10. OkMeansStored' /\ FailureMeansDoubt' /\ ResultIsRead'
  BY <1>1 DEF OkMeansStored, FailureMeansDoubt, ResultIsRead
<1> QED BY <1>4, <1>5, <1>6, <1>7, <1>8, <1>9, <1>10

-----------------------------------------------------------------------------
(* Beginning and ending requests and calls.                                *)

LEMMA IdleKeepsInv ==
    ASSUME Typed', pc' = "idle", OkMeansStored', FailureMeansDoubt', ResultIsRead'
    PROVE  Inv'
<1>1. Stages' /\ Sources' /\ Accounts' /\ Creating'
  BY DEF Stages, Sources, Accounts, Creating, Running, Replied
<1>2. Putting' /\ Completing' /\ Listings' /\ Getting'
  BY DEF Putting, Completing, Listings, Getting, Running, Replied
<1> QED BY <1>1, <1>2 DEF Inv

LEMMA FailedKeepsInv ==
    ASSUME Typed', pc' = "idle", ~result'.ok, step' # "Only" \/ result'.code = "not returned"
    PROVE  Inv'
<1>1. OkMeansStored' /\ FailureMeansDoubt' /\ ResultIsRead'
  BY DEF OkMeansStored, FailureMeansDoubt, ResultIsRead
<1> QED BY <1>1, IdleKeepsInv

(* What must hold of a request that begins. *)
Ready ==
    /\ step \in {"Only"} \cup UploadSteps \cup DownloadSteps
    /\ step = "Only" => call \in Operations /\ effects = 0
    /\ step \in DownloadSteps => call.op = "Download"
    /\ step \in UploadSteps => call.op = "Upload"
    /\ call.op = "Upload" => source \in seen
    /\ call.op = "Download" => remote \in seen /\ seen \subseteq Versions
    /\ step \in {"Put", "Get"} => \A h \in message.headers : h[1] # "Range"
    /\ step = "Rapid" => hashed \in seen
    /\ step = "Put" => upload \in DOMAIN uploads /\ ~uploads[upload].done
    /\ step = "Complete" => /\ upload \in DOMAIN uploads
                            /\ WithCrc => uploads[upload].data \in seen \cup mixed
                            /\ uploads[upload].done => stored = uploads[upload].data
    /\ step = "Get" => listed.content \in seen

LEMMA BegunKeepsInv ==
    ASSUME Typed', pc' \in {"attempt", "returned"}, ~IsGood', Readable', Ready'
    PROVE  Inv'
<1>1. Stages' /\ Sources'
  BY DEF Stages, Sources, Running, Ready, UploadSteps, CreateSteps, DownloadSteps
<1>2. effects' = 0 => effects' <= doubts' /\ effects' <= doubts' + 1
  <2>1. doubts' \in Nat
    BY DEF Typed
  <2>2. \A n \in Nat : 0 <= n /\ 0 <= n + 1
    OBVIOUS
  <2> QED BY <2>1, <2>2
<1>3. Accounts'
  BY <1>2 DEF Accounts, Replied, Ready
<1>4. Creating'
  BY DEF Creating, Ready
<1>5. Putting' /\ Completing'
  BY DEF Putting, Completing, Ready
<1>6. Listings' /\ Getting'
  BY DEF Listings, Getting, Ready
<1>7. OkMeansStored' /\ FailureMeansDoubt' /\ ResultIsRead'
  BY DEF OkMeansStored, FailureMeansDoubt, ResultIsRead
<1> QED BY <1>1, <1>3, <1>4, <1>5, <1>6, <1>7 DEF Inv

LEMMA BeginIs ==
    ASSUME NEW c, NEW s, NEW m, NEW isData, NEW isPut, Begin(c, s, m, isData, isPut)
    PROVE  /\ step' = s /\ attempt' = 0 /\ pc' \in {"attempt", "returned"}
           /\ message'.headers = AllHeaders(m.headers, isData) /\ message' = BuildHttpRequest(c, m, isData)
           /\ ~IsGood' /\ Readable'
<1>1. step' = s /\ attempt' = 0 /\ pc' \in {"attempt", "returned"}
  BY DEF Begin
<1>2. message' = BuildHttpRequest(c, m, isData)
  BY DEF Begin
<1>3. BuildHttpRequest(c, m, isData).headers = AllHeaders(m.headers, isData)
  BY DEF BuildHttpRequest
<1>4. reply' = NoReply \/ reply' = [NoReply EXCEPT !.code = "ValidateError"]
  BY DEF Begin
<1>5. NoReply.status = 0 /\ NoReply.answer = Answer(NoFields)
  BY NoReplyIs DEF Answers
<1>6. [NoReply EXCEPT !.code = "ValidateError"].status = 0 /\ [NoReply EXCEPT !.code = "ValidateError"].answer = NoReply.answer
  BY NoReplyIs DEF IsReply, Answers
<1>7. reply'.status = 0 /\ reply'.answer = Answer(NoFields)
  BY <1>4, <1>5, <1>6
<1> QED BY <1>1, <1>2, <1>3, <1>7, AnswerIs DEF IsGood, Readable

LEMMA AddedHeaders ==
    ASSUME NEW headers, NEW isData, NEW h \in AllHeaders(headers, isData)
    PROVE  h \in headers \/ h[1] \in {"User-Agent", "Authorization", "Content-Type", "Content-Length"}
BY DEF AllHeaders, Overwritten, Completed

LEMMA KeyOfGiven ==
    ASSUME NEW key, NEW value
    PROVE  (\A h \in Given(key, value) : h[1] = key) /\ (\A h \in Always(key, value) : h[1] = key)
<1>1. \A h \in Always(key, value) : h[1] = key
  BY DEF Always
<1>2. Given(key, value) = {} \/ Given(key, value) = Always(key, value)
  BY DEF Given, NoPairs
<1> QED BY <1>1, <1>2

LEMMA PutHasNoRange ==
    ASSUME NEW o, NEW h \in AllHeaders(DataPutByUrlRequest(o).headers, TRUE)
    PROVE  h[1] # "Range"
<1>1. DataPutByUrlRequest(o).headers =
          Always("Content-Type", "") \cup Given("Content-Length", o.contentLength)
            \cup Given("x-oss-traffic-limit", o.trafficLimit) \cup Given("User-Agent", o.userAgent)
  BY DEF DataPutByUrlRequest, Message
<1>2. h \in DataPutByUrlRequest(o).headers => h[1] \in {"Content-Type", "Content-Length", "x-oss-traffic-limit", "User-Agent"}
  BY <1>1, KeyOfGiven
<1> QED BY <1>2, AddedHeaders

LEMMA GetHasNoRange ==
    ASSUME NEW o, NEW h \in AllHeaders(DataGetByUrlRequest(o, <<>>).headers, TRUE)
    PROVE  h[1] # "Range"
<1>1. DataGetByUrlRequest(o, <<>>).headers =
          RangeHeader(<<>>) \cup Given("x-oss-traffic-limit", o.trafficLimit) \cup Given("User-Agent", o.userAgent)
  BY DEF DataGetByUrlRequest, Message
<1>2. RangeHeader(<<>>) = {}
  BY DEF RangeHeader, Given, NoPairs
<1>3. h \in DataGetByUrlRequest(o, <<>>).headers => h[1] \in {"x-oss-traffic-limit", "User-Agent"}
  BY <1>1, <1>2, KeyOfGiven
<1> QED BY <1>3, AddedHeaders

-----------------------------------------------------------------------------
(* Calls begin.                                                            *)

LEMMA StartIs ==
    ASSUME Inv, NEW c, NEW contents, Start(c, contents)
    PROVE  /\ call' = c /\ seen' = contents /\ mixed' = {} /\ effects' = 0 /\ doubts' = 0 /\ control' = "go" /\ misread' = FALSE
           /\ hashed' \in Contents /\ upload' \in 0 .. Len(uploads') /\ effects' \in Nat /\ doubts' \in Nat
           /\ UNCHANGED <<dest, configuration, enabled, uploads, stored>>
<1>1. Len(uploads) \in Nat
  BY DEF Inv, Typed
<1>2. hashed' = NoFile /\ upload' = 0 /\ uploads' = uploads
  BY DEF Start
<1> QED BY <1>1, <1>2, ContentsAre DEF Start

(* The types of a call that has just begun. *)
LEMMA StartTyped ==
    ASSUME Inv, NEW c, NEW contents, Start(c, contents),
           {source', remote'} \subseteq Versions \cup {NoFile}, tempFile' \in Contents, fileSize' \in Nat,
           attempt' \in 0 .. MaxRetries, pc' # "waiting", result'.ok = FALSE, result'.sure = TRUE
    PROVE  Typed'
<1>1. /\ hashed' \in Contents /\ upload' \in 0 .. Len(uploads') /\ effects' \in Nat /\ doubts' \in Nat /\ misread' = FALSE
      /\ UNCHANGED <<dest, configuration, enabled, uploads, stored>> /\ control' = "go"
  BY StartIs
<1>0. mixed' = {}
  BY StartIs
<1>2. /\ {dest, stored} \subseteq Contents /\ configuration \in Configurations /\ enabled \in BOOLEAN
      /\ uploads \in Seq([data : Contents, done : BOOLEAN])
  BY DEF Inv, Typed
<1> QED BY <1>0, <1>1, <1>2 DEF Typed

LEMMA FailureIs ==
    ASSUME NEW code
    PROVE  Failure(code).ok = FALSE /\ Failure(code).sure = TRUE /\ NotReturned.ok = FALSE /\ NotReturned.sure = TRUE
           /\ NotReturned.code = "not returned"
BY DEF Failure, NotReturned

LEMMA CallOperationKeepsInv == ASSUME Inv, CallOperation PROVE Inv'
<1>1. PICK c \in Operations :
        /\ Start(c, {}) /\ \E m \in Requests(call') : Begin(c, "Only", m, c.op \in DataOperations, c.op = "DataPutByUrl")
        /\ fileSize' = 0 /\ result' = NotReturned /\ UNCHANGED <<source, tempFile, remote>>
  BY DEF CallOperation
<1>2. PICK m : Begin(c, "Only", m, c.op \in DataOperations, c.op = "DataPutByUrl")
  BY <1>1
<1>3. step' = "Only" /\ attempt' = 0 /\ pc' \in {"attempt", "returned"} /\ ~IsGood' /\ Readable'
  BY <1>2, BeginIs
<1>4. 0 \in 0 .. MaxRetries
  BY BoundsAssumption
<1>5. {source, remote} \subseteq Versions \cup {NoFile} /\ tempFile \in Contents
  BY DEF Inv, Typed
<1>6. Typed'
  BY <1>1, <1>3, <1>4, <1>5, StartTyped, FailureIs
<1>7. call' = c /\ effects' = 0
  BY <1>1, StartIs
<1>8. c.op # "Upload" /\ c.op # "Download"
  BY OperationsAssumption DEF DirOperations, FileOperations, DataOperations, OtherOperations
<1>9. Ready'
  BY <1>3, <1>7, <1>8 DEF Ready, UploadSteps, CreateSteps, DownloadSteps
<1> QED BY <1>3, <1>6, <1>9, BegunKeepsInv

LEMMA MakeUploadRequestKeepsInv == ASSUME Inv, MakeUploadRequest PROVE Inv'
<1>1. PICK o \in Uploads, v \in Versions \cup {NoFile} :
        /\ Start([op |-> "Upload", options |-> o], {v})
        /\ source' = v /\ fileSize' = Size(v)
        /\ pc' = "validate" /\ step' = (IF v = NoFile THEN "no file" ELSE "file") /\ message' = NoMessage
        /\ attempt' = 0 /\ reply' = NoReply /\ result' = NotReturned /\ UNCHANGED <<tempFile, remote>>
  BY DEF MakeUploadRequest
<1>2. v \in Versions \cup {NoFile}
  BY <1>1
<1>3. 0 \in 0 .. MaxRetries
  BY BoundsAssumption
<1>4. Size(v) \in Nat
  BY <1>2, ContentsAre
<1>5. remote \in Versions \cup {NoFile} /\ tempFile \in Contents
  BY DEF Inv, Typed
<1>6. Typed'
  <2>1. result'.ok = FALSE /\ result'.sure = TRUE
    BY <1>1, FailureIs
  <2>2. {source', remote'} \subseteq Versions \cup {NoFile} /\ tempFile' \in Contents /\ fileSize' \in Nat
    BY <1>1, <1>2, <1>4, <1>5
  <2>3. attempt' \in 0 .. MaxRetries /\ pc' # "waiting"
    BY <1>1, <1>3
  <2> QED BY <1>1, <2>1, <2>2, <2>3, StartTyped
<1>7. call'.op = "Upload" /\ seen' = {v}
  <2> DEFINE c == [op |-> "Upload", options |-> o]
  <2>1. c.op = "Upload"
    OBVIOUS
  <2>2. Start(c, {v})
    BY <1>1
  <2> HIDE DEF c
  <2>3. call' = c /\ seen' = {v}
    BY <2>2, StartIs
  <2> QED BY <2>1, <2>3
<1>8. Readable'
  BY <1>1, NoReplyIs, AnswerIs DEF Readable, Answers
<1>9. step' \in {"no file", "file"}
  BY <1>1
<1>10. Stages' /\ Sources'
  BY <1>1, <1>7, <1>8, <1>9 DEF Stages, Sources, UploadSteps, CreateSteps, DownloadSteps, Readable
<1>11. Accounts' /\ Creating' /\ Putting' /\ Completing' /\ Listings' /\ Getting'
  BY <1>9 DEF Accounts, Creating, CreateSteps, Putting, Completing, Listings, Getting
<1>12. OkMeansStored' /\ FailureMeansDoubt' /\ ResultIsRead'
  BY <1>1 DEF OkMeansStored, FailureMeansDoubt, ResultIsRead
<1> QED BY <1>6, <1>10, <1>11, <1>12 DEF Inv

LEMMA DownloadKeepsInv == ASSUME Inv, ResumableFileDownload PROVE Inv'
<1>1. PICK o \in Downloads, v \in Versions, left \in Versions \cup {tempFile} :
        /\ Start([op |-> "Download", options |-> o], {v}) /\ remote' = v /\ fileSize' = 0
        /\ IF ~DownloadRequestIsValid(o)
           THEN Fail("ValidateError") /\ tempFile' = left
           ELSE /\ Begin(call', "GetUrl",
                         FileGetDownloadUrlRequest([driveID |-> o.driveID, shareID |-> o.shareID, fileID |-> o.fileID,
                                                    urlExpireSec |-> "", shareToken |-> o.shareToken]), FALSE, FALSE)
                /\ tempFile' = IF left = NoFile THEN EmptyFile ELSE left
                /\ result' = NotReturned
        /\ UNCHANGED source
  BY DEF ResumableFileDownload
<1>2. v \in Versions /\ left \in Versions \cup {tempFile}
  BY <1>1
<1>3. source \in Versions \cup {NoFile} /\ left \in Contents /\ EmptyFile \in Contents
  BY <1>2, ContentsAre DEF Inv, Typed
<1>4. 0 \in 0 .. MaxRetries
  BY BoundsAssumption
<1>5. call'.op = "Download" /\ seen' = {v} /\ effects' = 0 /\ doubts' = 0
  <2> DEFINE c == [op |-> "Download", options |-> o]
  <2>1. c.op = "Download"
    OBVIOUS
  <2>2. Start(c, {v})
    BY <1>1
  <2> HIDE DEF c
  <2>3. call' = c /\ seen' = {v} /\ effects' = 0 /\ doubts' = 0
    BY <2>2, StartIs
  <2> QED BY <2>1, <2>3
<1>6. CASE Fail("ValidateError") /\ tempFile' = left
  <2>1. pc' = "idle" /\ result' = Failure("ValidateError") /\ attempt' = attempt
    BY <1>6 DEF Fail, Return, request
  <2>2. attempt \in 0 .. MaxRetries
    BY DEF Inv, Typed
  <2>3. result'.ok = FALSE /\ result'.sure = TRUE
    BY <2>1, FailureIs
  <2>4. Typed'
    <3>1. {source', remote'} \subseteq Versions \cup {NoFile} /\ tempFile' \in Contents /\ fileSize' \in Nat
      BY <1>1, <1>2, <1>3, <1>6
    <3>2. attempt' \in 0 .. MaxRetries /\ pc' # "waiting"
      BY <2>1, <2>2
    <3> QED BY <1>1, <2>3, <3>1, <3>2, StartTyped
  <2>5. OkMeansStored' /\ ResultIsRead'
    BY <2>3 DEF OkMeansStored, ResultIsRead
  <2>6. FailureMeansDoubt'
    <3>1. effects' <= doubts' /\ effects' <= doubts' + 1
      BY <1>5
    <3> QED BY <2>3, <3>1 DEF FailureMeansDoubt
  <2> QED BY <2>1, <2>4, <2>5, <2>6, IdleKeepsInv
<1>7. CASE /\ \E m : Begin(call', "GetUrl", m, FALSE, FALSE)
           /\ tempFile' = IF left = NoFile THEN EmptyFile ELSE left
           /\ result' = NotReturned
  <2>1. step' = "GetUrl" /\ attempt' = 0 /\ pc' \in {"attempt", "returned"} /\ ~IsGood' /\ Readable'
    BY <1>7, BeginIs
  <2>2. Typed'
    <3>1. {source', remote'} \subseteq Versions \cup {NoFile} /\ tempFile' \in Contents /\ fileSize' \in Nat
      BY <1>1, <1>2, <1>3, <1>7
    <3>2. attempt' \in 0 .. MaxRetries /\ pc' # "waiting"
      BY <1>4, <2>1
    <3>3. result'.ok = FALSE /\ result'.sure = TRUE
      BY <1>7, FailureIs
    <3> QED BY <1>1, <3>1, <3>2, <3>3, StartTyped
  <2>3. Ready'
    BY <1>1, <1>2, <1>5, <2>1 DEF Ready, DownloadSteps, UploadSteps, CreateSteps
  <2> QED BY <2>1, <2>2, <2>3, BegunKeepsInv
<1> QED BY <1>1, <1>6, <1>7

-----------------------------------------------------------------------------
(* What everybody else does.                                               *)

(* What the invariant says does not depend on the switches, and less than everything on the files. *)
LEMMA OthersKeepInv ==
    ASSUME Inv, Typed', UNCHANGED <<configuration, uploads, stored, tempFile, pc, step, message, reply, call, fileSize, listed,
                                    hashed, upload, result, effects, doubts, misread>>,
           seen \subseteq seen', mixed \subseteq mixed', Running' => Sources', ~Running => seen' = seen /\ mixed' = mixed
    PROVE  Inv'
<1> USE DEF Inv
<1>1. Stages'
  BY DEF Stages, Running
<1>2. Sources'
  BY DEF Sources, Running
<1>3. IsGood' = IsGood
  BY DEF IsGood, HasResponseError, CrcDiffers, IsCallback
<1>4. Accounts'
  BY <1>3 DEF Accounts, Running, Replied
<1>5. Creating'
  BY <1>3 DEF Creating, Running, Replied, Readable, Fresh, UploadUrl
<1>6. Putting' /\ Completing'
  BY <1>3 DEF Putting, Completing, Running, Replied, Readable, WithCrc
<1>7. Listings' /\ Getting'
  BY <1>3 DEF Listings, Getting, Running, Replied, Readable, WithCrc
<1>8. OkMeansStored'
  BY DEF OkMeansStored, Running
<1>9. FailureMeansDoubt' /\ ResultIsRead'
  BY DEF FailureMeansDoubt, ResultIsRead
<1> QED BY <1>1, <1>2, <1>4, <1>5, <1>6, <1>7, <1>8, <1>9

LEMMA SwitchesKeepInv == ASSUME Inv, DisableRequest \/ EnableRequest \/ AskToQuit PROVE Inv'
<1>1. /\ UNCHANGED <<files, configuration, service, pc, request, target, result, ghosts>>
      /\ enabled' \in BOOLEAN /\ control' \in {"go", "stop", "cancel"}
  BY DEF Inv, Typed, DisableRequest, EnableRequest, AskToQuit
<1> USE DEF files, service, request, target, ghosts
<1>2. Typed'
  BY <1>1 DEF Inv, Typed
<1>3. Sources'
  BY <1>1 DEF Inv, Sources, Running, Readable
<1> QED BY <1>1, <1>2, <1>3, OthersKeepInv

LEMMA EditsKeepInv == ASSUME Inv, Edit \/ Modify PROVE Inv'
<1>1. /\ pc # "idle"
      /\ UNCHANGED <<tempFile, dest, switch, uploads, stored, pc, request, target, result, effects, doubts, misread>>
      /\ \/ call.op = "Upload" /\ remote' = remote /\ \E v \in Versions : source' = v /\ seen' = seen \cup {v}
         \/ call.op = "Download" /\ source' = source /\ \E v \in Versions : remote' = v /\ seen' = seen \cup {v}
      /\ mixed' = mixed \/ mixed' = mixed \cup {} \/ mixed' = mixed \cup {Mixture(Size(source))}
  BY DEF Edit, Modify, service, files
<1> USE DEF switch, request, target
<1>2. {source', remote'} \subseteq Versions \cup {NoFile}
  BY <1>1 DEF Inv, Typed
<1>3. Mixture(Size(source)) \in Nat \X Nat
  <2>1. attempt \in Nat /\ source \in Contents
    BY BoundsAssumption, ContentsAre DEF Inv, Typed
  <2> QED BY <2>1, ContentsAre DEF Mixture
<1>4. mixed' \subseteq Nat \X Nat /\ mixed \subseteq mixed'
  BY <1>1, <1>3 DEF Inv, Typed
<1>5. Typed'
  BY <1>1, <1>2, <1>4 DEF Inv, Typed
<1>6. Sources'
  BY <1>1 DEF Inv, Sources, Running, Readable
<1>7. seen \subseteq seen'
  BY <1>1
<1> QED BY <1>1, <1>4, <1>5, <1>6, <1>7, OthersKeepInv DEF Running

LEMMA CrashKeepsInv == ASSUME Inv, Crash PROVE Inv'
<1>1. /\ pc' = "idle" /\ result' = NotReturned /\ enabled' = TRUE
      /\ UNCHANGED <<files, configuration, control, service, request, target, ghosts>>
  BY DEF Crash, Return
<1>2. result'.ok = FALSE /\ result'.sure = TRUE /\ result'.code = "not returned"
  BY <1>1, FailureIs
<1>3. Typed'
  BY <1>1, <1>2 DEF Inv, Typed, files, service, request, target, ghosts
<1> QED BY <1>1, <1>2, <1>3, FailedKeepsInv

LEMMA StutterKeepsInv == ASSUME Inv, UNCHANGED vars PROVE Inv'
<1>1. UNCHANGED <<files, switch, service, pc, request, target, result, ghosts>>
  BY DEF vars
<1> USE DEF files, switch, service, request, target, ghosts
<1>2. Typed'
  BY <1>1 DEF Inv, Typed
<1>3. Sources'
  BY <1>1 DEF Inv, Sources, Running, Readable
<1> QED BY <1>1, <1>2, <1>3, OthersKeepInv

-----------------------------------------------------------------------------
(* Results, as read from an answer.                                        *)

LEMMA WithIs ==
    ASSUME NEW r, NEW key, NEW value
    PROVE  /\ With(r, key, value)[key] = value
           /\ \A k \in DOMAIN r : k # key => With(r, key, value)[k] = r[k]
BY DEF With

LEMMA ResultIs ==
    ASSUME NEW a, NEW texts, NEW numbers, NEW flags, NEW r \in Result(a, texts, numbers, flags)
    PROVE  /\ a.readable => r = Read(a.fields, texts, numbers, flags)
           /\ ~a.readable => r \in Unread(texts, numbers, flags)
BY DEF Result

LEMMA ListOfNone ==
    ASSUME NEW fields, "part_info_list" \notin DOMAIN fields \/ fields["part_info_list"] = <<>>
    PROVE  List(fields, "part_info_list", PartInfoResp) = <<>>
<1>1. Value(fields, "part_info_list", <<>>) = <<>>
  BY DEF Value
<1>2. [i \in DOMAIN <<>> |-> PartInfoResp(<<>>[i])] = <<>>
  OBVIOUS
<1> QED BY <1>1, <1>2 DEF List

LEMMA ListOfOne ==
    ASSUME NEW fields, NEW n, "part_info_list" \in DOMAIN fields, fields["part_info_list"] = <<UploadUrl(n)>>
    PROVE  List(fields, "part_info_list", PartInfoResp)[1]["upload_url"] = n
<1> DEFINE u == UploadUrl(n)
<1>1. "upload_url" \in DOMAIN u /\ u["upload_url"] = n
  BY DEF UploadUrl
<1> HIDE DEF u
<1>2. Value(fields, "part_info_list", <<>>) = <<u>>
  BY DEF Value, u
<1>3. List(fields, "part_info_list", PartInfoResp)[1] = PartInfoResp(u)
  BY <1>2 DEF List
<1>4. PartInfoResp(u)["upload_url"] = n
  BY <1>1 DEF PartInfoResp, Read, Value
<1> QED BY <1>3, <1>4

LEMMA CreateResultIs ==
    ASSUME NEW a, NEW created \in FileCreateResult(a)
    PROVE  /\ created["part_info_list"] = List(a.fields, "part_info_list", PartInfoResp)
           /\ (a.readable = TRUE /\ created["rapid_upload"]) => "rapid_upload" \in DOMAIN a.fields
<1> DEFINE texts == {"drive_id", "file_id", "file_name", "parent_file_id", "type", "upload_id"}
           flags == {"rapid_upload", "exist"}
           list  == List(a.fields, "part_info_list", PartInfoResp)
<1>1. PICK r \in Result(a, texts, {}, flags) : created = With(r, "part_info_list", list)
  BY DEF FileCreateResult, ResultWithList
<1>2. created["part_info_list"] = list
  BY <1>1, WithIs
<1>3. ASSUME a.readable = TRUE, "rapid_upload" \notin DOMAIN a.fields PROVE ~created["rapid_upload"]
  <2>1. r = Read(a.fields, texts, {}, flags)
    BY <1>1, <1>3, ResultIs
  <2>2. /\ "rapid_upload" \in texts \cup {} \cup flags /\ "rapid_upload" \in flags \ (texts \cup {})
        /\ "rapid_upload" # "part_info_list"
    OBVIOUS
  <2> HIDE DEF texts, flags, list
  <2>3. "rapid_upload" \in DOMAIN r /\ r["rapid_upload"] = FALSE
    <3>1. DOMAIN r = texts \cup {} \cup flags
      BY <2>1 DEF Read
    <3>2. r["rapid_upload"] = FALSE
      BY <1>3, <2>1, <2>2 DEF Read, Value
    <3> QED BY <2>2, <3>1, <3>2
  <2>4. created["rapid_upload"] = r["rapid_upload"]
    BY <1>1, <2>2, <2>3, WithIs
  <2> QED BY <2>3, <2>4
<1> QED BY <1>2, <1>3

-----------------------------------------------------------------------------
(* A request of an upload has returned.                                    *)

(* The types, when a request gives way to the next or to the end of the call. *)
LEMMA GoesOnTyped ==
    ASSUME Inv, UNCHANGED <<source, remote, configuration, enabled, control, uploads, stored, mixed, effects, doubts, misread>>,
           tempFile' \in Contents, dest' \in Contents, hashed' \in Contents, upload' \in 0 .. Len(uploads),
           attempt' \in 0 .. MaxRetries, pc' # "waiting", fileSize' \in Nat, result'.ok \in BOOLEAN, result'.sure \in BOOLEAN
    PROVE  Typed'
BY DEF Inv, Typed

LEMMA FailIs ==
    ASSUME NEW code, Fail(code)
    PROVE  pc' = "idle" /\ result'.ok = FALSE /\ result'.sure = TRUE /\ UNCHANGED <<step, message, attempt, reply>>
BY FailureIs DEF Fail, Return, request

LEMMA SendIs ==
    ASSUME Inv, NEW s, NEW m, Send(s, m)
    PROVE  /\ step' = s /\ attempt' \in 0 .. MaxRetries /\ pc' \in {"attempt", "returned"} /\ ~IsGood' /\ Readable'
           /\ message'.headers = AllHeaders(m.headers, s \in {"Put", "Get"})
           /\ result' = result /\ result'.ok \in BOOLEAN /\ result'.sure \in BOOLEAN
<1>1. Begin(call, s, m, s \in {"Put", "Get"}, s = "Put") /\ result' = result
  BY DEF Send
<1>2. 0 \in 0 .. MaxRetries
  BY BoundsAssumption
<1>3. result.ok \in BOOLEAN /\ result.sure \in BOOLEAN
  BY DEF Inv, Typed
<1> QED BY <1>1, <1>2, <1>3, BeginIs

(* The variables that the handling of an answer never touches. *)
Kept ==
    UNCHANGED <<source, dest, configuration, enabled, control, remote, uploads, stored, call, seen, mixed, effects, doubts, misread>>

LEMMA TypesOfTarget == Inv => /\ tempFile \in Contents /\ dest \in Contents /\ hashed \in Contents /\ upload \in 0 .. Len(uploads)
                              /\ attempt \in 0 .. MaxRetries /\ fileSize \in Nat
BY DEF Inv, Typed

LEMMA FailStepKeepsInv ==
    ASSUME Inv, Kept, tempFile' \in Contents, NEW code, Fail(code), step # "Only",
           hashed' \in Contents, upload' \in 0 .. Len(uploads), fileSize' \in Nat
    PROVE  Inv'
<1>1. pc' = "idle" /\ result'.ok = FALSE /\ result'.sure = TRUE /\ step' = step /\ attempt' = attempt
  BY FailIs
<1>2. Typed'
  BY <1>1, TypesOfTarget, GoesOnTyped DEF Kept
<1> QED BY <1>1, <1>2, FailedKeepsInv

(* Where a call stands when its request has returned. *)
LEMMA ReturnStands ==
    ASSUME Inv, pc # "idle"
    PROVE  /\ step \in UploadSteps \cup {"no file", "file"} => call.op = "Upload" /\ source \in seen
           /\ step \in DownloadSteps => call.op = "Download" /\ remote \in seen /\ seen \subseteq Versions
           /\ Readable \/ (misread /\ reply.answer = Unreadable)
           /\ DOMAIN uploads = 1 .. Len(uploads) /\ Len(uploads) \in Nat
<1>1. /\ step \in UploadSteps \cup {"no file", "file"} => call.op = "Upload"
      /\ step \in DownloadSteps => call.op = "Download"
  BY DEF Inv, Stages, Running
<1>2. /\ call.op = "Upload" => source \in seen
      /\ call.op = "Download" => remote \in seen /\ seen \subseteq Versions
      /\ Readable \/ (misread /\ reply.answer = Unreadable)
  BY DEF Inv, Sources, Running
<1>3. DOMAIN uploads = 1 .. Len(uploads) /\ Len(uploads) \in Nat
  BY DEF Inv, Typed
<1> QED BY <1>1, <1>2, <1>3

LEMMA UploadDataKeepsInv ==
    ASSUME Inv, pc = "returned", step \in CreateSteps, IsGood, NEW created \in FileCreateResult(reply.answer),
           UploadData(created), Kept, UNCHANGED <<tempFile, fileSize, listed, hashed>>
    PROVE  Inv'
<1> DEFINE list == List(reply.answer.fields, "part_info_list", PartInfoResp)
<1>0. created["part_info_list"] = list
  BY CreateResultIs
<1> HIDE DEF list
<1>1. CASE (\E code : Fail(code)) /\ upload' = upload
  <2>1. step # "Only"
    BY DEF CreateSteps
  <2> QED BY <1>1, <2>1, TypesOfTarget, FailStepKeepsInv
<1>2. CASE /\ list # <<>> /\ upload' = list[1]["upload_url"]
           /\ Send("Put", DataPutByUrlRequest([DataPutByUrlDefaults EXCEPT !.url = "url"]))
  <2> DEFINE fields == reply.answer.fields
  <2>1. "part_info_list" \in DOMAIN fields /\ fields["part_info_list"] # <<>>
    BY <1>2, ListOfNone DEF list
  <2>2. Readable
    <3>1. Readable \/ reply.answer = Unreadable
      BY ReturnStands
    <3>2. Unreadable.fields = <<>> /\ "part_info_list" \notin DOMAIN <<>>
      BY DEF Unreadable
    <3> QED BY <2>1, <3>1, <3>2
  <2>3. PICK n \in DOMAIN uploads : Fresh(n) /\ fields["part_info_list"] = <<UploadUrl(n)>>
    BY <2>1, <2>2 DEF Inv, Creating, Replied
  <2>4. upload' = n
    BY <1>2, <2>1, <2>3, ListOfOne DEF list
  <2>5. n \in DOMAIN uploads /\ ~uploads[n].done /\ n \in 0 .. Len(uploads)
    <3>1. DOMAIN uploads = 1 .. Len(uploads) /\ Len(uploads) \in Nat
      BY ReturnStands
    <3>2. \A k \in 1 .. Len(uploads) : k \in 0 .. Len(uploads)
      BY <3>1
    <3>3. n \in DOMAIN uploads /\ ~uploads[n].done
      BY <2>3, Zenon DEF Fresh
    <3> QED BY <3>1, <3>2, <3>3
  <2> DEFINE m == DataPutByUrlRequest([DataPutByUrlDefaults EXCEPT !.url = "url"])
  <2>6. Send("Put", m)
    BY <1>2
  <2>7. \A h \in AllHeaders(m.headers, TRUE) : h[1] # "Range"
    BY PutHasNoRange
  <2> HIDE DEF m, fields
  <2>8. /\ step' = "Put" /\ attempt' \in 0 .. MaxRetries /\ pc' \in {"attempt", "returned"} /\ ~IsGood' /\ Readable'
        /\ message'.headers = AllHeaders(m.headers, TRUE) /\ result'.ok \in BOOLEAN /\ result'.sure \in BOOLEAN
    BY <2>6, SendIs
  <2>9. Typed'
    BY <2>4, <2>5, <2>8, TypesOfTarget, GoesOnTyped DEF Kept
  <2>10. call.op = "Upload" /\ source \in seen
    BY ReturnStands DEF UploadSteps
  <2>11. Ready'
    BY <2>4, <2>5, <2>7, <2>8, <2>10 DEF Ready, Kept, UploadSteps, CreateSteps, DownloadSteps
  <2> QED BY <2>8, <2>9, <2>11, BegunKeepsInv
<1> QED BY <1>0, <1>1, <1>2 DEF UploadData

(* A request that follows another one of the same upload, but for the put. *)
LEMMA NextKeepsInv ==
    ASSUME Inv, Kept, UNCHANGED <<tempFile, fileSize, upload>>, hashed' \in Contents,
           NEW s \in {"PreCheck", "Create", "Rapid", "Complete"}, NEW m, Send(s, m), call.op = "Upload", source \in seen,
           s = "Rapid" => hashed' \in seen,
           s = "Complete" => /\ upload \in DOMAIN uploads
                             /\ WithCrc => uploads[upload].data \in seen \cup mixed
                             /\ uploads[upload].done => stored = uploads[upload].data
    PROVE  Inv'
<1>1. /\ step' = s /\ attempt' \in 0 .. MaxRetries /\ pc' \in {"attempt", "returned"} /\ ~IsGood' /\ Readable'
      /\ result'.ok \in BOOLEAN /\ result'.sure \in BOOLEAN
  BY SendIs
<1>2. Typed'
  BY <1>1, TypesOfTarget, GoesOnTyped DEF Kept
<1>3. Ready'
  BY <1>1 DEF Ready, Kept, UploadSteps, CreateSteps, DownloadSteps, WithCrc
<1> QED BY <1>1, <1>2, <1>3, BegunKeepsInv

LEMMA ResumableFileUploadKeepsInv == ASSUME Inv, ResumableFileUpload PROVE Inv'
<1>1. pc = "validate" /\ call.op = "Upload" /\ UNCHANGED <<files, switch, service, target, ghosts>>
  BY DEF ResumableFileUpload
<1>2. \/ \E code : Fail(code)
      \/ Send("PreCheck", CreateRequest("preHash", ""))
      \/ Send("Create", CreateRequest("", ""))
  BY DEF ResumableFileUpload
<1>3. Kept /\ UNCHANGED <<tempFile, fileSize, upload, hashed>>
  BY <1>1 DEF Kept, files, switch, service, target, ghosts
<1>4. step \in {"no file", "file"}
  BY <1>1 DEF Inv, Stages
<1>5. CASE \E code : Fail(code)
  BY <1>3, <1>4, <1>5, TypesOfTarget, FailStepKeepsInv
<1>6. CASE \E s \in {"PreCheck", "Create"} : \E m : Send(s, m)
  BY <1>1, <1>3, <1>4, <1>6, ReturnStands, TypesOfTarget, NextKeepsInv
<1> QED BY <1>2, <1>5, <1>6

LEMMA AfterPreCheckKeepsInv == ASSUME Inv, AfterPreCheck PROVE Inv'
<1>1. pc = "returned" /\ step = "PreCheck" /\ UNCHANGED <<files, switch, service, call, fileSize, listed, ghosts>>
  BY DEF AfterPreCheck, Arrived
<1>2. Kept /\ UNCHANGED <<tempFile, fileSize, listed>>
  BY <1>1 DEF Kept, files, switch, service, ghosts
<1>3. call.op = "Upload" /\ source \in seen /\ source \in Contents
  BY <1>1, ReturnStands, TypesOfGhosts DEF UploadSteps, CreateSteps
<1>4. CASE hashed' = source /\ Send("Rapid", CreateRequest("", "contentHash")) /\ UNCHANGED upload
  BY <1>2, <1>3, <1>4, NextKeepsInv
<1>5. CASE FailWithReply /\ UNCHANGED <<upload, hashed>>
  <2>1. \E code : Fail(code)
    BY <1>5 DEF FailWithReply
  <2> QED BY <1>1, <1>2, <1>5, <2>1, TypesOfTarget, FailStepKeepsInv
<1>6. CASE IsGood /\ (\E created \in FileCreateResult(reply.answer) : UploadData(created)) /\ UNCHANGED hashed
  BY <1>1, <1>2, <1>6, UploadDataKeepsInv DEF CreateSteps
<1> QED BY <1>4, <1>5, <1>6 DEF AfterPreCheck

LEMMA AfterCreateKeepsInv == ASSUME Inv, AfterCreate PROVE Inv'
<1>1. pc = "returned" /\ step = "Create" /\ UNCHANGED <<files, switch, service, call, fileSize, listed, hashed, ghosts>>
  BY DEF AfterCreate, Arrived
<1>2. Kept /\ UNCHANGED <<tempFile, fileSize, listed, hashed>>
  BY <1>1 DEF Kept, files, switch, service, ghosts
<1>3. CASE FailWithReply /\ UNCHANGED upload
  <2>1. \E code : Fail(code)
    BY <1>3 DEF FailWithReply
  <2> QED BY <1>1, <1>2, <1>3, <2>1, TypesOfTarget, FailStepKeepsInv
<1>4. CASE IsGood /\ \E created \in FileCreateResult(reply.answer) : UploadData(created)
  BY <1>1, <1>2, <1>4, UploadDataKeepsInv DEF CreateSteps
<1> QED BY <1>3, <1>4 DEF AfterCreate

LEMMA SuccessIs ==
    ASSUME NEW sure, Return(Success(sure))
    PROVE  pc' = "idle" /\ result'.ok = TRUE /\ result'.sure = sure
BY DEF Return, Success

(* The end of an upload, if it ends well. *)
LEMMA UploadedKeepsInv ==
    ASSUME Inv, Kept, UNCHANGED <<request, target, tempFile>>, NEW sure \in BOOLEAN, Return(Success(sure)),
           pc = "returned", step \in UploadSteps, misread \/ ~WithCrc \/ (stored \in seen \cup mixed /\ Size(stored) = fileSize),
           sure \/ misread \/ step = "Rapid"
    PROVE  Inv'
<1>1. pc' = "idle" /\ result'.ok = TRUE /\ result'.sure = sure
  BY SuccessIs
<1>2. UNCHANGED <<step, attempt, hashed, upload, fileSize>>
  BY DEF request, target
<1>3. Typed'
  BY <1>1, <1>2, TypesOfTarget, GoesOnTyped DEF Kept
<1>4. OkMeansStored'
  BY <1>2 DEF OkMeansStored, Kept, WithCrc
<1>5. FailureMeansDoubt'
  BY <1>2 DEF FailureMeansDoubt, UploadSteps, CreateSteps
<1>6. ResultIsRead'
  BY <1>1, <1>2 DEF ResultIsRead, Kept
<1> QED BY <1>1, <1>3, <1>4, <1>5, <1>6, IdleKeepsInv

LEMMA AfterRapidKeepsInv == ASSUME Inv, AfterRapid PROVE Inv'
<1>1. pc = "returned" /\ step = "Rapid" /\ UNCHANGED <<files, switch, service, call, fileSize, listed, hashed, ghosts>>
  BY DEF AfterRapid, Arrived
<1>2. Kept /\ UNCHANGED <<tempFile, fileSize, listed, hashed>>
  BY <1>1 DEF Kept, files, switch, service, ghosts
<1>3. CASE FailWithReply /\ UNCHANGED upload
  <2>1. \E code : Fail(code)
    BY <1>3 DEF FailWithReply
  <2> QED BY <1>1, <1>2, <1>3, <2>1, TypesOfTarget, FailStepKeepsInv
<1>4. CASE IsGood /\ \E created \in FileCreateResult(reply.answer) : UploadData(created)
  BY <1>1, <1>2, <1>4, UploadDataKeepsInv DEF CreateSteps
<1>5. CASE \E created \in FileCreateResult(reply.answer) :
             /\ IsGood /\ created["rapid_upload"]
             /\ Return(Success(Cardinality(FileCompleteResultOfCreate(created)) = 1)) /\ UNCHANGED <<request, upload>>
  <2>1. PICK created \in FileCreateResult(reply.answer) :
             /\ IsGood /\ created["rapid_upload"]
             /\ Return(Success(Cardinality(FileCompleteResultOfCreate(created)) = 1)) /\ UNCHANGED <<request, upload>>
    BY <1>5
  <2>2. misread \/ (stored = hashed /\ Size(hashed) = fileSize /\ hashed \in seen)
    <3>1. CASE Readable
      <4>1. "rapid_upload" \in DOMAIN reply.answer.fields
        BY <2>1, <3>1, CreateResultIs DEF Readable
      <4> QED BY <1>1, <2>1, <3>1, <4>1 DEF Inv, Creating, Running, Replied, CreateSteps
    <3> QED BY <1>1, <3>1, ReturnStands
  <2> DEFINE sure == Cardinality(FileCompleteResultOfCreate(created)) = 1
  <2>3. sure \in BOOLEAN /\ Return(Success(sure))
    BY <2>1
  <2> HIDE DEF sure
  <2>4. UNCHANGED <<request, target, tempFile>>
    BY <1>1, <1>2, <2>1 DEF target
  <2> QED BY <1>1, <1>2, <2>2, <2>3, <2>4, UploadedKeepsInv DEF UploadSteps, CreateSteps
<1> QED BY <1>3, <1>4, <1>5 DEF AfterRapid

LEMMA AfterPutKeepsInv == ASSUME Inv, AfterPut PROVE Inv'
<1>1. pc = "returned" /\ step = "Put" /\ UNCHANGED <<files, switch, service, target, ghosts>>
  BY DEF AfterPut, Arrived
<1>2. Kept /\ UNCHANGED <<tempFile, fileSize, upload, hashed>>
  BY <1>1 DEF Kept, files, switch, service, target, ghosts
<1>3. CASE \E code : Fail(code)
  BY <1>1, <1>2, <1>3, TypesOfTarget, FailStepKeepsInv
<1>4. CASE IsGood /\ \E m : Send("Complete", m)
  <2>1. call.op = "Upload" /\ source \in seen
    BY <1>1, ReturnStands DEF UploadSteps
  <2>2. upload \in DOMAIN uploads /\ ~uploads[upload].done /\ (WithCrc => uploads[upload].data \in seen \cup mixed)
    BY <1>1, <1>4 DEF Inv, Putting, Running, Replied
  <2> QED BY <1>2, <1>4, <2>1, <2>2, TypesOfTarget, NextKeepsInv
<1> QED BY <1>3, <1>4 DEF AfterPut, FailWithReply

(* What FileComplete says the size is. *)
LEMMA CompleteResultIs ==
    ASSUME NEW a, a.readable = TRUE, "size" \in DOMAIN a.fields, NEW completed \in FileCompleteResult(a)
    PROVE  completed["size"] = a.fields["size"]
<1> DEFINE texts   == {"category", "content_hash", "content_hash_name", "content_type", "crc64_hash", "created_at", "drive_id",
                       "encrypt_mode", "file_extension", "file_id", "location", "name", "parent_file_id", "status", "type",
                       "updated_at", "upload_id"}
           numbers == {"size"}
           flags   == {"hidden", "rapid_upload", "starred"}
<1>1. completed \in Result(a, texts, numbers, flags)
  BY DEF FileCompleteResult
<1>2. "size" \in texts \cup numbers \cup flags
  OBVIOUS
<1> HIDE DEF texts, numbers, flags
<1>3. completed = Read(a.fields, texts, numbers, flags)
  BY <1>1, ResultIs
<1> QED BY <1>2, <1>3 DEF Read, Value

LEMMA AfterCompleteKeepsInv == ASSUME Inv, AfterComplete PROVE Inv'
<1>1. pc = "returned" /\ step = "Complete" /\ UNCHANGED <<files, switch, service, target, ghosts>>
  BY DEF AfterComplete, Arrived
<1>2. Kept /\ UNCHANGED <<tempFile, fileSize, upload, hashed>>
  BY <1>1 DEF Kept, files, switch, service, target, ghosts
<1>3. CASE \E code : Fail(code)
  BY <1>1, <1>2, <1>3, TypesOfTarget, FailStepKeepsInv
<1>4. CASE /\ IsGood /\ Return(Success(reply.answer.readable)) /\ UNCHANGED request
           /\ \E completed \in FileCompleteResult(reply.answer) : completed["size"] = fileSize
  <2>1. Readable \/ misread
    BY <1>1, ReturnStands
  <2>2. Readable /\ WithCrc => stored \in seen \cup mixed /\ Size(stored) = fileSize
    <3>1. SUFFICES ASSUME Readable, WithCrc PROVE stored \in seen \cup mixed /\ Size(stored) = fileSize
      OBVIOUS
    <3>2. /\ "size" \in DOMAIN reply.answer.fields /\ reply.answer.fields["size"] = Size(uploads[upload].data)
          /\ stored = uploads[upload].data /\ uploads[upload].data \in seen \cup mixed
      BY <1>1, <1>4, <3>1 DEF Inv, Completing, Running, Replied
    <3>3. fileSize = reply.answer.fields["size"]
      BY <1>4, <3>1, <3>2, CompleteResultIs DEF Readable
    <3> QED BY <3>2, <3>3
  <2>3. CASE Readable
    <3>1. Return(Success(TRUE))
      BY <1>4, <2>3 DEF Readable
    <3> QED BY <1>1, <1>2, <1>4, <2>1, <2>2, <2>3, <3>1, UploadedKeepsInv DEF UploadSteps
  <2>4. CASE ~Readable
    <3>1. Return(Success(FALSE))
      <4>1. reply.answer.readable = FALSE
        BY <1>1, <2>4, ReturnStands DEF Unreadable
      <4> QED BY <1>4, <4>1
    <3> QED BY <1>1, <1>2, <1>4, <2>1, <2>2, <2>4, <3>1, UploadedKeepsInv DEF UploadSteps
  <2> QED BY <2>3, <2>4
<1> QED BY <1>3, <1>4 DEF AfterComplete, FailWithReply
-----------------------------------------------------------------------------
(* A request of a download has returned.                                   *)

(* What get_download_url says: without a readable answer there is no url, and the size is some number. *)
LEMMA GetUrlResultIs ==
    ASSUME NEW a, NEW answer \in FileGetDownloadUrlResult(a)
    PROVE  /\ a.readable /\ "size" \in DOMAIN a.fields => answer["size"] = a.fields["size"]
           /\ a.readable /\ "size" \notin DOMAIN a.fields => answer["size"] = 0
           /\ ~a.readable => answer["size"] \in UnwrittenNumbers
           /\ answer["url"] # "" => a.readable /\ "url" \in DOMAIN a.fields
<1> DEFINE texts   == {"cdn_url", "content_hash", "content_hash_name", "crc64_hash", "expiration", "internal_url", "method", "url"}
           numbers == {"size", "punish_flag"}
<1>1. answer \in Result(a, texts, numbers, {})
  BY DEF FileGetDownloadUrlResult
<1>2. "size" \in numbers /\ "size" \notin texts /\ "url" \in texts
  OBVIOUS
<1> HIDE DEF texts, numbers
<1>3. CASE a.readable
  <2>1. answer = Read(a.fields, texts, numbers, {})
    BY <1>1, <1>3, ResultIs
  <2>2. answer["size"] = Value(a.fields, "size", 0)
    BY <1>2, <2>1 DEF Read
  <2>3. answer["url"] = Value(a.fields, "url", "")
    BY <1>2, <2>1 DEF Read
  <2> QED BY <1>3, <2>2, <2>3 DEF Value
<1>4. CASE ~a.readable
  <2>1. answer \in Unread(texts, numbers, {})
    BY <1>1, <1>4, ResultIs
  <2> DEFINE Some(held) ==
            [k \in texts \cup numbers \cup {} |-> IF k \in texts THEN "" ELSE IF k \in numbers THEN held[1][k] ELSE held[2][k]]
             Memory == [numbers -> UnwrittenNumbers] \X [{} -> BOOLEAN]
  <2>2. answer \in {Some(held) : held \in Memory}
    BY <2>1 DEF Unread
  <2>3. \A held : Some(held)["url"] = "" /\ Some(held)["size"] = held[1]["size"]
    BY <1>2, Zenon
  <2> HIDE DEF Some
  <2>4. PICK held \in Memory : answer = Some(held)
    BY <2>2
  <2>5. held[1]["size"] \in UnwrittenNumbers
    BY <1>2
  <2> QED BY <1>4, <2>3, <2>4, <2>5
<1> QED BY <1>3, <1>4

LEMMA AfterGetUrlKeepsInv == ASSUME Inv, AfterGetUrl PROVE Inv'
<1>1. pc = "returned" /\ step = "GetUrl" /\ UNCHANGED <<files, switch, service, call, hashed, upload, ghosts>>
  BY DEF AfterGetUrl, Arrived
<1>2. Kept /\ UNCHANGED <<tempFile, upload, hashed>>
  BY <1>1 DEF Kept, files, switch, service, ghosts
<1>3. CASE FailWithReply /\ UNCHANGED <<listed, fileSize>>
  <2>1. \E code : Fail(code)
    BY <1>3 DEF FailWithReply
  <2> QED BY <1>1, <1>2, <1>3, <2>1, TypesOfTarget, FailStepKeepsInv
<1>4. CASE /\ IsGood
           /\ \E answer \in FileGetDownloadUrlResult(reply.answer) :
                 /\ fileSize' = answer["size"] /\ listed'.content = reply.theirs
                 /\ \/ \E code : Fail(code)
                    \/ /\ answer["url"] # ""
                       /\ \E o : Send("Get", DataGetByUrlRequest(o, <<>>))
  <2>1. PICK answer \in FileGetDownloadUrlResult(reply.answer) :
                 /\ fileSize' = answer["size"] /\ listed'.content = reply.theirs
                 /\ \/ \E code : Fail(code)
                    \/ /\ answer["url"] # ""
                       /\ \E o : Send("Get", DataGetByUrlRequest(o, <<>>))
    BY <1>4
  <2>2. Readable =>
          /\ "url" \in DOMAIN reply.answer.fields => reply.theirs \in seen
          /\ "size" \in DOMAIN reply.answer.fields => reply.answer.fields["size"] \in Nat
    BY <1>1, <1>4 DEF Inv, Listings, Replied
  <2>3. fileSize' \in Nat
    <3>1. CASE Readable
      <4>1. reply.answer.readable
        BY <3>1 DEF Readable
      <4>2. CASE "size" \in DOMAIN reply.answer.fields
        <5>1. fileSize' = reply.answer.fields["size"]
          BY <2>1, <4>1, <4>2, GetUrlResultIs, Zenon
        <5> QED BY <2>2, <3>1, <4>2, <5>1, Zenon
      <4>3. CASE "size" \notin DOMAIN reply.answer.fields
        <5>1. fileSize' = 0
          BY <2>1, <4>1, <4>3, GetUrlResultIs, Zenon
        <5> QED BY <5>1
      <4> QED BY <4>2, <4>3
    <3>2. CASE ~Readable
      <4>1. ~reply.answer.readable
        BY <1>1, <3>2, ReturnStands DEF Unreadable
      <4>2. UnwrittenNumbers \subseteq Nat
        BY DEF UnwrittenNumbers
      <4> QED BY <2>1, <4>1, <4>2, GetUrlResultIs
    <3> QED BY <3>1, <3>2
  <2>4. CASE \E code : Fail(code)
    BY <1>1, <1>2, <2>3, <2>4, TypesOfTarget, FailStepKeepsInv
  <2>5. CASE answer["url"] # "" /\ \E o : Send("Get", DataGetByUrlRequest(o, <<>>))
    <3>1. PICK o : Send("Get", DataGetByUrlRequest(o, <<>>))
      BY <2>5
    <3> DEFINE m == DataGetByUrlRequest(o, <<>>)
    <3>2. Send("Get", m)
      BY <3>1
    <3>3. \A h \in AllHeaders(m.headers, TRUE) : h[1] # "Range"
      BY GetHasNoRange
    <3> HIDE DEF m
    <3>4. /\ step' = "Get" /\ attempt' \in 0 .. MaxRetries /\ pc' \in {"attempt", "returned"} /\ ~IsGood' /\ Readable'
          /\ message'.headers = AllHeaders(m.headers, TRUE) /\ result'.ok \in BOOLEAN /\ result'.sure \in BOOLEAN
      BY <3>2, SendIs
    <3>5. Readable /\ "url" \in DOMAIN reply.answer.fields
      <4>1. reply.answer.readable /\ "url" \in DOMAIN reply.answer.fields
        BY <2>5, GetUrlResultIs
      <4>2. Readable
        BY <1>1, <4>1, ReturnStands DEF Unreadable
      <4> QED BY <4>1, <4>2
    <3>6. Typed'
      BY <1>2, <2>3, <3>4, TypesOfTarget, GoesOnTyped DEF Kept
    <3>7. call.op = "Download" /\ remote \in seen /\ seen \subseteq Versions
      BY <1>1, ReturnStands DEF DownloadSteps
    <3>8. Ready'
      BY <1>2, <2>1, <2>2, <3>3, <3>4, <3>5, <3>7 DEF Ready, Kept, UploadSteps, CreateSteps, DownloadSteps
    <3> QED BY <3>4, <3>6, <3>8, BegunKeepsInv
  <2> QED BY <2>1, <2>4, <2>5
<1>5. \/ FailWithReply /\ UNCHANGED <<listed, fileSize>>
      \/ /\ IsGood
         /\ \E answer \in FileGetDownloadUrlResult(reply.answer) :
              /\ fileSize' = answer["size"]
              /\ \E h, p : listed' = [content |-> reply.theirs, hash |-> h, punished |-> p]
              /\ \/ \E code : Fail(code)
                 \/ answer["url"] # "" /\ \E o : Send("Get", DataGetByUrlRequest(o, <<>>))
  BY ZenonT(60) DEF AfterGetUrl
<1>7. ASSUME NEW h, NEW p, listed' = [content |-> reply.theirs, hash |-> h, punished |-> p]
      PROVE  listed'.content = reply.theirs
  BY <1>7
<1> QED BY <1>3, <1>4, <1>5, <1>7, Zenon

LEMMA AfterGetKeepsInv == ASSUME Inv, AfterGet PROVE Inv'
<1>1. pc = "returned" /\ step = "Get" /\ UNCHANGED <<source, dest, switch, service, target, ghosts>>
  BY DEF AfterGet, Arrived
<1>2. Kept /\ UNCHANGED <<upload, hashed, fileSize, listed>>
  BY <1>1 DEF Kept, switch, service, target, ghosts
<1>3. CASE tempFile' \in {tempFile, NoFile} /\ \E code : Fail(code)
  <2>1. tempFile' \in Contents
    BY <1>3, TypesOfTarget, ContentsAre
  <2> QED BY <1>1, <1>2, <1>3, <2>1, TypesOfTarget, FailStepKeepsInv
<1>4. CASE /\ pc' = "rename" /\ (WithCrc /\ listed.hash => IsGood)
           /\ UNCHANGED <<result, request, tempFile>>
  <2>1. UNCHANGED <<step, message, attempt, reply, result, tempFile>>
    BY <1>4 DEF request
  <2>2. UNCHANGED IsGood
    BY <1>2, <2>1 DEF Kept, IsGood, HasResponseError, CrcDiffers, IsCallback
  <2>3. Typed'
    BY <1>2, <1>4, <2>1 DEF Inv, Typed, Kept
  <2>4. Stages' /\ Sources'
    BY <1>1, <1>2, <1>4, <2>1 DEF Inv, Stages, Sources, Running, Readable, Kept, DownloadSteps
  <2>5. Accounts' /\ Creating' /\ Putting' /\ Completing' /\ Listings'
    BY <1>1, <1>4, <2>1 DEF Accounts, Creating, Putting, Completing, Listings, Running, Replied
  <2>6. Getting'
    BY <1>1, <1>2, <1>4, <2>1, <2>2 DEF Inv, Getting, Running, Kept, WithCrc
  <2>7. OkMeansStored' /\ FailureMeansDoubt' /\ ResultIsRead'
    BY <1>4 DEF OkMeansStored, FailureMeansDoubt, ResultIsRead
  <2> QED BY <2>3, <2>4, <2>5, <2>6, <2>7 DEF Inv
<1> QED BY <1>3, <1>4 DEF AfterGet, WithCrc

LEMMA RenameKeepsInv == ASSUME Inv, Rename PROVE Inv'
<1>1. pc = "rename" /\ UNCHANGED <<source, switch, service, target, ghosts>>
  BY DEF Rename
<1>2. step = "Get" /\ call.op = "Download"
  BY <1>1 DEF Inv, Stages, Running, DownloadSteps
<1>3. UNCHANGED <<source, configuration, enabled, control, remote, uploads, stored, call, fileSize, hashed, upload,
                  seen, mixed, effects, doubts, misread>>
  BY <1>1 DEF switch, service, target, ghosts
<1>4. tempFile' \in Contents /\ dest' \in Contents
  BY TypesOfTarget, ContentsAre DEF Rename
<1>5. UNCHANGED request /\ pc' = "idle"
  BY DEF Rename, Fail, Return
<1>6. result'.ok \in BOOLEAN /\ result'.sure = TRUE
  BY FailureIs, SuccessIs DEF Rename, Fail, Return, Success
<1>7. Typed'
  BY <1>3, <1>4, <1>5, <1>6, TypesOfTarget, GoesOnTyped DEF request
<1>8. OkMeansStored' /\ FailureMeansDoubt' /\ ResultIsRead'
  BY <1>2, <1>3, <1>5, <1>6 DEF OkMeansStored, FailureMeansDoubt, ResultIsRead, request
<1> QED BY <1>5, <1>7, <1>8, IdleKeepsInv

-----------------------------------------------------------------------------
(* An operation returns.                                                   *)

(* A readable answer comes to one result. *)
IsOne(S) == \E r : S = {r}

LEMMA OneIsCounted == ASSUME NEW S, IsOne(S) PROVE Cardinality(S) = 1
BY FS_Singleton DEF IsOne

LEMMA OneResult ==
    ASSUME NEW a, a.readable, NEW texts, NEW numbers, NEW flags
    PROVE  IsOne(Result(a, texts, numbers, flags))
BY DEF Result, IsOne

LEMMA OneWithList ==
    ASSUME NEW results, NEW key, NEW list, IsOne(results)
    PROVE  IsOne(ResultWithList(results, key, list))
<1>1. PICK r : results = {r}
  BY DEF IsOne
<1>2. ResultWithList(results, key, list) = {With(r, key, list)}
  BY <1>1 DEF ResultWithList
<1> QED BY <1>2 DEF IsOne

LEMMA OneDirResult ==
    ASSUME NEW a, a.readable, NEW op \in DirOperations
    PROVE  IsOne(DirResult(op, a))
<1>1. /\ IsOne(DirCreateResult(a)) /\ IsOne(DirRenameResult(a)) /\ IsOne(DirTrashResult(a)) /\ IsOne(DirDeleteResult(a))
      /\ IsOne(DirCopyResult(a)) /\ IsOne(DirMoveResult(a)) /\ IsOne(DirHiddenResult(a))
  BY OneResult
     DEF DirCreateResult, DirRenameResult, DirTrashResult, DirDeleteResult, DirCopyResult, DirMoveResult, DirHiddenResult
<1>2. IsOne(DirListResult(a))
  BY OneResult, OneWithList DEF DirListResult
<1>3. IsOne(DirSearchResult(a))
  BY OneResult, OneWithList DEF DirSearchResult
<1>4. DirResult(op, a) \in {DirCreateResult(a), DirListResult(a), DirSearchResult(a), DirRenameResult(a), DirTrashResult(a),
                            DirDeleteResult(a), DirCopyResult(a), DirMoveResult(a), DirHiddenResult(a)}
  BY DEF DirOperations, DirResult
<1> QED BY <1>1, <1>2, <1>3, <1>4

LEMMA OneFileResult ==
    ASSUME NEW a, a.readable, NEW op \in FileOperations \ {"FileGetVideoPreviewPlayInfo"}
    PROVE  IsOne(FileResult(op, a))
<1>1. /\ IsOne(FileCompleteResult(a)) /\ IsOne(FileGetDownloadUrlResult(a)) /\ IsOne(FileRenameResult(a))
      /\ IsOne(FileCopyResult(a)) /\ IsOne(FileMoveResult(a)) /\ IsOne(FileHiddenResult(a))
  BY OneResult
     DEF FileCompleteResult, FileGetDownloadUrlResult, FileRenameResult, FileCopyResult, FileMoveResult, FileHiddenResult
<1>2. IsOne(FileCreateResult(a))
  BY OneResult, OneWithList DEF FileCreateResult
<1>3. IsOne(FileGetUploadUrlResult(a))
  BY OneResult, OneWithList DEF FileGetUploadUrlResult
<1>4. IsOne(FileListUploadedPartsResult(a))
  BY OneResult, OneWithList DEF FileListUploadedPartsResult
<1>5. IsOne(FileGetResult(a)) /\ IsOne({NoFields})
  BY DEF FileGetResult, IsOne
<1>6. FileResult(op, a) \in {FileCreateResult(a), FileGetUploadUrlResult(a), FileListUploadedPartsResult(a), FileCompleteResult(a),
                             FileGetDownloadUrlResult(a), FileGetResult(a), FileRenameResult(a), {NoFields}, FileCopyResult(a),
                             FileMoveResult(a), FileHiddenResult(a)}
  BY DEF FileOperations, FileResult
<1> QED BY <1>1, <1>2, <1>3, <1>4, <1>5, <1>6

LEMMA OneOfResults ==
    ASSUME NEW a, a.readable, NEW headers, NEW op,
           op \in (DirOperations \cup FileOperations \cup DataOperations \cup OtherOperations) \ {"FileGetVideoPreviewPlayInfo"},
           op = "DataPutByUrl" => CrcHeader \in DOMAIN headers
    PROVE  IsOne(Results(op, a, headers))
<1>1. CASE op \in DirOperations
  <2>1. Results(op, a, headers) = DirResult(op, a)
    BY <1>1 DEF Results, DirOperations
  <2> QED BY <1>1, <2>1, OneDirResult
<1>2. CASE op \in FileOperations
  <2>1. Results(op, a, headers) = FileResult(op, a)
    BY <1>2 DEF Results, FileOperations, DirOperations
  <2> QED BY <1>2, <2>1, OneFileResult
<1>3. CASE op \in DataOperations \cup OtherOperations
  <2>1. IsOne(AsyncTaskGetResult(a)) /\ IsOne(MetaUserTagsPutResult(a))
    BY OneResult DEF AsyncTaskGetResult, MetaUserTagsPutResult
  <2>2. IsOne({a}) /\ IsOne({DataGetResult(headers)})
    BY DEF IsOne
  <2>3. CrcHeader \in DOMAIN headers => IsOne(DataPutResult(headers))
    BY DEF DataPutResult, IsOne
  <2>4. /\ op = "AsyncTaskGet" => Results(op, a, headers) = AsyncTaskGetResult(a)
        /\ op = "MetaUserTagsPut" => Results(op, a, headers) = MetaUserTagsPutResult(a)
        /\ op = "MetaUserTagsDelete" => Results(op, a, headers) = {a}
        /\ op = "DataGetByUrl" => Results(op, a, headers) = {DataGetResult(headers)}
        /\ op = "DataPutByUrl" => Results(op, a, headers) = DataPutResult(headers)
    BY DEF Results, DirOperations
  <2> QED BY <1>3, <2>1, <2>2, <2>3, <2>4 DEF DataOperations, OtherOperations
<1> QED BY <1>1, <1>2, <1>3

LEMMA ReturnOperationKeepsInv == ASSUME Inv, ReturnOperation PROVE Inv'
<1> DEFINE headers == IF call.op \in DataOperations /\ configuration.enableCrc64 THEN CrcGiven ELSE NoFields
           sure    == Cardinality(Results(call.op, reply.answer, headers)) = 1
<1>1. /\ pc = "returned" /\ step = "Only"
      /\ Return(IF IsGood THEN Success(sure) ELSE Failure(ErrorCode(reply)))
      /\ UNCHANGED <<files, switch, service, request, target, ghosts>>
  BY DEF ReturnOperation, Arrived
<1>2. Kept /\ UNCHANGED <<tempFile, upload, hashed, fileSize, step, attempt, reply>>
  BY <1>1 DEF Kept, files, switch, service, request, target, ghosts
<1>3. call \in Operations
  BY <1>1 DEF Inv, Stages, Running
<1>4. /\ call.op \in DirOperations \cup FileOperations \cup DataOperations \cup OtherOperations
      /\ call.op # "Upload"
  BY <1>3, OperationsAssumption DEF DirOperations, FileOperations, DataOperations, OtherOperations
<1>5. Readable \/ misread
  BY <1>1, ReturnStands
<1>6. \/ ~IsGood /\ result'.ok = FALSE /\ result'.sure = TRUE
      \/ IsGood /\ result'.ok = TRUE /\ result'.sure = sure
  BY <1>1, FailureIs DEF Return, Success
<1>7. Readable /\ IsGood =>
          \/ sure \/ call.op = "FileGetVideoPreviewPlayInfo"
          \/ call.op = "DataPutByUrl" /\ ~configuration.enableCrc64
  <2>1. SUFFICES ASSUME Readable, call.op # "FileGetVideoPreviewPlayInfo", call.op # "DataPutByUrl" \/ configuration.enableCrc64
                 PROVE  sure
    OBVIOUS
  <2>2. call.op = "DataPutByUrl" => CrcHeader \in DOMAIN headers
    BY <2>1 DEF DataOperations, CrcGiven
  <2> HIDE DEF headers
  <2>3. IsOne(Results(call.op, reply.answer, headers))
    BY <1>4, <2>1, <2>2, OneOfResults DEF Readable
  <2> QED BY <2>3, OneIsCounted
<1>8. sure \in BOOLEAN
  OBVIOUS
<1> HIDE DEF sure, headers
<1>9. Typed'
  BY <1>1, <1>2, <1>6, <1>8, TypesOfTarget, GoesOnTyped DEF Return, Kept
<1>10. OkMeansStored'
  BY <1>2, <1>4 DEF OkMeansStored, Kept
<1>11. FailureMeansDoubt'
  <2>1. /\ effects <= doubts + 1 /\ (IsGood => effects >= 1)
        /\ ~IsGood => effects <= doubts \/ reply.status = 203
    BY <1>1 DEF Inv, Accounts, Running, Replied
  <2>2. /\ effects' <= doubts' + 1 /\ (result'.ok => effects' >= 1)
        /\ ~result'.ok => effects' <= doubts' \/ reply'.status = 203
    BY <1>2, <1>6, <2>1, Zenon DEF Kept
  <2> QED BY <2>2 DEF FailureMeansDoubt
<1>12. ResultIsRead'
  BY <1>2, <1>5, <1>6, <1>7, Zenon DEF ResultIsRead, Kept
<1> QED BY <1>1, <1>9, <1>10, <1>11, <1>12, IdleKeepsInv DEF Return

-----------------------------------------------------------------------------
(* The theorems.                                                           *)

LEMMA InitHasInv == Init => Inv
<1>1. SUFFICES ASSUME Init PROVE Inv
  OBVIOUS
<1>2. {source, remote} \subseteq Versions \cup {NoFile} /\ {tempFile, dest, stored, hashed} \subseteq Contents
  BY <1>1, ContentsAre DEF Init
<1>3. uploads \in Seq([data : Contents, done : BOOLEAN]) /\ upload \in 0 .. Len(uploads)
  BY <1>1 DEF Init
<1>4. attempt \in 0 .. MaxRetries /\ pc = "idle"
  BY <1>1, BoundsAssumption DEF Init
<1>5. result.ok = FALSE /\ result.sure = TRUE
  BY <1>1, FailureIs DEF Init
<1>6. Typed
  BY <1>1, <1>2, <1>3, <1>4, <1>5 DEF Init, Typed
<1>7. Stages /\ Sources /\ Accounts /\ Creating
  BY <1>4 DEF Stages, Sources, Accounts, Creating, Running, Replied
<1>8. Putting /\ Completing /\ Listings /\ Getting
  BY <1>4 DEF Putting, Completing, Listings, Getting, Running, Replied
<1>9. OkMeansStored /\ FailureMeansDoubt /\ ResultIsRead
  <2>1. step = "none"
    BY <1>1 DEF Init
  <2> QED BY <1>5, <2>1 DEF OkMeansStored, FailureMeansDoubt, ResultIsRead
<1> QED BY <1>6, <1>7, <1>8, <1>9 DEF Inv

LEMMA InvNext == ASSUME Inv, [Next]_vars PROVE Inv'
<1>1. CASE CallOperation
  BY <1>1, CallOperationKeepsInv
<1>2. CASE MakeUploadRequest
  BY <1>2, MakeUploadRequestKeepsInv
<1>3. CASE ResumableFileDownload
  BY <1>3, DownloadKeepsInv
<1>4. CASE Attempt
  BY <1>4, AttemptKeepsInv
<1>5. CASE Decide
  BY <1>5, DecideKeepsInv
<1>6. CASE WaitForRetry
  BY <1>6, WaitForRetryKeepsInv
<1>7. CASE ReturnOperation
  BY <1>7, ReturnOperationKeepsInv
<1>8. CASE ResumableFileUpload
  BY <1>8, ResumableFileUploadKeepsInv
<1>9. CASE AfterPreCheck
  BY <1>9, AfterPreCheckKeepsInv
<1>10. CASE AfterRapid
  BY <1>10, AfterRapidKeepsInv
<1>11. CASE AfterCreate
  BY <1>11, AfterCreateKeepsInv
<1>12. CASE AfterPut
  BY <1>12, AfterPutKeepsInv
<1>13. CASE AfterComplete
  BY <1>13, AfterCompleteKeepsInv
<1>14. CASE AfterGetUrl
  BY <1>14, AfterGetUrlKeepsInv
<1>15. CASE AfterGet
  BY <1>15, AfterGetKeepsInv
<1>16. CASE Rename
  BY <1>16, RenameKeepsInv
<1>17. CASE DisableRequest \/ EnableRequest \/ AskToQuit
  BY <1>17, SwitchesKeepInv
<1>18. CASE Edit \/ Modify
  BY <1>18, EditsKeepInv
<1>19. CASE Crash
  BY <1>19, CrashKeepsInv
<1>20. CASE UNCHANGED vars
  BY <1>20, StutterKeepsInv
<1> QED BY <1>1, <1>2, <1>3, <1>4, <1>5, <1>6, <1>7, <1>8, <1>9, <1>10, <1>11, <1>12, <1>13, <1>14, <1>15, <1>16, <1>17, <1>18,
           <1>19, <1>20 DEF Next, Proceed

(* The inductive invariant holds of every reachable state. *)
THEOREM ClientInvariant == Spec => []Inv
BY InitHasInv, InvNext, PTL DEF Spec

(* Types, for any operations, requests, contents and clients, and any number of retries, calls and events. *)
THEOREM ClientTypes == Spec => []TypeOK
<1>1. Inv => TypeOK
  <2>1. SUFFICES ASSUME Inv PROVE TypeOK
    OBVIOUS
  <2>2. \A c \in Contents : c = NoFile \/ (c[1] \in Nat /\ c[2] \in Nat)
    BY DEF Contents
  <2>3. ASSUME NEW i \in DOMAIN uploads PROVE uploads[i].done \in BOOLEAN
    <3>1. uploads \in Seq(Uploaded)
      BY <2>1 DEF Inv, Typed, Uploaded
    <3>2. uploads[i] \in Uploaded
      BY <2>3, <3>1
    <3> QED BY <3>2 DEF Uploaded
  <2> QED BY <2>1, <2>2, <2>3 DEF Inv, Typed, Stages, TypeOK
<1> QED BY <1>1, ClientInvariant, PTL

(* ResumableFileUpload of a small file that returns success left a content of the local file, of the size of the request, or a
   mixture of that size if the file was edited while the PUT read it. *)
THEOREM ClientOkMeansStored == Spec => []OkMeansStored
<1>1. Inv => OkMeansStored
  BY DEF Inv
<1> QED BY <1>1, ClientInvariant, PTL

(* What the outcome of an operation that was retried says of how often the service carried it out. *)
THEOREM ClientFailureMeansDoubt == Spec => []FailureMeansDoubt
<1>1. Inv => FailureMeansDoubt
  BY DEF Inv
<1> QED BY <1>1, ClientInvariant, PTL

(* What a result returns was written by the code that reads the answer. *)
THEOREM ClientResultIsRead == Spec => []ResultIsRead
<1>1. Inv => ResultIsRead
  BY DEF Inv
<1> QED BY <1>1, ClientInvariant, PTL

(* RenameFile is the only step that replaces the destination of a small download. *)
LEMMA AttemptsKeepDest == Attempt => dest' = dest
<1>1. ASSUME NEW kind, NEW r, EndWith(kind, r) PROVE dest' = dest
  BY <1>1 DEF EndWith
<1>2. ASSUME NEW r, Carry(r) PROVE dest' = dest
  BY <1>2 DEF Carry
<1>3. AttemptDisabled \/ UrlMalformed => dest' = dest
  BY DEF AttemptDisabled, UrlMalformed, files
<1>4. Unsent \/ Busy \/ Refused => dest' = dest
  BY <1>1 DEF Unsent, Busy, Refused
<1>5. Answered \/ AnswerLost \/ AnswerGarbled \/ Aborted => dest' = dest
  BY <1>2 DEF Answered, AnswerLost, AnswerGarbled, Aborted
<1>6. DataAltered => dest' = dest
  BY <1>2 DEF DataAltered
<1>7. DataCut => dest' = dest
  BY <1>2 DEF DataCut
<1> QED BY <1>3, <1>4, <1>5, <1>6, <1>7 DEF Attempt

LEMMA OnlyRenameReplaces == ASSUME [Next]_vars PROVE dest' = dest \/ Rename
<1>1. CallOperation \/ MakeUploadRequest \/ ResumableFileDownload => dest' = dest
  BY DEF CallOperation, MakeUploadRequest, ResumableFileDownload, Start
<1>2. Decide \/ WaitForRetry \/ ReturnOperation => dest' = dest
  BY DEF Decide, WaitForRetry, ReturnOperation, files
<1>3. ResumableFileUpload \/ AfterPreCheck \/ AfterRapid \/ AfterCreate \/ AfterPut \/ AfterComplete => dest' = dest
  BY DEF ResumableFileUpload, AfterPreCheck, AfterRapid, AfterCreate, AfterPut, AfterComplete, files
<1>4. AfterGetUrl \/ AfterGet => dest' = dest
  BY DEF AfterGetUrl, AfterGet, files
<1>5. DisableRequest \/ EnableRequest \/ AskToQuit \/ Edit \/ Modify \/ Crash => dest' = dest
  BY DEF DisableRequest, EnableRequest, AskToQuit, Edit, Modify, Crash, files
<1>6. UNCHANGED vars => dest' = dest
  BY DEF vars, files
<1> QED BY <1>1, <1>2, <1>3, <1>4, <1>5, <1>6, AttemptsKeepDest DEF Next, Proceed

(* ResumableFileDownload of a small file replaces its destination only by a whole content of the remote file. *)
THEOREM ClientDestIsReplacedWhole == Spec => DestIsReplacedWhole
<1>1. Inv /\ [Next]_vars =>
        ((dest' # dest /\ configuration.enableCrc64 /\ listed.hash /\ reply.theirs # EmptyFile)
            => dest' \in seen \/ (listed.punished /\ dest' = Notice))
  <2>1. SUFFICES ASSUME Inv, [Next]_vars, dest' # dest, WithCrc, listed.hash, reply.theirs # EmptyFile
                 PROVE  dest' \in seen \/ (listed.punished /\ dest' = Notice)
    BY DEF WithCrc
  <2>2. pc = "rename" /\ dest' = tempFile
    BY <2>1, OnlyRenameReplaces DEF Rename
  <2>3. IsGood /\ (reply.theirs \in seen \/ (listed.punished /\ reply.theirs = Notice)) /\ tempFile = reply.theirs
    BY <2>1, <2>2 DEF Inv, Stages, Getting, Running
  <2> QED BY <2>2, <2>3
<1>2. Inv /\ [Next]_vars =>
        [(dest' # dest /\ configuration.enableCrc64 /\ listed.hash /\ reply.theirs # EmptyFile)
            => dest' \in seen \/ (listed.punished /\ dest' = Notice)]_vars
  BY <1>1
<1> QED BY <1>2, ClientInvariant, PTL DEF Spec, DestIsReplacedWhole

-----------------------------------------------------------------------------
(* What is given is sent.                                                  *)

(* A value is left out, or among these pairs. *)
Plain == {"", "0", "false"}
Holds(pairs, value) == value \in Plain \/ \E p \in pairs : p[2] = value
Carries(m, value) == \/ value = m.path \/ Holds(m.body, value)
                     \/ \E h \in m.headers : h[1] \notin {"User-Agent", "Authorization"} /\ h[2] = value

LEMMA PairsHold ==
    /\ \A key, v : Holds(Always(key, v), v) /\ Holds(Given(key, v), v)
    /\ \A a, b, v : Holds(a, v) \/ Holds(b, v) => Holds(a \cup b, v)
<1>1. ASSUME NEW key, NEW v PROVE Holds(Always(key, v), v) /\ Holds(Given(key, v), v)
  <2>1. <<key, v>>[2] = v /\ <<key, v>> \in Always(key, v)
    BY DEF Always
  <2>2. Holds(Always(key, v), v)
    BY <2>1 DEF Holds
  <2>3. Given(key, v) = Always(key, v) \/ v = ""
    BY DEF Given
  <2> QED BY <2>2, <2>3 DEF Holds, Plain
<1>2. \A a, b, v : Holds(a, v) \/ Holds(b, v) => Holds(a \cup b, v)
  BY DEF Holds
<1> QED BY <1>1, <1>2, Zenon

LEMMA DirCreateCarries ==
    ASSUME NEW o, NEW k \in DOMAIN DirCreateDefaults
    PROVE  Carries(DirCreateRequest(o), o[k])
<1>1. k \in {"driveID", "parentFileID", "name", "checkNameMode", "hidden", "userTags"}
  BY DEF DirCreateDefaults
<1> DEFINE body == DirCreateRequest(o).body
<1>2. /\ Holds(body, o.driveID) /\ Holds(body, o.parentFileID) /\ Holds(body, o.name) /\ Holds(body, o.checkNameMode)
      /\ Holds(body, o.hidden) /\ Holds(body, o.userTags)
  BY PairsHold DEF DirCreateRequest, Post, Message
<1> QED BY <1>1, <1>2 DEF Carries

LEMMA HeaderIsCarried ==
    ASSUME NEW m, NEW key, NEW v, Given(key, v) \subseteq m.headers, key # "User-Agent", key # "Authorization"
    PROVE  Carries(m, v)
<1>1. CASE v = ""
  BY <1>1 DEF Carries, Holds, Plain
<1>2. CASE v # ""
  <2> DEFINE h == <<key, v>>
  <2>1. h \in Given(key, v) /\ h[1] = key /\ h[2] = v
    BY <1>2 DEF Given, Always
  <2> HIDE DEF h
  <2> QED BY <2>1 DEF Carries
<1> QED BY <1>1, <1>2

LEMMA BodyIs == ASSUME NEW path, NEW pairs, NEW b PROVE [Post(path, pairs) EXCEPT !.valid = b].body = pairs
BY DEF Post, Message

LEMMA DirListCarries ==
    ASSUME NEW o, NEW k \in DOMAIN DirListDefaults
    PROVE  Carries(DirListRequest(o), o[k])
<1>1. k \in {"driveID", "shareID", "parentFileID", "orderBy", "orderDirection", "fields", "marker", "limit", "type", "category", "urlExpireSec", "starred", "all", "shareToken"}
  BY DEF DirListDefaults
<1> DEFINE body == DirListRequest(o).body
<1>2. /\ Holds(body, o.driveID) /\ Holds(body, o.shareID) /\ Holds(body, o.parentFileID) /\ Holds(body, o.orderBy)
      /\ Holds(body, o.orderDirection) /\ Holds(body, o.fields) /\ Holds(body, o.marker) /\ Holds(body, o.limit)
      /\ Holds(body, o.type) /\ Holds(body, o.category) /\ Holds(body, o.urlExpireSec) /\ Holds(body, o.starred)
      /\ Holds(body, o.all)
  BY PairsHold DEF DirListRequest, Message
<1>3. Carries(DirListRequest(o), o.shareToken)
  BY HeaderIsCarried DEF ShareHeader, DirListRequest, Message
<1> QED BY <1>1, <1>2, <1>3 DEF Carries

LEMMA DirSearchCarries ==
    ASSUME NEW o, NEW k \in DOMAIN DirSearchDefaults
    PROVE  Carries(DirSearchRequest(o), o[k])
<1>1. k \in {"driveID", "query", "orderBy", "marker", "limit", "urlExpireSec", "returnTotalCount"}
  BY DEF DirSearchDefaults
<1> DEFINE body == DirSearchRequest(o).body
<1>2. /\ Holds(body, o.driveID) /\ Holds(body, o.query) /\ Holds(body, o.orderBy) /\ Holds(body, o.marker)
      /\ Holds(body, o.limit) /\ Holds(body, o.urlExpireSec) /\ Holds(body, o.returnTotalCount)
  BY PairsHold DEF DirSearchRequest, Post, Message
<1> QED BY <1>1, <1>2 DEF Carries

LEMMA DirRenameCarries ==
    ASSUME NEW o, NEW k \in DOMAIN DirRenameDefaults
    PROVE  Carries(DirRenameRequest(o), o[k])
<1>1. k \in {"driveID", "fileID", "name", "checkNameMode"}
  BY DEF DirRenameDefaults
<1> DEFINE body == DirRenameRequest(o).body
<1>2. Holds(body, o.driveID) /\ Holds(body, o.fileID) /\ Holds(body, o.name) /\ Holds(body, o.checkNameMode)
  BY PairsHold DEF DirRenameRequest, Post, Message, DriveAndFile
<1> QED BY <1>1, <1>2 DEF Carries

LEMMA DirTrashCarries ==
    ASSUME NEW o, NEW k \in DOMAIN DirTrashDefaults
    PROVE  Carries(DirTrashRequest(o), o[k])
<1>1. k \in {"driveID", "fileID"}
  BY DEF DirTrashDefaults
<1> DEFINE body == DirTrashRequest(o).body
<1>2. Holds(body, o.driveID) /\ Holds(body, o.fileID)
  BY PairsHold DEF DirTrashRequest, Post, Message, DriveAndFile
<1> QED BY <1>1, <1>2 DEF Carries

LEMMA DirDeleteCarries ==
    ASSUME NEW o, NEW k \in DOMAIN DirDeleteDefaults
    PROVE  Carries(DirDeleteRequest(o), o[k])
<1>1. k \in {"driveID", "fileID"}
  BY DEF DirDeleteDefaults
<1> DEFINE body == DirDeleteRequest(o).body
<1>2. Holds(body, o.driveID) /\ Holds(body, o.fileID)
  BY PairsHold DEF DirDeleteRequest, Post, Message, DriveAndFile
<1> QED BY <1>1, <1>2 DEF Carries

LEMMA DirCopyCarries ==
    ASSUME NEW o, NEW k \in DOMAIN DirCopyDefaults
    PROVE  Carries(DirCopyRequest(o), o[k])
<1>1. k \in {"driveID", "fileID", "toParentFileID", "autoRename"}
  BY DEF DirCopyDefaults
<1> DEFINE body == DirCopyRequest(o).body
<1>2. Holds(body, o.driveID) /\ Holds(body, o.fileID) /\ Holds(body, o.toParentFileID) /\ Holds(body, o.autoRename)
  BY PairsHold DEF DirCopyRequest, Post, Message, DriveAndFile
<1> QED BY <1>1, <1>2 DEF Carries

LEMMA DirMoveCarries ==
    ASSUME NEW o, NEW k \in DOMAIN DirMoveDefaults
    PROVE  Carries(DirMoveRequest(o), o[k])
<1>1. k \in {"driveID", "fileID", "toParentFileID", "checkNameMode"}
  BY DEF DirMoveDefaults
<1> DEFINE body == DirMoveRequest(o).body
<1>2. Holds(body, o.driveID) /\ Holds(body, o.fileID) /\ Holds(body, o.toParentFileID) /\ Holds(body, o.checkNameMode)
  BY PairsHold DEF DirMoveRequest, Post, Message, DriveAndFile
<1> QED BY <1>1, <1>2 DEF Carries

LEMMA DirHiddenCarries ==
    ASSUME NEW o, NEW k \in DOMAIN DirHiddenDefaults
    PROVE  Carries(DirHiddenRequest(o), o[k])
<1>1. k \in {"driveID", "fileID", "hidden"}
  BY DEF DirHiddenDefaults
<1> DEFINE body == DirHiddenRequest(o).body
<1>2. Holds(body, o.driveID) /\ Holds(body, o.fileID) /\ Holds(body, o.hidden)
  BY PairsHold DEF DirHiddenRequest, Post, Message, DriveAndFile
<1> QED BY <1>1, <1>2 DEF Carries

LEMMA FileCreateCarries ==
    ASSUME NEW o, NEW parts, NEW k \in DOMAIN FileCreateDefaults
    PROVE  Carries(FileCreateRequest(o, parts), o[k])
<1>1. k \in {"driveID", "parentFileID", "name", "fileID", "checkNameMode", "size", "preHash", "contentHash", "hidden", "userTags"}
  BY DEF FileCreateDefaults
<1> DEFINE hashName == Given("content_hash_name", IF o.contentHash = "" THEN "" ELSE "sha1")
           body == Always("drive_id", o.driveID) \cup Always("parent_file_id", o.parentFileID) \cup Always("name", o.name)
                   \cup Always("check_name_mode", o.checkNameMode) \cup Always("size", o.size) \cup Always("type", "file")
                   \cup Always("hidden", o.hidden) \cup Given("file_id", o.fileID) \cup Given("pre_hash", o.preHash)
                   \cup Given("content_hash", o.contentHash) \cup hashName
                   \cup Given("user_tags", o.userTags) \cup PartInfoList(parts)
           isValid == PartNumbersInRange(parts)
<1>2. FileCreateRequest(o, parts) = [Post("/v2/file/create", body) EXCEPT !.valid = isValid]
  BY DEF FileCreateRequest
<1> HIDE DEF hashName
<1>3. /\ Holds(body, o.driveID) /\ Holds(body, o.parentFileID) /\ Holds(body, o.name) /\ Holds(body, o.checkNameMode)
      /\ Holds(body, o.size) /\ Holds(body, o.hidden) /\ Holds(body, o.fileID) /\ Holds(body, o.preHash)
      /\ Holds(body, o.contentHash) /\ Holds(body, o.userTags)
  BY PairsHold
<1> HIDE DEF body, isValid
<1>4. FileCreateRequest(o, parts).body = body
  BY <1>2, BodyIs
<1> QED BY <1>1, <1>3, <1>4 DEF Carries

LEMMA FileGetUploadUrlCarries ==
    ASSUME NEW o, NEW parts, NEW k \in DOMAIN FileGetUploadUrlDefaults \ {"trafficLimit", "userAgent"}
    PROVE  Carries(FileGetUploadUrlRequest(o, parts), o[k])
<1>1. k \in {"driveID", "fileID", "uploadID"}
  BY DEF FileGetUploadUrlDefaults
<1> DEFINE body == DriveAndFile(o) \cup Always("upload_id", o.uploadID) \cup PartInfoList(parts)
           isValid == parts # <<>> /\ PartNumbersInRange(parts)
<1>2. FileGetUploadUrlRequest(o, parts) = [Post("/v2/file/get_upload_url", body) EXCEPT !.valid = isValid]
  BY DEF FileGetUploadUrlRequest
<1>3. Holds(body, o.driveID) /\ Holds(body, o.fileID) /\ Holds(body, o.uploadID)
  BY PairsHold DEF DriveAndFile
<1> HIDE DEF body, isValid
<1>4. FileGetUploadUrlRequest(o, parts).body = body
  BY <1>2, BodyIs
<1> QED BY <1>1, <1>3, <1>4 DEF Carries

LEMMA FileListUploadedPartsCarries ==
    ASSUME NEW o, NEW k \in DOMAIN FileListUploadedPartsDefaults
    PROVE  Carries(FileListUploadedPartsRequest(o), o[k])
<1>1. k \in {"driveID", "fileID", "uploadID", "marker", "limit"}
  BY DEF FileListUploadedPartsDefaults
<1> DEFINE body == FileListUploadedPartsRequest(o).body
<1>2. /\ Holds(body, o.driveID) /\ Holds(body, o.fileID) /\ Holds(body, o.uploadID) /\ Holds(body, o.marker)
      /\ Holds(body, o.limit)
  BY PairsHold DEF FileListUploadedPartsRequest, Post, Message, DriveAndFile
<1> QED BY <1>1, <1>2 DEF Carries

LEMMA FileCompleteCarries ==
    ASSUME NEW o, NEW k \in DOMAIN FileCompleteDefaults
    PROVE  Carries(FileCompleteRequest(o), o[k])
<1>1. k \in {"driveID", "fileID", "uploadID"}
  BY DEF FileCompleteDefaults
<1> DEFINE body == FileCompleteRequest(o).body
<1>2. Holds(body, o.driveID) /\ Holds(body, o.fileID) /\ Holds(body, o.uploadID)
  BY PairsHold DEF FileCompleteRequest, Post, Message, DriveAndFile
<1> QED BY <1>1, <1>2 DEF Carries

LEMMA FileGetDownloadUrlCarries ==
    ASSUME NEW o, NEW k \in DOMAIN FileGetDownloadUrlDefaults
    PROVE  Carries(FileGetDownloadUrlRequest(o), o[k])
<1>1. k \in {"driveID", "shareID", "fileID", "urlExpireSec", "shareToken"}
  BY DEF FileGetDownloadUrlDefaults
<1> DEFINE body == FileGetDownloadUrlRequest(o).body
<1>2. Holds(body, o.driveID) /\ Holds(body, o.shareID) /\ Holds(body, o.fileID) /\ Holds(body, o.urlExpireSec)
  BY PairsHold DEF FileGetDownloadUrlRequest, Message, DriveOrShare
<1>3. Carries(FileGetDownloadUrlRequest(o), o.shareToken)
  BY HeaderIsCarried DEF ShareHeader, FileGetDownloadUrlRequest, Message
<1> QED BY <1>1, <1>2, <1>3 DEF Carries

LEMMA FileGetCarries ==
    ASSUME NEW o, NEW k \in DOMAIN FileGetDefaults
    PROVE  Carries(FileGetRequest(o), o[k])
<1>1. k \in {"driveID", "shareID", "fileID", "urlExpireSec", "shareToken"}
  BY DEF FileGetDefaults
<1> DEFINE body == FileGetRequest(o).body
<1>2. Holds(body, o.driveID) /\ Holds(body, o.shareID) /\ Holds(body, o.fileID) /\ Holds(body, o.urlExpireSec)
  BY PairsHold DEF FileGetRequest, Message, DriveOrShare
<1>3. Carries(FileGetRequest(o), o.shareToken)
  BY HeaderIsCarried DEF ShareHeader, FileGetRequest, Message
<1> QED BY <1>1, <1>2, <1>3 DEF Carries

LEMMA FileRenameCarries ==
    ASSUME NEW o, NEW k \in DOMAIN FileRenameDefaults
    PROVE  Carries(FileRenameRequest(o), o[k])
<1>1. k \in {"driveID", "fileID", "name", "checkNameMode"}
  BY DEF FileRenameDefaults
<1> DEFINE body == FileRenameRequest(o).body
<1>2. Holds(body, o.driveID) /\ Holds(body, o.fileID) /\ Holds(body, o.name) /\ Holds(body, o.checkNameMode)
  BY PairsHold DEF FileRenameRequest, Post, Message, DriveAndFile
<1> QED BY <1>1, <1>2 DEF Carries

LEMMA FileTrashCarries ==
    ASSUME NEW o, NEW k \in DOMAIN FileTrashDefaults
    PROVE  Carries(FileTrashRequest(o), o[k])
<1>1. k \in {"driveID", "fileID"}
  BY DEF FileTrashDefaults
<1> DEFINE body == FileTrashRequest(o).body
<1>2. Holds(body, o.driveID) /\ Holds(body, o.fileID)
  BY PairsHold DEF FileTrashRequest, Post, Message, DriveAndFile
<1> QED BY <1>1, <1>2 DEF Carries

LEMMA FileDeleteCarries ==
    ASSUME NEW o, NEW k \in DOMAIN FileDeleteDefaults
    PROVE  Carries(FileDeleteRequest(o), o[k])
<1>1. k \in {"driveID", "fileID"}
  BY DEF FileDeleteDefaults
<1> DEFINE body == FileDeleteRequest(o).body
<1>2. Holds(body, o.driveID) /\ Holds(body, o.fileID)
  BY PairsHold DEF FileDeleteRequest, Post, Message, DriveAndFile
<1> QED BY <1>1, <1>2 DEF Carries

LEMMA FileGetVideoPreviewPlayInfoCarries ==
    ASSUME NEW o, NEW uninitialised, NEW k \in DOMAIN FileGetVideoPreviewPlayInfoDefaults
    PROVE  Carries(FileGetVideoPreviewPlayInfoRequest(o, uninitialised), o[k])
<1>1. k \in {"driveID", "shareID", "fileID", "category", "urlExpireSec", "templateID", "getWithoutUrl", "shareToken"}
  BY DEF FileGetVideoPreviewPlayInfoDefaults
<1> DEFINE getWithoutUrl == IF o.getWithoutUrl = "" THEN uninitialised ELSE o.getWithoutUrl
           body == DriveOrShare(o) \cup Always("category", o.category) \cup Given("url_expire_sec", o.urlExpireSec)
                   \cup Given("template_id", o.templateID) \cup Given("get_without_url", getWithoutUrl)
           m == FileGetVideoPreviewPlayInfoRequest(o, uninitialised)
<1>2. m = Message("/v2/file/get_video_preview_play_info", ShareHeader(o), body)
  BY DEF FileGetVideoPreviewPlayInfoRequest
<1>3. o.getWithoutUrl = "" \/ getWithoutUrl = o.getWithoutUrl
  OBVIOUS
<1> HIDE DEF getWithoutUrl, m
<1>4. /\ Holds(body, o.driveID) /\ Holds(body, o.shareID) /\ Holds(body, o.fileID) /\ Holds(body, o.category)
      /\ Holds(body, o.urlExpireSec) /\ Holds(body, o.templateID) /\ Holds(body, getWithoutUrl)
  BY PairsHold DEF DriveOrShare
<1>5. Holds(body, o.getWithoutUrl)
  BY <1>3, <1>4 DEF Holds, Plain
<1> HIDE DEF body
<1>6. m.body = body /\ m.headers = ShareHeader(o)
  BY <1>2 DEF Message
<1>7. Carries(m, o.shareToken)
  BY <1>6, HeaderIsCarried DEF ShareHeader
<1>8. Carries(m, o[k])
  BY <1>1, <1>4, <1>5, <1>6, <1>7 DEF Carries
<1> QED BY <1>8 DEF m

LEMMA FileCopyCarries ==
    ASSUME NEW o, NEW k \in DOMAIN FileCopyDefaults
    PROVE  Carries(FileCopyRequest(o), o[k])
<1>1. k \in {"driveID", "fileID", "toParentFileID", "autoRename"}
  BY DEF FileCopyDefaults
<1> DEFINE body == FileCopyRequest(o).body
<1>2. Holds(body, o.driveID) /\ Holds(body, o.fileID) /\ Holds(body, o.toParentFileID) /\ Holds(body, o.autoRename)
  BY PairsHold DEF FileCopyRequest, Post, Message, DriveAndFile
<1> QED BY <1>1, <1>2 DEF Carries

LEMMA FileMoveCarries ==
    ASSUME NEW o, NEW k \in DOMAIN FileMoveDefaults
    PROVE  Carries(FileMoveRequest(o), o[k])
<1>1. k \in {"driveID", "fileID", "toParentFileID", "checkNameMode"}
  BY DEF FileMoveDefaults
<1> DEFINE body == FileMoveRequest(o).body
<1>2. Holds(body, o.driveID) /\ Holds(body, o.fileID) /\ Holds(body, o.toParentFileID) /\ Holds(body, o.checkNameMode)
  BY PairsHold DEF FileMoveRequest, Post, Message, DriveAndFile
<1> QED BY <1>1, <1>2 DEF Carries

LEMMA FileHiddenCarries ==
    ASSUME NEW o, NEW k \in DOMAIN FileHiddenDefaults
    PROVE  Carries(FileHiddenRequest(o), o[k])
<1>1. k \in {"driveID", "fileID", "hidden"}
  BY DEF FileHiddenDefaults
<1> DEFINE body == FileHiddenRequest(o).body
<1>2. Holds(body, o.driveID) /\ Holds(body, o.fileID) /\ Holds(body, o.hidden)
  BY PairsHold DEF FileHiddenRequest, Post, Message, DriveAndFile
<1> QED BY <1>1, <1>2 DEF Carries

LEMMA AsyncTaskGetCarries ==
    ASSUME NEW o, NEW k \in DOMAIN AsyncTaskGetDefaults
    PROVE  Carries(AsyncTaskGetRequest(o), o[k])
<1>1. k \in {"asyncTaskID"}
  BY DEF AsyncTaskGetDefaults
<1> DEFINE body == AsyncTaskGetRequest(o).body
<1>2. Holds(body, o.asyncTaskID)
  BY PairsHold DEF AsyncTaskGetRequest, Post, Message
<1> QED BY <1>1, <1>2 DEF Carries

LEMMA MetaUserTagsPutCarries ==
    ASSUME NEW o, NEW k \in DOMAIN MetaUserTagsPutDefaults
    PROVE  Carries(MetaUserTagsPutRequest(o), o[k])
<1>1. k \in {"driveID", "fileID", "userTags"}
  BY DEF MetaUserTagsPutDefaults
<1> DEFINE body == MetaUserTagsPutRequest(o).body
<1>2. Holds(body, o.driveID) /\ Holds(body, o.fileID) /\ Holds(body, o.userTags)
  BY PairsHold DEF MetaUserTagsPutRequest, Post, Message, DriveAndFile
<1> QED BY <1>1, <1>2 DEF Carries

LEMMA MetaUserTagsDeleteCarries ==
    ASSUME NEW o, NEW k \in DOMAIN MetaUserTagsDeleteDefaults
    PROVE  Carries(MetaUserTagsDeleteRequest(o), o[k])
<1>1. k \in {"driveID", "fileID", "keyList"}
  BY DEF MetaUserTagsDeleteDefaults
<1> DEFINE body == MetaUserTagsDeleteRequest(o).body
<1>2. Holds(body, o.driveID) /\ Holds(body, o.fileID) /\ Holds(body, o.keyList)
  BY PairsHold DEF MetaUserTagsDeleteRequest, Post, Message, DriveAndFile
<1> QED BY <1>1, <1>2 DEF Carries

LEMMA DataGetByUrlCarries ==
    ASSUME NEW o, NEW range, NEW k \in DOMAIN DataGetByUrlDefaults \ {"metaData", "userAgent"}
    PROVE  Carries(DataGetByUrlRequest(o, range), o[k])
<1>1. k \in {"url", "trafficLimit"}
  BY DEF DataGetByUrlDefaults
<1> DEFINE headers == RangeHeader(range) \cup Given("x-oss-traffic-limit", o.trafficLimit) \cup Given("User-Agent", o.userAgent)
           m == DataGetByUrlRequest(o, range)
<1>2. m = [Message(o.url, headers, NoPairs) EXCEPT !.valid = RangeIsValid(range)]
  BY DEF DataGetByUrlRequest
<1>3. Given("x-oss-traffic-limit", o.trafficLimit) \subseteq headers
  OBVIOUS
<1> HIDE DEF headers, m
<1>4. m.path = o.url /\ m.headers = headers
  BY <1>2 DEF Message
<1>5. Carries(m, o.url) /\ Carries(m, o.trafficLimit)
  BY <1>3, <1>4, HeaderIsCarried DEF Carries
<1> QED BY <1>1, <1>5 DEF m

LEMMA DataPutByUrlCarries ==
    ASSUME NEW o, NEW k \in DOMAIN DataPutByUrlDefaults \ {"metaData", "userAgent"}
    PROVE  Carries(DataPutByUrlRequest(o), o[k])
<1>1. k \in {"url", "contentLength", "trafficLimit"}
  BY DEF DataPutByUrlDefaults
<1> DEFINE headers == Always("Content-Type", "") \cup Given("Content-Length", o.contentLength)
                      \cup Given("x-oss-traffic-limit", o.trafficLimit) \cup Given("User-Agent", o.userAgent)
           m == DataPutByUrlRequest(o)
<1>2. m = Message(o.url, headers, NoPairs)
  BY DEF DataPutByUrlRequest
<1>3. Given("x-oss-traffic-limit", o.trafficLimit) \subseteq headers /\ Given("Content-Length", o.contentLength) \subseteq headers
  OBVIOUS
<1> HIDE DEF headers, m
<1>4. m.path = o.url /\ m.headers = headers
  BY <1>2 DEF Message
<1>5. Carries(m, o.url) /\ Carries(m, o.trafficLimit) /\ Carries(m, o.contentLength)
  BY <1>3, <1>4, HeaderIsCarried DEF Carries
<1> QED BY <1>1, <1>5 DEF m

LEMMA DirRequestCarries ==
    ASSUME NEW op \in DirOperations, NEW o, NEW k \in DOMAIN DirDefaults(op)
    PROVE  Carries(DirRequest(op, o), o[k])
<1>1. CASE op = "DirCreate"
  BY <1>1, DirCreateCarries DEF DirDefaults, DirRequest
<1>2. CASE op = "DirList"
  BY <1>2, DirListCarries DEF DirDefaults, DirRequest
<1>3. CASE op = "DirSearch"
  BY <1>3, DirSearchCarries DEF DirDefaults, DirRequest
<1>4. CASE op = "DirRename"
  BY <1>4, DirRenameCarries DEF DirDefaults, DirRequest
<1>5. CASE op = "DirTrash"
  BY <1>5, DirTrashCarries DEF DirDefaults, DirRequest
<1>6. CASE op = "DirDelete"
  BY <1>6, DirDeleteCarries DEF DirDefaults, DirRequest
<1>7. CASE op = "DirCopy"
  BY <1>7, DirCopyCarries DEF DirDefaults, DirRequest
<1>8. CASE op = "DirMove"
  BY <1>8, DirMoveCarries DEF DirDefaults, DirRequest
<1>9. CASE op = "DirHidden"
  BY <1>9, DirHiddenCarries DEF DirDefaults, DirRequest
<1> QED BY <1>1, <1>2, <1>3, <1>4, <1>5, <1>6, <1>7, <1>8, <1>9 DEF DirOperations

LEMMA FileRequestCarries ==
    ASSUME NEW op \in FileOperations, NEW o, NEW parts, NEW x, NEW k \in DOMAIN FileDefaults(op) \ LostOptions(op)
    PROVE  Carries(FileRequest(op, o, parts, x), o[k])
<1>1. CASE op = "FileCreate"
  BY <1>1, FileCreateCarries DEF FileDefaults, FileRequest
<1>2. CASE op = "FileGetUploadUrl"
  BY <1>2, FileGetUploadUrlCarries DEF FileDefaults, FileRequest, LostOptions, DataOperations
<1>3. CASE op = "FileListUploadedParts"
  BY <1>3, FileListUploadedPartsCarries DEF FileDefaults, FileRequest
<1>4. CASE op = "FileComplete"
  BY <1>4, FileCompleteCarries DEF FileDefaults, FileRequest
<1>5. CASE op = "FileGetDownloadUrl"
  BY <1>5, FileGetDownloadUrlCarries DEF FileDefaults, FileRequest
<1>6. CASE op = "FileGet"
  BY <1>6, FileGetCarries DEF FileDefaults, FileRequest
<1>7. CASE op = "FileRename"
  BY <1>7, FileRenameCarries DEF FileDefaults, FileRequest
<1>8. CASE op = "FileTrash"
  BY <1>8, FileTrashCarries DEF FileDefaults, FileRequest
<1>9. CASE op = "FileDelete"
  BY <1>9, FileDeleteCarries DEF FileDefaults, FileRequest
<1>10. CASE op = "FileGetVideoPreviewPlayInfo"
  BY <1>10, FileGetVideoPreviewPlayInfoCarries DEF FileDefaults, FileRequest
<1>11. CASE op = "FileCopy"
  BY <1>11, FileCopyCarries DEF FileDefaults, FileRequest
<1>12. CASE op = "FileMove"
  BY <1>12, FileMoveCarries DEF FileDefaults, FileRequest
<1>13. CASE op = "FileHidden"
  BY <1>13, FileHiddenCarries DEF FileDefaults, FileRequest
<1> QED BY <1>1, <1>2, <1>3, <1>4, <1>5, <1>6, <1>7, <1>8, <1>9, <1>10, <1>11, <1>12, <1>13 DEF FileOperations

LEMMA RequestsCarry ==
    ASSUME NEW c \in Operations, NEW m \in Requests(c), NEW k \in DOMAIN c.options \ LostOptions(c.op)
    PROVE  Carries(m, c.options[k])
<1> DEFINE o == c.options
           op == c.op
<1>1. /\ op \in DirOperations \cup FileOperations \cup DataOperations \cup OtherOperations
      /\ DOMAIN o = DOMAIN Defaults(op)
  BY OperationsAssumption
<1>2. CASE op \in DirOperations
  <2>1. Requests(c) = {DirRequest(op, o)}
    BY <1>2 DEF Requests, DirOperations
  <2>2. Defaults(op) = DirDefaults(op)
    BY <1>2 DEF Defaults, FileOperations, DirOperations
  <2> QED BY <1>1, <1>2, <2>1, <2>2, DirRequestCarries
<1>3. CASE op \in FileOperations
  <2>1. Requests(c) = {FileRequest(op, o, c.parts, x) : x \in {"", "unwritten"}}
    BY <1>3 DEF Requests, FileOperations, DirOperations
  <2>2. Defaults(op) = FileDefaults(op)
    BY <1>3 DEF Defaults, FileOperations, DirOperations
  <2>3. PICK x \in {"", "unwritten"} : m = FileRequest(op, o, c.parts, x)
    BY <2>1
  <2>4. k \in DOMAIN FileDefaults(op) \ LostOptions(op)
    BY <1>1, <2>2, Zenon
  <2>5. Carries(FileRequest(op, o, c.parts, x), o[k])
    BY <1>3, <2>4, FileRequestCarries, Zenon
  <2> QED BY <2>3, <2>5
<1>4. CASE op = "AsyncTaskGet"
  <2>1. Requests(c) = {AsyncTaskGetRequest(o)} /\ Defaults(op) = AsyncTaskGetDefaults
    BY <1>4 DEF Requests, Defaults, FileOperations, DirOperations
  <2> QED BY <1>1, <2>1, AsyncTaskGetCarries
<1>5. CASE op = "MetaUserTagsPut"
  <2>1. Requests(c) = {MetaUserTagsPutRequest(o)} /\ Defaults(op) = MetaUserTagsPutDefaults
    BY <1>5 DEF Requests, Defaults, FileOperations, DirOperations
  <2> QED BY <1>1, <2>1, MetaUserTagsPutCarries
<1>6. CASE op = "MetaUserTagsDelete"
  <2>1. Requests(c) = {MetaUserTagsDeleteRequest(o)} /\ Defaults(op) = MetaUserTagsDeleteDefaults
    BY <1>6 DEF Requests, Defaults, FileOperations, DirOperations
  <2> QED BY <1>1, <2>1, MetaUserTagsDeleteCarries
<1>7. CASE op = "DataGetByUrl"
  <2>1. Requests(c) = {DataGetByUrlRequest(o, c.range)} /\ Defaults(op) = DataGetByUrlDefaults
    BY <1>7 DEF Requests, Defaults, FileOperations, DirOperations
  <2>2. LostOptions(op) = {"metaData", "userAgent"}
    BY <1>7 DEF LostOptions, DataOperations
  <2> QED BY <1>1, <2>1, <2>2, DataGetByUrlCarries
<1>8. CASE op = "DataPutByUrl"
  <2>1. Requests(c) = {DataPutByUrlRequest(o)} /\ Defaults(op) = DataPutByUrlDefaults
    BY <1>8 DEF Requests, Defaults, FileOperations, DirOperations
  <2>2. LostOptions(op) = {"metaData", "userAgent"}
    BY <1>8 DEF LostOptions, DataOperations
  <2> QED BY <1>1, <2>1, <2>2, DataPutByUrlCarries
<1> QED BY <1>1, <1>2, <1>3, <1>4, <1>5, <1>6, <1>7, <1>8 DEF DataOperations, OtherOperations

(* addHeaders keeps what the request carries. *)
LEMMA IsSent ==
    ASSUME NEW m, NEW v
    PROVE  /\ v = m.path => v \in Sent(m)
           /\ \A p \in m.headers \cup m.body : p[2] \in Sent(m)
BY DEF Sent

LEMMA CarriedIsSent ==
    ASSUME NEW c, NEW m, NEW isData, NEW v, Carries(m, v)
    PROVE  v \in {"", "0", "false"} \cup Sent(BuildHttpRequest(c, m, isData))
<1> DEFINE sent == BuildHttpRequest(c, m, isData)
<1>1. sent.path = m.path /\ sent.headers = AllHeaders(m.headers, isData) /\ sent.body = m.body
  BY DEF BuildHttpRequest
<1> HIDE DEF sent
<1>2. SUFFICES v \in Plain \/ v \in Sent(sent)
  BY DEF sent, Plain
<1>3. CASE v = m.path
  BY <1>1, <1>3, IsSent
<1>4. CASE Holds(m.body, v)
  <2>1. (\E p \in m.body : p[2] = v) => v \in Sent(sent)
    BY <1>1, IsSent
  <2> QED BY <1>4, <2>1 DEF Holds
<1>5. CASE \E h \in m.headers : h[1] \notin {"User-Agent", "Authorization"} /\ h[2] = v
  <2>1. PICK h \in m.headers : h[1] \notin {"User-Agent", "Authorization"} /\ h[2] = v
    BY <1>5
  <2>2. h \in AllHeaders(m.headers, isData)
    BY <2>1 DEF AllHeaders, Overwritten, Completed
  <2> QED BY <1>1, <2>1, <2>2, IsSent
<1> QED BY <1>3, <1>4, <1>5 DEF Carries

(* Once it is made the request of an operation stays as it is. *)
OptionsKept ==
    (Running /\ step = "Only")
        => \A k \in DOMAIN call.options \ LostOptions(call.op) : call.options[k] \in {"", "0", "false"} \cup Sent(message)

Stays == pc # "idle" /\ UNCHANGED <<call, step, message, configuration>>

LEMMA AttemptsStay == Attempt => Stays
<1>1. ASSUME NEW kind, NEW r, EndWith(kind, r) PROVE Stays
  BY <1>1 DEF EndWith, Stays, target, switch
<1>2. ASSUME NEW r, Carry(r) PROVE Stays
  BY <1>2 DEF Carry, Stays, target, switch
<1>3. AttemptDisabled \/ UrlMalformed => Stays
  BY DEF AttemptDisabled, UrlMalformed, Stays, target, switch
<1>4. Unsent \/ Busy \/ Refused => Stays
  BY <1>1 DEF Unsent, Busy, Refused
<1>5. Answered \/ AnswerLost \/ AnswerGarbled \/ Aborted => Stays
  BY <1>2 DEF Answered, AnswerLost, AnswerGarbled, Aborted
<1>6. DataAltered => Stays
  BY <1>2 DEF DataAltered
<1>7. DataCut => Stays
  BY <1>2 DEF DataCut
<1> QED BY <1>3, <1>4, <1>5, <1>6, <1>7 DEF Attempt

LEMMA OthersKeepOptions ==
    ASSUME [Next]_vars, ~CallOperation
    PROVE  pc' = "idle" \/ step' # "Only" \/ Stays
<1> DEFINE Ok == pc' = "idle" \/ step' # "Only" \/ Stays
<1>1. ASSUME NEW s, NEW m, Send(s, m), s # "Only" PROVE Ok
  BY <1>1 DEF Send, Begin
<1>2. ASSUME NEW r, Return(r) PROVE Ok
  BY <1>2 DEF Return
<1>3. MakeUploadRequest \/ ResumableFileDownload => Ok
  <2>1. MakeUploadRequest => step' # "Only"
    BY DEF MakeUploadRequest
  <2>2. ResumableFileDownload => Ok
    BY DEF ResumableFileDownload, Fail, Return, Begin
  <2> QED BY <2>1, <2>2
<1>4. Decide \/ WaitForRetry => Stays
  BY DEF Decide, WaitForRetry, Stays, target, request, switch
<1>5. ReturnOperation \/ Rename \/ Crash => Ok
  BY <1>2 DEF ReturnOperation, Rename, Crash, Fail
<1>6. ASSUME NEW code, Fail(code) PROVE Ok
  BY <1>2, <1>6 DEF Fail
<1>7. ASSUME NEW created, UploadData(created) PROVE Ok
  BY <1>1, <1>6, <1>7 DEF UploadData
<1>8. ResumableFileUpload => Ok
  BY <1>1, <1>6 DEF ResumableFileUpload
<1>9. AfterPreCheck \/ AfterRapid \/ AfterCreate => Ok
  BY <1>1, <1>2, <1>6, <1>7 DEF AfterPreCheck, AfterRapid, AfterCreate, FailWithReply
<1>10. AfterPut \/ AfterComplete => Ok
  BY <1>1, <1>2, <1>6 DEF AfterPut, AfterComplete, FailWithReply
<1>11. AfterGetUrl => Ok
  BY <1>1, <1>6 DEF AfterGetUrl, FailWithReply
<1>12. AfterGet => Ok
  <2>1. AfterGet => (\E code : Fail(code)) \/ (pc = "returned" /\ UNCHANGED <<request, target, switch>>)
    BY DEF AfterGet, Arrived
  <2> QED BY <1>6, <2>1 DEF Stays, request, target, switch
<1>13. DisableRequest \/ EnableRequest \/ AskToQuit \/ Edit \/ Modify => Ok
  BY DEF DisableRequest, EnableRequest, AskToQuit, Edit, Modify, Stays, request, target, switch
<1>14. UNCHANGED vars => Ok
  BY DEF vars, Stays, request, target, switch
<1> QED BY <1>3, <1>4, <1>5, <1>8, <1>9, <1>10, <1>11, <1>12, <1>13, <1>14, AttemptsStay DEF Next, Proceed

LEMMA OptionsKeptNext == ASSUME OptionsKept, [Next]_vars PROVE OptionsKept'
<1>1. CASE CallOperation
  <2>1. PICK c \in Operations :
            /\ call' = c
            /\ \E m \in Requests(call') : Begin(c, "Only", m, c.op \in DataOperations, c.op = "DataPutByUrl")
    BY <1>1 DEF CallOperation, Start
  <2>2. PICK m \in Requests(c) : Begin(c, "Only", m, c.op \in DataOperations, c.op = "DataPutByUrl")
    BY <2>1
  <2>3. message' = BuildHttpRequest(c, m, c.op \in DataOperations)
    BY <2>2 DEF Begin
  <2>4. ASSUME NEW k \in DOMAIN c.options \ LostOptions(c.op)
        PROVE  c.options[k] \in {"", "0", "false"} \cup Sent(message')
    <3>1. Carries(m, c.options[k])
      BY RequestsCarry
    <3> QED BY <2>3, <3>1, CarriedIsSent
  <2> QED BY <2>1, <2>4 DEF OptionsKept, Sent
<1>2. CASE ~CallOperation
  BY <1>2, OthersKeepOptions DEF OptionsKept, Stays, Running, Sent
<1> QED BY <1>1, <1>2

(* Everything a caller gives an operation, but for the options the code loses, is in every attempt to send its request. *)
THEOREM ClientOptionsAreSent == Spec => []OptionsAreSent
<1>1. Init => OptionsKept
  BY DEF Init, OptionsKept, Running
<1>2. OptionsKept /\ [Next]_vars => OptionsKept'
  BY OptionsKeptNext
<1>3. OptionsKept => OptionsAreSent
  BY DEF OptionsKept, OptionsAreSent, Running
<1> QED BY <1>1, <1>2, <1>3, PTL DEF Spec

-----------------------------------------------------------------------------
(* The url of a request: taking a text apart and putting it together.      *)

(* What has a least element; the first place of a piece is found with it. *)
LEMMA LeastIs ==
    ASSUME NEW S, S \subseteq Nat, S # {}
    PROVE  \E n \in S : \A m \in S : n <= m
<1> DEFINE R == OpToRel(<, Nat)
<1>1. IsWellFoundedOn(R, Nat)
  BY NatLessThanWellFounded
<1>2. \A x, y \in Nat : <<y, x>> \in R <=> y < x
  BY DEF OpToRel
<1> HIDE DEF R
<1>3. PICK n \in S : \A m \in S : ~(<<m, n>> \in R)
  BY <1>1, WFMin
<1>4. \A m \in S : ~(m < n)
  BY <1>2, <1>3
<1>5. \A m \in S : n <= m
  BY <1>4
<1> QED BY <1>5

(* Where a text is searched for one word. *)
LEMMA WordIsAt ==
    ASSUME NEW W, NEW t \in Seq(W), NEW w
    PROVE  \A i \in 1 .. Len(t) : IsAt(<<w>>, t, i) <=> t[i] = w
<1> TAKE i \in 1 .. Len(t)
<1>1. Len(<<w>>) = 1 /\ i + Len(<<w>>) - 1 = i
  OBVIOUS
<1>2. SubSeq(t, i, i) = <<t[i]>>
  <2>1. \A j \in i .. i : t[j] \in W
    OBVIOUS
  <2>2. SubSeq(t, i, i) \in Seq(W) /\ Len(SubSeq(t, i, i)) = 1 /\ SubSeq(t, i, i)[1] = t[i]
    BY <2>1, SubSeqProperties
  <2>3. <<t[i]>> \in Seq(W) /\ Len(<<t[i]>>) = 1 /\ <<t[i]>>[1] = t[i]
    OBVIOUS
  <2> DEFINE s == SubSeq(t, i, i)
             u == <<t[i]>>
  <2>4. s \in Seq(W) /\ u \in Seq(W) /\ Len(s) = 1 /\ Len(u) = 1 /\ s[1] = u[1]
    BY <2>2, <2>3
  <2> HIDE DEF s, u
  <2>5. Len(s) = Len(u) /\ \A j \in 1 .. Len(s) : s[j] = u[j]
    BY <2>4
  <2>6. s = u
    BY <2>4, <2>5, SeqEqual
  <2> QED BY <2>6 DEF s, u
<1>3. IsAt(<<w>>, t, i) <=> SubSeq(t, i, i) = <<w>>
  <2>1. i <= Len(t)
    BY LenProperties
  <2> DEFINE last == i + Len(<<w>>) - 1
  <2>2. IsAt(<<w>>, t, i) <=> last <= Len(t) /\ SubSeq(t, i, last) = <<w>>
    BY DEF IsAt
  <2>3. last = i
    BY <1>1
  <2> HIDE DEF last
  <2> QED BY <2>1, <2>2, <2>3
<1> QED BY <1>2, <1>3

(* The first place of a piece is found. *)
LEMMA PieceIsFound ==
    ASSUME NEW W, NEW t \in Seq(W), NEW piece
    PROVE  LET n == Find(piece, t)
           IN  /\ n \in 0 .. Len(t)
               /\ n = 0 => \A i \in 1 .. Len(t) : ~IsAt(piece, t, i)
               /\ n # 0 => IsAt(piece, t, n) /\ \A i \in 1 .. n - 1 : ~IsAt(piece, t, i)
<1> DEFINE places == {i \in 1 .. Len(t) : IsAt(piece, t, i)}
<1>1. DOMAIN t = 1 .. Len(t) /\ Len(t) \in Nat
  BY LenProperties
<1>2. CASE places = {}
  <2>1. \A i \in 1 .. Len(t) : ~IsAt(piece, t, i)
    BY <1>2
  <2>2. Find(piece, t) = 0
    BY <1>1, <2>1 DEF Find
  <2> QED BY <1>1, <2>1, <2>2
<1>3. CASE places # {}
  <2>1. places \subseteq Nat
    BY <1>1
  <2>2. PICK n \in places : \A m \in places : n <= m
    <3> HIDE DEF places
    <3> QED BY <1>3, <2>1, LeastIs
  <2>3. \A j \in 1 .. n - 1 : j \in 1 .. Len(t) /\ j \notin places
    BY <1>1, <2>2
  <2>4. \E i \in DOMAIN t : IsAt(piece, t, i) /\ \A j \in 1 .. i - 1 : ~IsAt(piece, t, j)
    BY <1>1, <2>2, <2>3
  <2> DEFINE f == Find(piece, t)
  <2>5. f = CHOOSE i \in DOMAIN t : IsAt(piece, t, i) /\ \A j \in 1 .. i - 1 : ~IsAt(piece, t, j)
    BY <2>4 DEF Find
  <2>6. f \in DOMAIN t /\ IsAt(piece, t, f) /\ \A j \in 1 .. f - 1 : ~IsAt(piece, t, j)
    BY <2>4, <2>5
  <2> HIDE DEF f
  <2>7. f \in 0 .. Len(t) /\ f # 0
    BY <1>1, <2>6
  <2> QED BY <2>6, <2>7 DEF f
<1> QED BY <1>2, <1>3

LEMMA WordIsFound ==
    ASSUME NEW W, NEW t \in Seq(W), NEW w
    PROVE  LET n == Find(<<w>>, t)
           IN  /\ n \in 0 .. Len(t)
               /\ n = 0 => \A i \in 1 .. Len(t) : t[i] # w
               /\ n # 0 => t[n] = w /\ \A i \in 1 .. n - 1 : t[i] # w
<1> DEFINE n == Find(<<w>>, t)
<1>1. /\ n \in 0 .. Len(t)
      /\ n = 0 => \A i \in 1 .. Len(t) : ~IsAt(<<w>>, t, i)
      /\ n # 0 => IsAt(<<w>>, t, n) /\ \A i \in 1 .. n - 1 : ~IsAt(<<w>>, t, i)
  BY PieceIsFound
<1>2. Len(t) \in Nat
  BY LenProperties
<1> HIDE DEF n
<1>3. n # 0 => n \in 1 .. Len(t) /\ \A i \in 1 .. n - 1 : i \in 1 .. Len(t)
  BY <1>1, <1>2
<1>4. n # 0 => t[n] = w /\ \A i \in 1 .. n - 1 : t[i] # w
  BY <1>1, <1>3, WordIsAt
<1>5. n = 0 => \A i \in 1 .. Len(t) : t[i] # w
  BY <1>1, WordIsAt
<1> QED BY <1>1, <1>4, <1>5 DEF n

Lacks(t, w) == \A i \in 1 .. Len(t) : t[i] # w

LEMMA WordSplits ==
    ASSUME NEW W, NEW w \in W, NEW t \in Seq(W)
    PROVE  /\ Before(<<w>>, t) \in Seq(W) /\ After(<<w>>, t) \in Seq(W)
           /\ Lacks(Before(<<w>>, t), w)
           /\ ~Has(<<w>>, t) => Before(<<w>>, t) = t /\ After(<<w>>, t) = <<>>
           /\ Has(<<w>>, t) => t = Before(<<w>>, t) \o (<<w>> \o After(<<w>>, t))
<1> DEFINE n == Find(<<w>>, t)
           b == SubSeq(t, 1, n - 1)
           a == SubSeq(t, n + 1, Len(t))
<1>1. DOMAIN t = 1 .. Len(t) /\ Len(t) \in Nat /\ \A i \in 1 .. Len(t) : t[i] \in W
  BY LenProperties
<1>2. /\ n \in 0 .. Len(t)
      /\ n = 0 => Lacks(t, w)
      /\ n # 0 => t[n] = w /\ \A i \in 1 .. n - 1 : t[i] # w
  BY WordIsFound DEF Lacks
<1>3. Has(<<w>>, t) <=> n # 0
  BY DEF Has
<1>4. Before(<<w>>, t) = IF n # 0 THEN b ELSE t
  BY <1>3 DEF Before
<1>5. After(<<w>>, t) = IF n # 0 THEN a ELSE <<>>
  BY <1>3 DEF After
<1> HIDE DEF n
<1>6. CASE n = 0
  <2>1. <<>> \in Seq(W)
    BY EmptySeq
  <2> QED BY <1>2, <1>3, <1>4, <1>5, <1>6, <2>1
<1>7. CASE n # 0
  <2>1. n \in 1 .. Len(t)
    BY <1>1, <1>2, <1>7
  <2>2. b \in Seq(W) /\ Len(b) = n - 1 /\ \A i \in 1 .. n - 1 : b[i] = t[i]
    <3>1. \A i \in 1 .. n - 1 : t[i] \in W
      BY <1>1, <2>1
    <3> QED BY <1>1, <2>1, <3>1, SubSeqProperties
  <2>3. a \in Seq(W) /\ Len(a) = Len(t) - n /\ \A i \in 1 .. Len(t) - n : a[i] = t[n + i]
    <3>1. \A i \in n + 1 .. Len(t) : t[i] \in W
      BY <1>1, <2>1
    <3>2. n + 1 \in Int /\ Len(t) \in Int
      BY <1>1, <2>1
    <3>3. /\ a \in Seq(W) /\ Len(a) = IF n + 1 <= Len(t) THEN Len(t) - (n + 1) + 1 ELSE 0
          /\ \A i \in 1 .. Len(t) - (n + 1) + 1 : a[i] = t[n + 1 + i - 1]
      BY <3>1, <3>2, SubSeqProperties
    <3> HIDE DEF a
    <3>4. ASSUME NEW i \in 1 .. Len(t) - n PROVE a[i] = t[n + i]
      <4>1. i \in 1 .. Len(t) - (n + 1) + 1 /\ n + 1 + i - 1 = n + i
        BY <1>1, <2>1
      <4> QED BY <3>3, <4>1
    <3>5. Len(a) = Len(t) - n
      <4>1. Len(a) = IF n + 1 <= Len(t) THEN Len(t) - (n + 1) + 1 ELSE 0
        BY <3>3
      <4> DEFINE whole == Len(t)
                 size  == Len(a)
      <4>2. n \in 1 .. whole /\ whole \in Nat
        BY <1>1, <2>1
      <4> HIDE DEF whole, size
      <4>3. size = whole - n
        BY <4>1, <4>2 DEF whole, size
      <4> QED BY <4>3 DEF whole, size
    <3>6. a \in Seq(W)
      BY <3>3
    <3> QED BY <3>4, <3>5, <3>6
  <2> HIDE DEF a, b
  <2> DEFINE c == <<w>> \o a
  <2>4. <<w>> \in Seq(W) /\ Len(<<w>>) = 1 /\ <<w>>[1] = w
    OBVIOUS
  <2>5. c \in Seq(W) /\ Len(c) = 1 + Len(a) /\ c[1] = w /\ \A i \in 2 .. 1 + Len(a) : c[i] = a[i - 1]
    <3>1. \A i \in 1 .. 1 + Len(a) : c[i] = IF i <= 1 THEN <<w>>[i] ELSE a[i - 1]
      BY <2>3, <2>4, ConcatProperties
    <3>2. c \in Seq(W) /\ Len(c) = 1 + Len(a)
      BY <2>3, <2>4, ConcatProperties
    <3> QED BY <1>1, <2>1, <2>3, <2>4, <3>1, <3>2
  <2> HIDE DEF c
  <2> DEFINE d == b \o c
  <2>6. d \in Seq(W) /\ Len(d) = Len(t) /\ \A i \in 1 .. Len(t) : d[i] = IF i <= n - 1 THEN b[i] ELSE c[i - (n - 1)]
    <3>1. /\ d \in Seq(W) /\ Len(d) = Len(b) + Len(c)
          /\ \A i \in 1 .. Len(b) + Len(c) : d[i] = IF i <= Len(b) THEN b[i] ELSE c[i - Len(b)]
      BY <2>2, <2>5, ConcatProperties
    <3> HIDE DEF d
    <3>2. Len(b) + Len(c) = Len(t)
      BY <1>1, <2>1, <2>2, <2>3, <2>5
    <3> QED BY <2>2, <3>1, <3>2
  <2> HIDE DEF d
  <2>7. ASSUME NEW i \in 1 .. Len(t) PROVE t[i] = d[i]
    <3>1. CASE i < n
      BY <1>1, <2>1, <2>2, <2>6, <3>1
    <3>2. CASE i = n
      BY <1>1, <1>2, <1>7, <2>1, <2>5, <2>6, <3>2
    <3>3. CASE i > n
      <4>1. d[i] = c[i - (n - 1)] /\ i - (n - 1) \in 2 .. 1 + Len(a)
        BY <1>1, <2>1, <2>3, <2>6, <3>3
      <4>2. c[i - (n - 1)] = a[i - n] /\ i - n \in 1 .. Len(t) - n
        BY <1>1, <2>1, <2>3, <2>5, <3>3, <4>1
      <4> QED BY <1>1, <2>1, <2>3, <4>1, <4>2
    <3> QED BY <1>1, <2>1, <3>1, <3>2, <3>3
  <2>8. t = d
    BY <2>6, <2>7, SeqEqual
  <2>9. Lacks(b, w)
    BY <1>2, <1>7, <2>2 DEF Lacks
  <2> QED BY <1>3, <1>4, <1>5, <1>7, <2>2, <2>3, <2>8, <2>9 DEF d, c
<1> QED BY <1>6, <1>7

(* The place of a word is the only one of its kind. *)
LEMMA SplitIsUnique ==
    ASSUME NEW W, NEW w \in W, NEW b \in Seq(W), Lacks(b, w)
    PROVE  /\ ~Has(<<w>>, b) /\ Before(<<w>>, b) = b /\ After(<<w>>, b) = <<>>
           /\ \A a \in Seq(W) : /\ Has(<<w>>, b \o (<<w>> \o a))
                                /\ Before(<<w>>, b \o (<<w>> \o a)) = b /\ After(<<w>>, b \o (<<w>> \o a)) = a
<1>1. Len(b) \in Nat /\ \A i \in 1 .. Len(b) : b[i] \in W
  BY LenProperties
<1>2. ~Has(<<w>>, b)
  <2>1. Find(<<w>>, b) \in 0 .. Len(b) /\ (Find(<<w>>, b) # 0 => b[Find(<<w>>, b)] = w)
    BY WordIsFound
  <2>2. Find(<<w>>, b) = 0
    BY <1>1, <2>1 DEF Lacks
  <2> QED BY <2>2 DEF Has
<1>3. ASSUME NEW a \in Seq(W)
      PROVE  LET t == b \o (<<w>> \o a) IN Has(<<w>>, t) /\ Before(<<w>>, t) = b /\ After(<<w>>, t) = a
  <2> DEFINE c == <<w>> \o a
             t == b \o c
  <2>1. Len(a) \in Nat /\ \A i \in 1 .. Len(a) : a[i] \in W
    BY LenProperties
  <2>2. <<w>> \in Seq(W) /\ Len(<<w>>) = 1 /\ <<w>>[1] = w
    OBVIOUS
  <2>3. c \in Seq(W) /\ Len(c) = 1 + Len(a) /\ \A i \in 1 .. 1 + Len(a) : c[i] = IF i <= 1 THEN <<w>>[i] ELSE a[i - 1]
    BY <2>2, ConcatProperties
  <2>4. c[1] = w /\ \A i \in 1 .. Len(a) : c[i + 1] = a[i]
    <3>1. 1 \in 1 .. 1 + Len(a) /\ \A i \in 1 .. Len(a) : i + 1 \in 1 .. 1 + Len(a) /\ ~(i + 1 <= 1) /\ i + 1 - 1 = i
      BY <2>1
    <3> QED BY <2>2, <2>3, <3>1
  <2> HIDE DEF c
  <2>5. t \in Seq(W) /\ Len(t) = Len(b) + 1 + Len(a)
        /\ \A i \in 1 .. Len(b) + Len(c) : t[i] = IF i <= Len(b) THEN b[i] ELSE c[i - Len(b)]
    <3>1. /\ t \in Seq(W) /\ Len(t) = Len(b) + Len(c)
          /\ \A i \in 1 .. Len(b) + Len(c) : t[i] = IF i <= Len(b) THEN b[i] ELSE c[i - Len(b)]
      BY <2>3, ConcatProperties
    <3> HIDE DEF t
    <3> QED BY <1>1, <2>1, <2>3, <3>1
  <2> HIDE DEF t
  <2> DEFINE m == Len(b) + 1
  <2>6. t[m] = w /\ (\A i \in 1 .. Len(b) : t[i] = b[i]) /\ \A i \in 1 .. Len(a) : t[m + i] = a[i]
    <3>1. t[m] = w
      BY <1>1, <2>1, <2>3, <2>4, <2>5
    <3>2. \A i \in 1 .. Len(b) : t[i] = b[i]
      BY <1>1, <2>1, <2>3, <2>5
    <3>3. ASSUME NEW i \in 1 .. Len(a) PROVE t[m + i] = a[i]
      <4>1. m + i \in 1 .. Len(b) + Len(c) /\ ~(m + i <= Len(b)) /\ m + i - Len(b) = i + 1
        BY <1>1, <2>1, <2>3
      <4>2. t[m + i] = c[i + 1]
        BY <2>5, <4>1
      <4> QED BY <2>4, <4>2
    <3> QED BY <3>1, <3>2, <3>3
  <2>7. Find(<<w>>, t) = m
    <3> DEFINE n == Find(<<w>>, t)
    <3>1. /\ n \in 0 .. Len(t) /\ (n = 0 => \A i \in 1 .. Len(t) : t[i] # w)
          /\ n # 0 => t[n] = w /\ \A i \in 1 .. n - 1 : t[i] # w
      BY <2>5, WordIsFound
    <3> HIDE DEF n
    <3>2. m \in 1 .. Len(t)
      BY <1>1, <2>1, <2>5
    <3>3. n # 0
      BY <2>6, <3>1, <3>2
    <3>4. ~(m < n)
      BY <1>1, <2>6, <3>1, <3>2, <3>3
    <3>5. ~(n < m)
      BY <1>1, <2>6, <3>1, <3>3 DEF Lacks
    <3>6. n = m
      BY <1>1, <3>1, <3>2, <3>4, <3>5
    <3> QED BY <3>6 DEF n
  <2>8. Has(<<w>>, t)
    BY <1>1, <2>7 DEF Has
  <2>9. Before(<<w>>, t) = SubSeq(t, 1, Len(b)) /\ After(<<w>>, t) = SubSeq(t, m + 1, Len(t))
    <3>1. m - 1 = Len(b) /\ m + Len(<<w>>) = m + 1
      BY <1>1, <2>2
    <3>2. Before(<<w>>, t) = SubSeq(t, 1, m - 1) /\ After(<<w>>, t) = SubSeq(t, m + Len(<<w>>), Len(t))
      BY <2>7, <2>8 DEF Before, After
    <3> HIDE DEF m
    <3> QED BY <3>1, <3>2
  <2>10. \A i \in 1 .. Len(t) : t[i] \in W
    BY <2>5, LenProperties
  <2>11. SubSeq(t, 1, Len(b)) = b
    <3> DEFINE s == SubSeq(t, 1, Len(b))
    <3>1. \A i \in 1 .. Len(b) : t[i] \in W
      BY <1>1, <2>6
    <3>2. s \in Seq(W) /\ Len(s) = Len(b) /\ \A i \in 1 .. Len(b) : s[i] = t[i]
      BY <1>1, <3>1, SubSeqProperties
    <3> HIDE DEF s
    <3>3. s = b
      BY <2>6, <3>2, SeqEqual
    <3> QED BY <3>3 DEF s
  <2>12. SubSeq(t, m + 1, Len(t)) = a
    <3> DEFINE s == SubSeq(t, m + 1, Len(t))
    <3>1. \A i \in m + 1 .. Len(t) : t[i] \in W
      BY <1>1, <2>10
    <3>2. s \in Seq(W) /\ Len(s) = Len(a) /\ \A i \in 1 .. Len(a) : s[i] = t[m + i]
      BY <1>1, <2>1, <2>5, <3>1, SubSeqProperties
    <3> HIDE DEF s
    <3>3. s = a
      BY <2>6, <3>2, SeqEqual
    <3> QED BY <3>3 DEF s
  <2>13. Has(<<w>>, t) /\ Before(<<w>>, t) = b /\ After(<<w>>, t) = a
    BY <2>8, <2>9, <2>11, <2>12
  <2> QED BY <2>13 DEF t, c
<1> QED BY <1>2, <1>3 DEF Before, After

(* The words of the model are strings too, but the provers do not know. *)
Words == STRING \cup Punctuation \cup {"http", "https", "host", "0", "443", "8443"}

LEMMA LowerOfWord ==
    ASSUME NEW w \in Words
    PROVE  /\ LowerWord(w) \in Words /\ LowerWord(LowerWord(w)) = LowerWord(w)
           /\ \A p \in Punctuation : LowerWord(p) = p /\ (LowerWord(w) = p <=> w = p)
BY DEF Words, LowerWord, Punctuation

LEMMA LowerIs ==
    ASSUME NEW t \in Seq(Words)
    PROVE  /\ Lower(t) \in Seq(Words) /\ Len(Lower(t)) = Len(t)
           /\ \A i \in 1 .. Len(t) : Lower(t)[i] = LowerWord(t[i])
           /\ Lower(Lower(t)) = Lower(t)
<1>1. DOMAIN t = 1 .. Len(t) /\ Len(t) \in Nat /\ \A i \in 1 .. Len(t) : t[i] \in Words
  BY LenProperties
<1>2. ASSUME NEW s \in Seq(Words)
      PROVE  /\ Lower(s) \in Seq(Words) /\ Len(Lower(s)) = Len(s)
             /\ \A i \in 1 .. Len(s) : Lower(s)[i] = LowerWord(s[i])
  <2>1. DOMAIN s = 1 .. Len(s) /\ Len(s) \in Nat /\ \A i \in 1 .. Len(s) : LowerWord(s[i]) \in Words
    BY LenProperties, LowerOfWord
  <2>2. Lower(s) = [i \in 1 .. Len(s) |-> LowerWord(s[i])]
    BY <2>1 DEF Lower
  <2>3. Lower(s) \in [1 .. Len(s) -> Words]
    BY <2>1, <2>2
  <2>4. Lower(s) \in Seq(Words) /\ Len(Lower(s)) = Len(s)
    BY <2>1, <2>3
  <2> QED BY <2>2, <2>4
<1> DEFINE l == Lower(t)
           m == Lower(l)
<1>3. l \in Seq(Words) /\ Len(l) = Len(t) /\ \A i \in 1 .. Len(t) : l[i] = LowerWord(t[i])
  BY <1>2
<1> HIDE DEF l
<1>4. m \in Seq(Words) /\ Len(m) = Len(t) /\ \A i \in 1 .. Len(t) : m[i] = LowerWord(l[i])
  BY <1>2, <1>3
<1> HIDE DEF m
<1>5. \A i \in 1 .. Len(t) : m[i] = l[i]
  BY <1>1, <1>3, <1>4, LowerOfWord
<1>6. m = l
  BY <1>3, <1>4, <1>5, SeqEqual
<1> QED BY <1>3, <1>6 DEF l, m

LEMMA LowerOfNone == Lower(<<>>) = <<>>
<1>1. <<>> \in Seq(Words) /\ Len(<<>>) = 0
  BY EmptySeq
<1>2. Lower(<<>>) \in Seq(Words) /\ Len(Lower(<<>>)) = 0
  BY <1>1, LowerIs
<1> QED BY <1>2, EmptySeq

LEMMA LowerOfConcat ==
    ASSUME NEW s \in Seq(Words), NEW t \in Seq(Words)
    PROVE  Lower(s \o t) = Lower(s) \o Lower(t)
<1> DEFINE c == s \o t
           l == Lower(c)
           ls == Lower(s)
           lt == Lower(t)
           d == ls \o lt
<1>1. Len(s) \in Nat /\ Len(t) \in Nat
  BY LenProperties
<1>2. c \in Seq(Words) /\ Len(c) = Len(s) + Len(t) /\ \A i \in 1 .. Len(s) + Len(t) : c[i] = IF i <= Len(s) THEN s[i] ELSE t[i - Len(s)]
  BY ConcatProperties
<1> HIDE DEF c
<1>3. /\ l \in Seq(Words) /\ Len(l) = Len(c) /\ \A i \in 1 .. Len(c) : l[i] = LowerWord(c[i])
      /\ ls \in Seq(Words) /\ Len(ls) = Len(s) /\ \A i \in 1 .. Len(s) : ls[i] = LowerWord(s[i])
      /\ lt \in Seq(Words) /\ Len(lt) = Len(t) /\ \A i \in 1 .. Len(t) : lt[i] = LowerWord(t[i])
  BY <1>2, LowerIs
<1> HIDE DEF l, ls, lt
<1>4. d \in Seq(Words) /\ Len(d) = Len(ls) + Len(lt) /\ \A i \in 1 .. Len(ls) + Len(lt) : d[i] = IF i <= Len(ls) THEN ls[i] ELSE lt[i - Len(ls)]
  <2>1. ls \in Seq(Words) /\ lt \in Seq(Words)
    BY <1>3
  <2> QED BY <2>1, ConcatProperties
<1> HIDE DEF d
<1>5. ASSUME NEW i \in 1 .. Len(l) PROVE l[i] = d[i]
  <2>1. CASE i <= Len(s)
    BY <1>1, <1>2, <1>3, <1>4, <2>1
  <2>2. CASE i > Len(s)
    <3>1. i - Len(s) \in 1 .. Len(t) /\ ~(i <= Len(s)) /\ i \in 1 .. Len(c)
      BY <1>1, <1>2, <1>3, <2>2
    <3> QED BY <1>1, <1>2, <1>3, <1>4, <3>1
  <2> QED BY <1>1, <1>2, <1>3, <2>1, <2>2
<1>6. l = d
  BY <1>2, <1>3, <1>4, <1>5, SeqEqual
<1> QED BY <1>6 DEF c, l, ls, lt, d

LEMMA LowerOfOne == ASSUME NEW w \in Words PROVE Lower(<<w>>) = <<LowerWord(w)>>
<1> DEFINE one == <<w>>
           l == Lower(one)
           s == <<LowerWord(w)>>
<1>1. Len(one) = 1 /\ one \in Seq(Words) /\ one[1] = w
  OBVIOUS
<1> HIDE DEF one
<1>2. l \in Seq(Words) /\ Len(l) = 1 /\ l[1] = LowerWord(w)
  BY <1>1, LowerIs
<1> HIDE DEF l
<1>3. s \in Seq(Words) /\ Len(s) = 1 /\ s[1] = LowerWord(w)
  BY LowerOfWord
<1> HIDE DEF s
<1>4. l = s
  BY <1>2, <1>3, SeqEqual
<1> QED BY <1>4 DEF l, s, one

LEMMA LowerLacks ==
    ASSUME NEW t \in Seq(Words), NEW p \in Punctuation, Lacks(t, p)
    PROVE  Lacks(Lower(t), p)
BY LowerIs, LowerOfWord, LenProperties DEF Lacks

LEMMA PunctuationIs == Punctuation \subseteq Words /\ \A p \in Punctuation : Lower(<<p>>) = <<p>>
BY LowerOfOne, LowerOfWord DEF Words

(* Where a text is cut does not depend on the case of its words. *)
LEMMA LowerSplits ==
    ASSUME NEW t \in Seq(Words), NEW p \in Punctuation
    PROVE  /\ Has(<<p>>, Lower(t)) <=> Has(<<p>>, t)
           /\ Before(<<p>>, Lower(t)) = Lower(Before(<<p>>, t))
           /\ After(<<p>>, Lower(t)) = Lower(After(<<p>>, t))
<1> DEFINE b == Before(<<p>>, t)
           a == After(<<p>>, t)
<1>1. p \in Words /\ Lower(<<p>>) = <<p>> /\ <<p>> \in Seq(Words)
  BY PunctuationIs
<1>2. /\ b \in Seq(Words) /\ a \in Seq(Words) /\ Lacks(b, p)
      /\ ~Has(<<p>>, t) => b = t /\ a = <<>>
      /\ Has(<<p>>, t) => t = b \o (<<p>> \o a)
  BY <1>1, WordSplits
<1>3. Lower(b) \in Seq(Words) /\ Lower(a) \in Seq(Words) /\ Lacks(Lower(b), p)
  BY <1>2, LowerIs, LowerLacks
<1>4. /\ ~Has(<<p>>, Lower(b)) /\ Before(<<p>>, Lower(b)) = Lower(b) /\ After(<<p>>, Lower(b)) = <<>>
      /\ LET s == Lower(b) \o (<<p>> \o Lower(a)) IN Has(<<p>>, s) /\ Before(<<p>>, s) = Lower(b) /\ After(<<p>>, s) = Lower(a)
  BY <1>1, <1>3, SplitIsUnique
<1> HIDE DEF a, b
<1>5. CASE ~Has(<<p>>, t)
  BY <1>2, <1>4, <1>5, LowerOfNone DEF a, b
<1>6. CASE Has(<<p>>, t)
  <2>1. <<p>> \o a \in Seq(Words)
    BY <1>1, <1>2, ConcatProperties
  <2>2. Lower(b \o (<<p>> \o a)) = Lower(b) \o (<<p>> \o Lower(a))
    BY <1>1, <1>2, <2>1, LowerOfConcat
  <2> QED BY <1>2, <1>4, <1>6, <2>2 DEF a, b
<1> QED BY <1>5, <1>6

LEMMA EndsOfConcat ==
    ASSUME NEW W, NEW s \in Seq(W), NEW t \in Seq(W)
    PROVE  /\ s \o t \in Seq(W) /\ Len(s) \in Nat /\ Len(t) \in Nat /\ Len(s \o t) = Len(s) + Len(t)
           /\ \A i \in 1 .. Len(s) : (s \o t)[i] = s[i]
           /\ \A i \in 1 .. Len(t) : (s \o t)[Len(s) + i] = t[i]
<1>1. Len(s) \in Nat /\ Len(t) \in Nat
  BY LenProperties
<1> DEFINE c == s \o t
<1>2. c \in Seq(W) /\ Len(c) = Len(s) + Len(t) /\ \A i \in 1 .. Len(s) + Len(t) : c[i] = IF i <= Len(s) THEN s[i] ELSE t[i - Len(s)]
  BY ConcatProperties
<1> HIDE DEF c
<1>3. \A i \in 1 .. Len(s) : c[i] = s[i]
  BY <1>1, <1>2
<1>4. ASSUME NEW i \in 1 .. Len(t) PROVE c[Len(s) + i] = t[i]
  <2>1. Len(s) + i \in 1 .. Len(s) + Len(t) /\ ~(Len(s) + i <= Len(s)) /\ Len(s) + i - Len(s) = i
    BY <1>1
  <2> QED BY <1>2, <2>1
<1> QED BY <1>1, <1>2, <1>3, <1>4 DEF c

LEMMA OneIs == ASSUME NEW W, NEW w \in W PROVE <<w>> \in Seq(W) /\ Len(<<w>>) = 1 /\ <<w>>[1] = w /\ <<w>> # <<>>
OBVIOUS

LEMMA NotEmpty == ASSUME NEW W, NEW s \in Seq(W) PROVE s # <<>> <=> Len(s) > 0
BY EmptySeq, LenProperties

LEMMA NothingInNone ==
    ASSUME NEW W, NEW w \in W
    PROVE  ~Has(<<w>>, <<>>) /\ Before(<<w>>, <<>>) = <<>> /\ After(<<w>>, <<>>) = <<>>
<1> DEFINE none == <<>>
<1>1. none \in Seq(W) /\ Lacks(none, w)
  BY EmptySeq DEF Lacks
<1> HIDE DEF none
<1>2. ~Has(<<w>>, none) /\ Before(<<w>>, none) = none /\ After(<<w>>, none) = <<>>
  BY <1>1, SplitIsUnique
<1> QED BY <1>2 DEF none

(* userinfo and host:port come out as they went in. *)
LEMMA UserInfoIsKept ==
    ASSUME NEW info \in Seq(Words), info # <<>>, ":" \notin {info[1], info[Len(info)]}
    PROVE  /\ Before(<<":">>, info) # <<>>
           /\ Before(<<":">>, info) \o Led(<<":">>, After(<<":">>, info)) = info
<1> DEFINE b == Before(<<":">>, info)
           a == After(<<":">>, info)
           c == <<":">> \o a
<1>1. ":" \in Words
  BY PunctuationIs DEF Punctuation
<1>2. /\ b \in Seq(Words) /\ a \in Seq(Words)
      /\ ~Has(<<":">>, info) => b = info /\ a = <<>>
      /\ Has(<<":">>, info) => info = b \o c
  BY <1>1, WordSplits
<1> HIDE DEF a, b
<1>3. CASE ~Has(<<":">>, info)
  <2>1. Led(<<":">>, a) = <<>>
    BY <1>2, <1>3 DEF Led
  <2>2. b \o <<>> = b
    BY <1>2, ConcatEmptySeq
  <2> QED BY <1>2, <1>3, <2>1, <2>2 DEF a, b
<1>4. CASE Has(<<":">>, info)
  <2>1. <<":">> \in Seq(Words) /\ Len(<<":">>) = 1 /\ <<":">>[1] = ":"
    BY <1>1, OneIs
  <2>2. c \in Seq(Words) /\ Len(c) = 1 + Len(a) /\ c[1] = ":" /\ Len(a) \in Nat
    BY <1>2, <2>1, EndsOfConcat
  <2> HIDE DEF c
  <2>3. /\ Len(b) \in Nat /\ Len(info) = Len(b) + Len(c)
        /\ \A i \in 1 .. Len(c) : info[Len(b) + i] = c[i]
    <3>1. /\ Len(b) \in Nat /\ Len(b \o c) = Len(b) + Len(c)
          /\ \A i \in 1 .. Len(c) : (b \o c)[Len(b) + i] = c[i]
      <4>1. b \in Seq(Words) /\ c \in Seq(Words)
        BY <1>2, <2>2
      <4> QED BY <4>1, EndsOfConcat
    <3> QED BY <1>2, <1>4, <3>1 DEF c
  <2>4. info[Len(b) + 1] = ":"
    BY <2>2, <2>3
  <2>5. Len(b) # 0
    BY <2>4
  <2>6. Len(a) # 0
    BY <2>2, <2>3, <2>4
  <2>7. a # <<>> /\ b # <<>>
    BY <1>2, <2>5, <2>6, NotEmpty
  <2>8. Led(<<":">>, a) = c
    BY <2>7 DEF Led, c
  <2> QED BY <1>2, <1>4, <2>7, <2>8 DEF a, b
<1> QED BY <1>3, <1>4

LEMMA DecimalIsLower ==
    ASSUME NEW port \in Seq(Words), port = Decimal(port)
    PROVE  Lower(port) = port
<1>1. port = <<"0">> \/ port = <<"443">> \/ port = <<"8443">>
  BY DEF Decimal
<1>2. \A w \in {"0", "443", "8443"} : w \in Words /\ LowerWord(w) = w
  BY DEF Words, LowerWord
<1>3. \A w \in {"0", "443", "8443"} : Lower(<<w>>) = <<w>>
  BY <1>2, LowerOfOne
<1> QED BY <1>1, <1>3

LEMMA AddressIsKept ==
    ASSUME NEW address \in Seq(Words), Before(<<":">>, address) # <<>>,
           Has(<<":">>, address) => After(<<":">>, address) # <<>> /\ After(<<":">>, address) = Decimal(After(<<":">>, address))
    PROVE  LET port == After(<<":">>, address)
               host == Lower(Before(<<":">>, address))
           IN  /\ host \in Seq(Words) /\ host # <<>>
               /\ Led(<<":">>, IF port = <<>> THEN <<>> ELSE Decimal(port)) \in Seq(Words)
               /\ host \o Led(<<":">>, IF port = <<>> THEN <<>> ELSE Decimal(port)) = Lower(address)
<1> DEFINE b == Before(<<":">>, address)
           a == After(<<":">>, address)
           port == IF a = <<>> THEN <<>> ELSE Decimal(a)
<1>1. ":" \in Words /\ <<":">> \in Seq(Words) /\ Lower(<<":">>) = <<":">>
  BY PunctuationIs, OneIs DEF Punctuation
<1>2. /\ b \in Seq(Words) /\ a \in Seq(Words)
      /\ ~Has(<<":">>, address) => b = address /\ a = <<>>
      /\ Has(<<":">>, address) => address = b \o (<<":">> \o a)
  BY <1>1, WordSplits
<1>3. Lower(b) \in Seq(Words) /\ Len(Lower(b)) = Len(b)
  BY <1>2, LowerIs
<1>4. Lower(b) # <<>>
  BY <1>2, <1>3, NotEmpty
<1> HIDE DEF a, b
<1>5. CASE ~Has(<<":">>, address)
  <2>1. Led(<<":">>, port) = <<>>
    BY <1>2, <1>5 DEF Led
  <2>2. Lower(b) \o <<>> = Lower(b) /\ <<>> \in Seq(Words)
    BY <1>3, ConcatEmptySeq, EmptySeq
  <2>3. Lower(b) \o Led(<<":">>, port) = Lower(address) /\ Led(<<":">>, port) \in Seq(Words)
    BY <1>2, <1>5, <2>1, <2>2
  <2> QED BY <1>3, <1>4, <2>3 DEF a, b
<1>6. CASE Has(<<":">>, address)
  <2>1. a # <<>> /\ a = Decimal(a)
    BY <1>6 DEF a
  <2>2. Lower(a) = a
    BY <1>2, <2>1, DecimalIsLower
  <2> DEFINE c == <<":">> \o a
  <2>3. c \in Seq(Words) /\ Lower(c) = c
    <3>1. c \in Seq(Words) /\ Lower(c) = Lower(<<":">>) \o Lower(a)
      BY <1>1, <1>2, ConcatProperties, LowerOfConcat
    <3> QED BY <1>1, <2>2, <3>1
  <2>4. Lower(address) = Lower(b) \o Lower(c)
    BY <1>2, <1>6, <2>3, LowerOfConcat
  <2>5. Led(<<":">>, port) = c
    BY <2>1 DEF Led
  <2>6. Lower(b) \o Led(<<":">>, port) = Lower(address) /\ Led(<<":">>, port) \in Seq(Words)
    BY <2>3, <2>4, <2>5
  <2> QED BY <1>3, <1>4, <2>6 DEF a, b
<1> QED BY <1>5, <1>6

LEMMA AuthorityIsKept ==
    ASSUME NEW authority \in Seq(Words), IsPlain(authority), NEW url, url.authority = SetAuthority(authority)
    PROVE  Authority(url) = Lower(authority) /\ IsValid(url)
<1> DEFINE userInfo == IF Has(<<"@">>, authority) THEN Before(<<"@">>, authority) ELSE <<>>
           address  == IF Has(<<"@">>, authority) THEN After(<<"@">>, authority) ELSE authority
           port     == After(<<":">>, address)
           number   == IF port = <<>> THEN <<>> ELSE Decimal(port)
           host     == Lower(Before(<<":">>, address))
           user     == Before(<<":">>, userInfo)
           password == After(<<":">>, userInfo)
<1>1. ":" \in Words /\ "@" \in Words /\ <<"@">> \in Seq(Words) /\ Lower(<<"@">>) = <<"@">>
  BY PunctuationIs, OneIs DEF Punctuation
<1>2. url.authority.userName = user /\ url.authority.password = password /\ url.authority.host = host /\ url.authority.port = number
  BY DEF SetAuthority
<1>3. /\ Has(<<"@">>, authority) =>
              userInfo # <<>> /\ ":" \notin {userInfo[1], userInfo[Len(userInfo)]} /\ Lower(userInfo) = userInfo
      /\ Before(<<":">>, address) # <<>>
      /\ Has(<<":">>, address) => port # <<>> /\ port = Decimal(port)
  BY DEF IsPlain
<1>4. /\ userInfo \in Seq(Words) /\ address \in Seq(Words)
      /\ ~Has(<<"@">>, authority) => address = authority /\ userInfo = <<>>
      /\ Has(<<"@">>, authority) => authority = userInfo \o (<<"@">> \o address)
  BY <1>1, WordSplits, EmptySeq
<1> HIDE DEF userInfo, address
<1>5. host \in Seq(Words) /\ host # <<>> /\ Led(<<":">>, number) \in Seq(Words) /\ host \o Led(<<":">>, number) = Lower(address)
  BY <1>3, <1>4, AddressIsKept
<1>6. Authority(url) = (Ended(user \o Led(<<":">>, password), <<"@">>) \o host) \o Led(<<":">>, number)
  BY <1>2 DEF Authority
<1>7. IsValid(url) <=> (user = <<>> => password = <<>>)
  BY <1>2, <1>5 DEF IsValid
<1> HIDE DEF host, number, port
<1>8. CASE ~Has(<<"@">>, authority)
  <2>1. user = <<>> /\ password = <<>>
    BY <1>1, <1>4, <1>8, NothingInNone
  <2>2. user \o Led(<<":">>, password) = <<>>
    <3>1. Led(<<":">>, password) = <<>>
      BY <2>1 DEF Led
    <3>2. <<>> \o <<>> = <<>>
      BY EmptySeq, ConcatEmptySeq
    <3> QED BY <2>1, <3>1, <3>2
  <2>3. Ended(user \o Led(<<":">>, password), <<"@">>) = <<>>
    BY <2>2 DEF Ended
  <2>4. <<>> \o host = host
    BY <1>5, ConcatEmptySeq
  <2> QED BY <1>4, <1>5, <1>6, <1>7, <1>8, <2>1, <2>3, <2>4
<1>9. CASE Has(<<"@">>, authority)
  <2>1. user # <<>> /\ user \o Led(<<":">>, password) = userInfo
    BY <1>3, <1>4, <1>9, UserInfoIsKept
  <2>2. Ended(user \o Led(<<":">>, password), <<"@">>) = userInfo \o <<"@">>
    BY <1>3, <1>9, <2>1 DEF Ended
  <2>3. ((userInfo \o <<"@">>) \o host) \o Led(<<":">>, number) = userInfo \o (<<"@">> \o Lower(address))
    <3>1. userInfo \o <<"@">> \in Seq(Words)
      BY <1>1, <1>4, ConcatProperties
    <3>2. ((userInfo \o <<"@">>) \o host) \o Led(<<":">>, number) = (userInfo \o <<"@">>) \o (host \o Led(<<":">>, number))
      <4>1. host \in Seq(Words) /\ Led(<<":">>, number) \in Seq(Words)
        BY <1>5
      <4> QED BY <3>1, <4>1, ConcatAssociative
    <3>3. Lower(address) \in Seq(Words)
      BY <1>4, LowerIs
    <3>4. (userInfo \o <<"@">>) \o Lower(address) = userInfo \o (<<"@">> \o Lower(address))
      BY <1>1, <1>4, <3>3, ConcatAssociative
    <3> QED BY <1>5, <3>2, <3>4
  <2>4. Lower(authority) = userInfo \o (<<"@">> \o Lower(address))
    <3>1. <<"@">> \o address \in Seq(Words) /\ Lower(<<"@">> \o address) = <<"@">> \o Lower(address)
      BY <1>1, <1>4, ConcatProperties, LowerOfConcat
    <3>2. Lower(userInfo \o (<<"@">> \o address)) = Lower(userInfo) \o Lower(<<"@">> \o address)
      BY <1>4, <3>1, LowerOfConcat
    <3> QED BY <1>3, <1>4, <1>9, <3>1, <3>2
  <2> QED BY <1>6, <1>7, <2>1, <2>2, <2>3, <2>4
<1> QED BY <1>8, <1>9

LEMMA LowerIsPlain ==
    ASSUME NEW authority \in Seq(Words), IsPlain(authority)
    PROVE  IsPlain(Lower(authority)) /\ authority # <<>>
<1> DEFINE userInfo == IF Has(<<"@">>, authority) THEN Before(<<"@">>, authority) ELSE <<>>
           address  == IF Has(<<"@">>, authority) THEN After(<<"@">>, authority) ELSE authority
           port     == After(<<":">>, address)
           lower    == Lower(authority)
<1>1. ":" \in Words /\ "@" \in Words /\ ":" \in Punctuation /\ "@" \in Punctuation
  BY PunctuationIs DEF Punctuation
<1>2. /\ Has(<<"@">>, authority) =>
              userInfo # <<>> /\ ":" \notin {userInfo[1], userInfo[Len(userInfo)]} /\ Lower(userInfo) = userInfo
      /\ Before(<<":">>, address) # <<>>
      /\ Has(<<":">>, address) => port # <<>> /\ port = Decimal(port)
  BY DEF IsPlain
<1>3. address \in Seq(Words)
  BY <1>1, WordSplits
<1>4. Has(<<"@">>, lower) <=> Has(<<"@">>, authority)
  BY <1>1, LowerSplits
<1>5. Has(<<"@">>, authority) => Before(<<"@">>, lower) = userInfo
  BY <1>1, <1>2, LowerSplits
<1>6. (IF Has(<<"@">>, lower) THEN After(<<"@">>, lower) ELSE lower) = Lower(address)
  BY <1>1, <1>4, LowerSplits
<1>7. address # <<>>
  BY <1>1, <1>2, NothingInNone
<1>8. authority # <<>>
  BY <1>1, <1>7, NothingInNone
<1> HIDE DEF userInfo, address
<1>9. Before(<<":">>, Lower(address)) # <<>>
  <2>1. Before(<<":">>, Lower(address)) = Lower(Before(<<":">>, address)) /\ Before(<<":">>, address) \in Seq(Words)
    BY <1>1, <1>3, LowerSplits, WordSplits
  <2> DEFINE b == Before(<<":">>, address)
  <2>2. Lower(b) \in Seq(Words) /\ Len(Lower(b)) = Len(b)
    BY <2>1, LowerIs
  <2> QED BY <1>2, <2>1, <2>2, NotEmpty
<1>10. Has(<<":">>, Lower(address)) => After(<<":">>, Lower(address)) = port /\ port # <<>> /\ port = Decimal(port)
  <2>1. Has(<<":">>, Lower(address)) <=> Has(<<":">>, address)
    BY <1>1, <1>3, LowerSplits
  <2>2. After(<<":">>, Lower(address)) = Lower(port) /\ port \in Seq(Words)
    BY <1>1, <1>3, LowerSplits, WordSplits
  <2> HIDE DEF port
  <2>3. Has(<<":">>, address) => Lower(port) = port
    BY <1>2, <2>2, DecimalIsLower
  <2> QED BY <1>2, <2>1, <2>2, <2>3
<1> HIDE DEF lower, port
<1>11. IsPlain(lower)
  <2> DEFINE info == IF Has(<<"@">>, lower) THEN Before(<<"@">>, lower) ELSE <<>>
             rest == IF Has(<<"@">>, lower) THEN After(<<"@">>, lower) ELSE lower
  <2>1. IsPlain(lower) <=> /\ Has(<<"@">>, lower) => info # <<>> /\ ":" \notin {info[1], info[Len(info)]} /\ Lower(info) = info
                           /\ Before(<<":">>, rest) # <<>>
                           /\ Has(<<":">>, rest) => After(<<":">>, rest) # <<>> /\ After(<<":">>, rest) = Decimal(After(<<":">>, rest))
    BY DEF IsPlain
  <2>2. rest = Lower(address)
    BY <1>6
  <2>3. Has(<<"@">>, lower) => info = userInfo
    BY <1>4, <1>5
  <2> HIDE DEF info, rest
  <2>4. Has(<<"@">>, lower) => info # <<>> /\ ":" \notin {info[1], info[Len(info)]} /\ Lower(info) = info
    BY <1>2, <1>4, <2>3
  <2>5. Has(<<":">>, rest) => After(<<":">>, rest) # <<>> /\ After(<<":">>, rest) = Decimal(After(<<":">>, rest))
    BY <1>10, <2>2
  <2> QED BY <1>9, <2>1, <2>2, <2>4, <2>5
<1> QED BY <1>8, <1>11 DEF lower

(* A text that begins with one word and "://" is cut there. *)
LEMMA SchemeEndIs ==
    /\ SchemeEnd \in Seq(Words) /\ Len(SchemeEnd) = 3
    /\ SchemeEnd[1] = ":" /\ SchemeEnd[2] = "/" /\ SchemeEnd[3] = "/"
<1>1. ":" \in Words /\ "/" \in Words
  BY PunctuationIs DEF Punctuation
<1> QED BY <1>1 DEF SchemeEnd

LEMMA SchemeSplits ==
    ASSUME NEW u \in Seq(Words), HasScheme(u)
    PROVE  /\ Has(SchemeEnd, u) /\ Before(SchemeEnd, u) = <<u[1]>>
           /\ After(SchemeEnd, u) = SubSeq(u, 5, Len(u)) /\ SubSeq(u, 5, Len(u)) \in Seq(Words)
           /\ u[1] \in Words /\ u = (<<u[1]>> \o SchemeEnd) \o SubSeq(u, 5, Len(u))
<1> DEFINE n == Len(u)
<1>1. n \in Nat /\ DOMAIN u = 1 .. n /\ \A i \in 1 .. n : u[i] \in Words
  BY LenProperties
<1>2. n > 4 /\ SubSeq(u, 2, 4) = SchemeEnd
  BY DEF HasScheme
<1> HIDE DEF n
<1>3. u[2] = ":" /\ u[3] = "/" /\ u[4] = "/"
  <2>1. \A i \in 2 .. 4 : u[i] \in Words
    BY <1>1, <1>2
  <2>2. \A i \in 1 .. 4 - 2 + 1 : SubSeq(u, 2, 4)[i] = u[2 + i - 1]
    BY <2>1, SubSeqProperties
  <2>3. SubSeq(u, 2, 4)[1] = u[2] /\ SubSeq(u, 2, 4)[2] = u[3] /\ SubSeq(u, 2, 4)[3] = u[4]
    BY <2>2
  <2> QED BY <1>2, <2>3, SchemeEndIs
<1>4. \A i \in 1 .. n : IsAt(SchemeEnd, u, i) <=> i + 2 <= n /\ SubSeq(u, i, i + 2) = SchemeEnd
  <2>1. ASSUME NEW i \in 1 .. n PROVE IsAt(SchemeEnd, u, i) <=> i + 2 <= n /\ SubSeq(u, i, i + 2) = SchemeEnd
    <3>1. i + Len(SchemeEnd) - 1 = i + 2
      BY <1>1, SchemeEndIs
    <3> QED BY <3>1 DEF IsAt, n
  <2> QED BY <2>1
<1>5. 2 \in 1 .. n /\ 1 \in 1 .. n
  BY <1>1, <1>2
<1>6. IsAt(SchemeEnd, u, 2)
  BY <1>1, <1>2, <1>4, <1>5
<1>7. ~IsAt(SchemeEnd, u, 1)
  <2>1. \A i \in 1 .. 3 : u[i] \in Words
    BY <1>1, <1>2
  <2>2. \A i \in 1 .. 3 - 1 + 1 : SubSeq(u, 1, 3)[i] = u[1 + i - 1]
    BY <2>1, SubSeqProperties
  <2>3. SubSeq(u, 1, 3)[2] = u[2]
    BY <2>2
  <2>4. SubSeq(u, 1, 3) # SchemeEnd
    BY <1>3, <2>3, SchemeEndIs
  <2> QED BY <1>4, <1>5, <2>4
<1>8. Find(SchemeEnd, u) = 2
  <2> DEFINE f == Find(SchemeEnd, u)
  <2>1. /\ f \in 0 .. n /\ (f = 0 => \A i \in 1 .. n : ~IsAt(SchemeEnd, u, i))
        /\ f # 0 => IsAt(SchemeEnd, u, f) /\ \A i \in 1 .. f - 1 : ~IsAt(SchemeEnd, u, i)
    BY PieceIsFound DEF n
  <2> HIDE DEF f
  <2>2. f # 0 /\ f # 1
    BY <1>5, <1>6, <1>7, <2>1
  <2>3. ~(2 < f)
    <3>1. 2 < f => 2 \in 1 .. f - 1
      BY <1>1, <2>1
    <3> QED BY <1>6, <2>1, <2>2, <3>1
  <2>4. f = 2
    BY <1>1, <2>1, <2>2, <2>3
  <2> QED BY <2>4 DEF f
<1>9. Has(SchemeEnd, u) /\ Before(SchemeEnd, u) = SubSeq(u, 1, 1) /\ After(SchemeEnd, u) = SubSeq(u, 5, n)
  <2>1. 2 + Len(SchemeEnd) = 5 /\ 2 - 1 = 1
    BY SchemeEndIs
  <2>2. Has(SchemeEnd, u)
    BY <1>8 DEF Has
  <2>3. Before(SchemeEnd, u) = SubSeq(u, 1, 2 - 1) /\ After(SchemeEnd, u) = SubSeq(u, 2 + Len(SchemeEnd), n)
    BY <1>8, <2>2 DEF Before, After, n
  <2> QED BY <2>1, <2>2, <2>3
<1>10. SubSeq(u, 1, 1) = <<u[1]>>
  <2> DEFINE s == SubSeq(u, 1, 1)
             o == <<u[1]>>
  <2>1. \A i \in 1 .. 1 : u[i] \in Words
    BY <1>1, <1>5
  <2>2. s \in Seq(Words) /\ Len(s) = 1 /\ s[1] = u[1]
    BY <2>1, SubSeqProperties
  <2>3. o \in Seq(Words) /\ Len(o) = 1 /\ o[1] = u[1]
    BY <2>1, OneIs
  <2> HIDE DEF s, o
  <2>4. s = o
    BY <2>2, <2>3, SeqEqual
  <2> QED BY <2>4 DEF s, o
<1>11. SubSeq(u, 5, n) \in Seq(Words)
  <2>1. \A i \in 5 .. n : u[i] \in Words
    BY <1>1
  <2> QED BY <1>1, <2>1, SubSeqProperties
<1>12. u = (<<u[1]>> \o SchemeEnd) \o SubSeq(u, 5, n)
  <2>1. SubSeq(u, 1, 1) \o SubSeq(u, 1 + 1, 4) = SubSeq(u, 1, 4)
    <3>1. 1 \in 1 .. Len(u) + 1 /\ 1 \in 1 - 1 .. Len(u) /\ 4 \in 1 .. Len(u)
      BY <1>1, <1>2 DEF n
    <3> QED BY <3>1, ConcatAdjacentSubSeq
  <2>2. SubSeq(u, 1, 4) \o SubSeq(u, 4 + 1, Len(u)) = SubSeq(u, 1, Len(u))
    <3>1. 1 \in 1 .. Len(u) + 1 /\ 4 \in 1 - 1 .. Len(u) /\ Len(u) \in 4 .. Len(u)
      BY <1>1, <1>2 DEF n
    <3> QED BY <3>1, ConcatAdjacentSubSeq
  <2>3. SubSeq(u, 1, Len(u)) = u
    BY SubSeqFull
  <2>4. 1 + 1 = 2 /\ 4 + 1 = 5
    OBVIOUS
  <2> QED BY <1>2, <1>10, <2>1, <2>2, <2>3, <2>4 DEF n
<1> QED BY <1>1, <1>5, <1>9, <1>10, <1>11, <1>12 DEF n

LEMMA SchemeIsMade ==
    ASSUME NEW w \in Words, NEW t \in Seq(Words), t # <<>>
    PROVE  LET u == (<<w>> \o SchemeEnd) \o t
           IN  u \in Seq(Words) /\ HasScheme(u) /\ u[1] = w /\ SubSeq(u, 5, Len(u)) = t /\ Len(u) = 4 + Len(t)
<1> DEFINE one == <<w>>
           s == one \o SchemeEnd
           u == s \o t
<1>1. one \in Seq(Words) /\ Len(one) = 1 /\ one[1] = w
  BY OneIs
<1> HIDE DEF one
<1>2. /\ s \in Seq(Words) /\ Len(s) = Len(one) + Len(SchemeEnd)
      /\ (\A i \in 1 .. Len(one) : s[i] = one[i]) /\ \A i \in 1 .. Len(SchemeEnd) : s[Len(one) + i] = SchemeEnd[i]
  <2>1. one \in Seq(Words) /\ SchemeEnd \in Seq(Words)
    BY <1>1, SchemeEndIs
  <2> QED BY <2>1, EndsOfConcat
<1> HIDE DEF s
<1>3. Len(s) = 4 /\ s[1] = w /\ s[2] = SchemeEnd[1] /\ s[3] = SchemeEnd[2] /\ s[4] = SchemeEnd[3]
  BY <1>1, <1>2, SchemeEndIs
<1>4. Len(t) \in Nat /\ Len(t) > 0
  BY NotEmpty, LenProperties
<1>5. /\ u \in Seq(Words) /\ Len(u) = Len(s) + Len(t)
      /\ (\A i \in 1 .. Len(s) : u[i] = s[i]) /\ \A i \in 1 .. Len(t) : u[Len(s) + i] = t[i]
  <2>1. s \in Seq(Words)
    BY <1>2
  <2> QED BY <2>1, EndsOfConcat
<1> HIDE DEF u
<1>6. \A i \in 1 .. Len(u) : u[i] \in Words
  BY <1>5, LenProperties
<1>7. SubSeq(u, 2, 4) = SchemeEnd
  <2> DEFINE q == SubSeq(u, 2, 4)
  <2>1. \A i \in 2 .. 4 : u[i] \in Words
    BY <1>3, <1>4, <1>5, <1>6
  <2>2. q \in Seq(Words) /\ Len(q) = 4 - 2 + 1 /\ \A i \in 1 .. 4 - 2 + 1 : q[i] = u[2 + i - 1]
    BY <2>1, SubSeqProperties
  <2> HIDE DEF q
  <2>3. Len(q) = 3 /\ q[1] = u[2] /\ q[2] = u[3] /\ q[3] = u[4]
    BY <2>2
  <2>4. u[2] = s[2] /\ u[3] = s[3] /\ u[4] = s[4]
    BY <1>3, <1>5
  <2>5. \A i \in 1 .. Len(q) : q[i] = SchemeEnd[i]
    BY <1>3, <2>3, <2>4
  <2>6. q = SchemeEnd
    BY <2>2, <2>3, <2>5, SchemeEndIs, SeqEqual
  <2> QED BY <2>6 DEF q
<1>8. HasScheme(u)
  BY <1>3, <1>4, <1>5, <1>7 DEF HasScheme
<1>9. SubSeq(u, 5, Len(u)) = t
  <2> DEFINE q == SubSeq(u, 5, Len(u))
  <2>1. \A i \in 5 .. Len(u) : u[i] \in Words
    BY <1>3, <1>4, <1>5, <1>6
  <2>2. 5 \in Int /\ Len(u) \in Int /\ 5 <= Len(u) /\ Len(u) - 5 + 1 = Len(t)
    BY <1>3, <1>4, <1>5
  <2>3. /\ q \in Seq(Words) /\ Len(q) = (IF 5 <= Len(u) THEN Len(u) - 5 + 1 ELSE 0)
        /\ \A i \in 1 .. Len(u) - 5 + 1 : q[i] = u[5 + i - 1]
    BY <2>1, <2>2, SubSeqProperties
  <2> HIDE DEF q
  <2>4. Len(q) = Len(t)
    BY <2>2, <2>3
  <2>5. ASSUME NEW i \in 1 .. Len(q) PROVE q[i] = t[i]
    <3>1. i \in 1 .. Len(t) /\ i \in 1 .. Len(u) - 5 + 1 /\ 5 + i - 1 = Len(s) + i
      BY <1>3, <1>4, <2>2, <2>4
    <3>2. q[i] = u[5 + i - 1]
      BY <2>3, <3>1
    <3> HIDE DEF q
    <3> QED BY <1>5, <3>1, <3>2
  <2>6. q = t
    BY <2>3, <2>4, <2>5, SeqEqual
  <2> QED BY <2>6 DEF q
<1>10. u[1] = w /\ Len(u) = 4 + Len(t)
  BY <1>3, <1>5
<1>11. u \in Seq(Words) /\ HasScheme(u) /\ u[1] = w /\ SubSeq(u, 5, Len(u)) = t /\ Len(u) = 4 + Len(t)
  BY <1>5, <1>8, <1>9, <1>10
<1> QED BY <1>11 DEF u, s, one

(* A word with all that comes after it. *)
PartFrom(w, t) == IF Has(<<w>>, t) THEN <<w>> \o After(<<w>>, t) ELSE <<>>

LEMMA PartIs ==
    ASSUME NEW w \in Words, NEW t \in Seq(Words)
    PROVE  /\ PartFrom(w, t) \in Seq(Words) /\ Before(<<w>>, t) \in Seq(Words) /\ After(<<w>>, t) \in Seq(Words)
           /\ Lacks(Before(<<w>>, t), w)
           /\ t = Before(<<w>>, t) \o PartFrom(w, t)
           /\ Has(<<w>>, t) => PartFrom(w, t) # <<>> /\ PartFrom(w, t)[1] = w /\ Len(PartFrom(w, t)) = Len(After(<<w>>, t)) + 1
<1> DEFINE b == Before(<<w>>, t)
           a == After(<<w>>, t)
<1>1. /\ b \in Seq(Words) /\ a \in Seq(Words) /\ Lacks(b, w)
      /\ ~Has(<<w>>, t) => b = t
      /\ Has(<<w>>, t) => t = b \o (<<w>> \o a)
  BY WordSplits
<1> HIDE DEF a, b
<1>2. CASE ~Has(<<w>>, t)
  <2>1. PartFrom(w, t) = <<>>
    BY <1>2 DEF PartFrom
  <2>2. <<>> \in Seq(Words) /\ b \o <<>> = b
    BY <1>1, EmptySeq, ConcatEmptySeq
  <2>3. t = b \o PartFrom(w, t)
    BY <1>1, <1>2, <2>1, <2>2
  <2> QED BY <1>1, <1>2, <2>1, <2>2, <2>3 DEF a, b
<1>3. CASE Has(<<w>>, t)
  <2> DEFINE one == <<w>>
             c == one \o a
  <2>1. one \in Seq(Words) /\ Len(one) = 1 /\ one[1] = w
    BY OneIs
  <2>2. PartFrom(w, t) = c /\ t = b \o c
    BY <1>1, <1>3 DEF PartFrom, a
  <2> HIDE DEF one
  <2>3. c \in Seq(Words) /\ Len(c) = Len(one) + Len(a) /\ Len(a) \in Nat /\ \A i \in 1 .. Len(one) : c[i] = one[i]
    BY <1>1, <2>1, EndsOfConcat
  <2> HIDE DEF c
  <2>4. Len(c) = Len(a) + 1 /\ c[1] = w
    BY <2>1, <2>3
  <2>5. c # <<>>
    BY <2>3, <2>4, NotEmpty
  <2> QED BY <1>1, <2>2, <2>3, <2>4, <2>5 DEF a, b
<1> QED BY <1>2, <1>3

(* What is left and right of a concatenation. *)
LEMMA LacksParts ==
    ASSUME NEW W, NEW s \in Seq(W), NEW t \in Seq(W), NEW w, Lacks(s \o t, w)
    PROVE  Lacks(s, w) /\ Lacks(t, w)
<1> DEFINE c == s \o t
<1>1. /\ Len(s) \in Nat /\ Len(t) \in Nat /\ Len(c) = Len(s) + Len(t)
      /\ \A i \in 1 .. Len(s) : c[i] = s[i]
      /\ \A i \in 1 .. Len(t) : c[Len(s) + i] = t[i]
  BY EndsOfConcat
<1>2. \A i \in 1 .. Len(c) : c[i] # w
  BY DEF Lacks
<1> HIDE DEF c
<1>3. \A i \in 1 .. Len(s) : s[i] # w
  BY <1>1, <1>2
<1>4. ASSUME NEW i \in 1 .. Len(t) PROVE t[i] # w
  <2>1. Len(s) + i \in 1 .. Len(c)
    BY <1>1
  <2> QED BY <1>1, <1>2, <2>1
<1> QED BY <1>3, <1>4 DEF Lacks

LEMMA FirstOfConcat ==
    ASSUME NEW W, NEW s \in Seq(W), NEW t \in Seq(W)
    PROVE  /\ s = <<>> => s \o t = t
           /\ s # <<>> => s \o t # <<>> /\ (s \o t)[1] = s[1]
<1>1. s = <<>> => s \o t = t
  BY ConcatEmptySeq
<1>2. ASSUME s # <<>> PROVE s \o t # <<>> /\ (s \o t)[1] = s[1]
  <2> DEFINE c == s \o t
  <2>1. /\ c \in Seq(W) /\ Len(s) \in Nat /\ Len(t) \in Nat /\ Len(c) = Len(s) + Len(t)
        /\ \A i \in 1 .. Len(s) : c[i] = s[i]
    BY EndsOfConcat
  <2> HIDE DEF c
  <2>2. Len(s) > 0
    BY <1>2, NotEmpty
  <2>3. Len(c) > 0 /\ c[1] = s[1]
    BY <2>1, <2>2
  <2>4. c # <<>>
    BY <2>1, <2>3, NotEmpty
  <2> QED BY <2>3, <2>4 DEF c
<1> QED BY <1>1, <1>2

LEMMA LastOfConcat ==
    ASSUME NEW W, NEW s \in Seq(W), NEW t \in Seq(W), t # <<>>
    PROVE  (s \o t)[Len(s \o t)] = t[Len(t)]
<1> DEFINE c == s \o t
<1>1. /\ Len(s) \in Nat /\ Len(t) \in Nat /\ Len(c) = Len(s) + Len(t)
      /\ \A i \in 1 .. Len(t) : c[Len(s) + i] = t[i]
  BY EndsOfConcat
<1> HIDE DEF c
<1>2. Len(t) > 0
  BY NotEmpty
<1>3. Len(t) \in 1 .. Len(t)
  BY <1>1, <1>2
<1>4. c[Len(c)] = t[Len(t)]
  BY <1>1, <1>3
<1> QED BY <1>4 DEF c

LEMMA MiddleOfConcat ==
    ASSUME NEW W, NEW s \in Seq(W), NEW t \in Seq(W), NEW r \in Seq(W)
    PROVE  SubSeq(s \o (t \o r), Len(s) + 1, Len(s) + Len(t)) = t
<1> DEFINE d == t \o r
           c == s \o d
           q == SubSeq(c, Len(s) + 1, Len(s) + Len(t))
<1>1. /\ d \in Seq(W) /\ Len(t) \in Nat /\ Len(r) \in Nat /\ Len(d) = Len(t) + Len(r)
      /\ \A i \in 1 .. Len(t) : d[i] = t[i]
  BY EndsOfConcat
<1> HIDE DEF d
<1>2. /\ c \in Seq(W) /\ Len(s) \in Nat /\ Len(c) = Len(s) + Len(d)
      /\ \A i \in 1 .. Len(d) : c[Len(s) + i] = d[i]
  <2>1. d \in Seq(W)
    BY <1>1
  <2> QED BY <2>1, EndsOfConcat
<1> HIDE DEF c
<1>3. \A i \in 1 .. Len(c) : c[i] \in W
  BY <1>2, LenProperties
<1>4. \A i \in Len(s) + 1 .. Len(s) + Len(t) : c[i] \in W
  BY <1>1, <1>2, <1>3
<1>5. Len(s) + 1 \in Int /\ Len(s) + Len(t) \in Int
  BY <1>1, <1>2
<1>6. /\ q \in Seq(W)
      /\ Len(q) = IF Len(s) + 1 <= Len(s) + Len(t) THEN Len(s) + Len(t) - (Len(s) + 1) + 1 ELSE 0
      /\ \A i \in 1 .. Len(s) + Len(t) - (Len(s) + 1) + 1 : q[i] = c[Len(s) + 1 + i - 1]
  BY <1>4, <1>5, SubSeqProperties
<1> HIDE DEF q
<1>7. Len(q) = Len(t)
  BY <1>1, <1>2, <1>6
<1>8. ASSUME NEW i \in 1 .. Len(q) PROVE q[i] = t[i]
  <2>1. /\ i \in 1 .. Len(s) + Len(t) - (Len(s) + 1) + 1 /\ Len(s) + 1 + i - 1 = Len(s) + i
        /\ i \in 1 .. Len(t) /\ i \in 1 .. Len(d)
    BY <1>1, <1>2, <1>7
  <2>2. q[i] = c[Len(s) + i]
    BY <1>6, <2>1
  <2>3. c[Len(s) + i] = d[i] /\ d[i] = t[i]
    BY <1>1, <1>2, <2>1
  <2> QED BY <2>2, <2>3
<1>9. q = t
  BY <1>6, <1>7, <1>8, SeqEqual
<1> QED BY <1>9 DEF q, c, d

LEMMA PartsOfConcat ==
    ASSUME NEW W, NEW s \in Seq(W), NEW t \in Seq(W)
    PROVE  SubSeq(s \o t, 1, Len(s)) = s /\ SubSeq(s \o t, Len(s) + 1, Len(s \o t)) = t
<1> DEFINE none == <<>>
           c == s \o t
<1>1. none \in Seq(W) /\ Len(none) = 0 /\ none \o c = c /\ t \o none = t /\ c \in Seq(W)
  <2>1. none \in Seq(W) /\ Len(none) = 0
    BY EmptySeq
  <2>2. c \in Seq(W)
    BY ConcatProperties
  <2> HIDE DEF c
  <2> QED BY <2>1, <2>2, ConcatEmptySeq
<1>2. Len(s) \in Nat /\ Len(t) \in Nat /\ Len(c) = Len(s) + Len(t)
  BY EndsOfConcat
<1>3. SubSeq(none \o (s \o t), Len(none) + 1, Len(none) + Len(s)) = s
  <2>1. none \in Seq(W)
    BY <1>1
  <2> HIDE DEF none
  <2> QED BY <2>1, MiddleOfConcat
<1>4. SubSeq(s \o (t \o none), Len(s) + 1, Len(s) + Len(t)) = t
  <2>1. none \in Seq(W)
    BY <1>1
  <2> HIDE DEF none
  <2> QED BY <2>1, MiddleOfConcat
<1>5. Len(none) + 1 = 1 /\ Len(none) + Len(s) = Len(s)
  BY <1>1, <1>2
<1> HIDE DEF none
<1> QED BY <1>1, <1>2, <1>3, <1>4, <1>5 DEF c

(* What comes after the scheme: authority, path, query and fragment. *)
RestParts(rest) ==
    LET noFragment == Before(<<"#">>, rest)
    IN  (PartFrom("/", Before(<<"?">>, noFragment)) \o PartFrom("?", noFragment)) \o PartFrom("#", rest)
AuthorityIn(rest) == Before(<<"/">>, Before(<<"?">>, Before(<<"#">>, rest)))
Separators == {"/", "?", "#"}

LEMMA RestSplits ==
    ASSUME NEW rest \in Seq(Words)
    PROVE  /\ AuthorityIn(rest) \in Seq(Words) /\ RestParts(rest) \in Seq(Words)
           /\ rest = AuthorityIn(rest) \o RestParts(rest)
           /\ \A p \in Separators : Lacks(AuthorityIn(rest), p)
           /\ RestParts(rest) # <<>> => RestParts(rest)[1] \in Separators
           /\ Has(<<"/">>, Before(<<"?">>, Before(<<"#">>, rest))) <=> RestParts(rest) # <<>> /\ RestParts(rest)[1] = "/"
<1> DEFINE nf == Before(<<"#">>, rest)
           nq == Before(<<"?">>, nf)
           auth == Before(<<"/">>, nq)
           p1 == PartFrom("/", nq)
           p2 == PartFrom("?", nf)
           p3 == PartFrom("#", rest)
           p12 == p1 \o p2
           tail == p12 \o p3
<1>1. "/" \in Words /\ "?" \in Words /\ "#" \in Words
  BY PunctuationIs DEF Punctuation
<1>2. /\ nf \in Seq(Words) /\ p3 \in Seq(Words) /\ Lacks(nf, "#") /\ rest = nf \o p3
      /\ Has(<<"#">>, rest) => p3 # <<>> /\ p3[1] = "#"
  BY <1>1, PartIs
<1>3. /\ nq \in Seq(Words) /\ p2 \in Seq(Words) /\ Lacks(nq, "?") /\ nf = nq \o p2
      /\ Has(<<"?">>, nf) => p2 # <<>> /\ p2[1] = "?"
  <2>1. nf \in Seq(Words)
    BY <1>2
  <2> HIDE DEF nf
  <2> QED BY <1>1, <2>1, PartIs
<1>4. /\ auth \in Seq(Words) /\ p1 \in Seq(Words) /\ Lacks(auth, "/") /\ nq = auth \o p1
      /\ Has(<<"/">>, nq) => p1 # <<>> /\ p1[1] = "/"
  <2>1. nq \in Seq(Words)
    BY <1>3
  <2> HIDE DEF nq
  <2> QED BY <1>1, <2>1, PartIs
<1>5. /\ ~Has(<<"#">>, rest) => p3 = <<>>
      /\ ~Has(<<"?">>, nf) => p2 = <<>>
      /\ ~Has(<<"/">>, nq) => p1 = <<>>
  BY DEF PartFrom
<1>6. AuthorityIn(rest) = auth /\ RestParts(rest) = tail
  BY DEF AuthorityIn, RestParts
<1> HIDE DEF nf, p1, p2, p3, nq, auth
<1>7. p12 \in Seq(Words)
  BY <1>3, <1>4, ConcatProperties
<1>8. tail \in Seq(Words)
  <2> HIDE DEF p12
  <2> QED BY <1>2, <1>7, ConcatProperties
<1>9. rest = auth \o tail
  <2>1. nf = auth \o p12
    BY <1>3, <1>4, ConcatAssociative
  <2> HIDE DEF p12
  <2>2. (auth \o p12) \o p3 = auth \o (p12 \o p3)
    BY <1>2, <1>4, <1>7, ConcatAssociative
  <2> QED BY <1>2, <2>1, <2>2
<1>10. Lacks(nq, "#")
  BY <1>2, <1>3, LacksParts
<1>11. Lacks(auth, "#") /\ Lacks(auth, "?")
  BY <1>3, <1>4, <1>10, LacksParts
<1>12. \A p \in Separators : Lacks(auth, p)
  BY <1>4, <1>11 DEF Separators
<1>13. /\ p1 = <<>> => p12 = p2
       /\ p1 # <<>> => p12 # <<>> /\ p12[1] = p1[1]
  BY <1>3, <1>4, FirstOfConcat
<1> HIDE DEF p12
<1>14. /\ p12 = <<>> => tail = p3
       /\ p12 # <<>> => tail # <<>> /\ tail[1] = p12[1]
  BY <1>2, <1>7, FirstOfConcat
<1> HIDE DEF tail
<1>2a. tail # <<>> => tail[1] \in Separators
  BY <1>2, <1>3, <1>4, <1>5, <1>13, <1>14 DEF Separators
<1>16. Has(<<"/">>, nq) <=> tail # <<>> /\ tail[1] = "/"
  <2>1. Has(<<"/">>, nq) => tail # <<>> /\ tail[1] = "/"
    BY <1>4, <1>13, <1>14
  <2>2. ~Has(<<"/">>, nq) /\ tail # <<>> => tail[1] = "?" \/ tail[1] = "#"
    BY <1>2, <1>3, <1>5, <1>13, <1>14
  <2> QED BY <2>1, <2>2
<1> QED BY <1>4, <1>6, <1>8, <1>9, <1>12, <1>2a, <1>16 DEF nq, nf

(* Where the origin of a url ends. *)
RestOf(url) == SubSeq(url, OriginLength(url) + 1, Len(url))

LEMMA OriginIs ==
    ASSUME NEW pre \in Seq(Words), NEW auth \in Seq(Words), NEW tail \in Seq(Words), NEW u,
           u = pre \o (auth \o tail), OriginStart(u) = Len(pre) + 1,
           \A p \in Separators : Lacks(auth, p), tail # <<>> => tail[1] \in Separators
    PROVE  AuthorityOf(u) = auth /\ RestOf(u) = tail /\ Origin(u) = Lower(pre \o auth)
<1> DEFINE d == auth \o tail
           end == Len(pre) + Len(auth)
           Inside(n) == \A i \in OriginStart(u) .. n : u[i] \notin {"/", "?", "#"}
<1>1. /\ d \in Seq(Words) /\ Len(auth) \in Nat /\ Len(tail) \in Nat /\ Len(d) = Len(auth) + Len(tail)
      /\ \A i \in 1 .. Len(auth) : d[i] = auth[i]
      /\ \A i \in 1 .. Len(tail) : d[Len(auth) + i] = tail[i]
  BY EndsOfConcat
<1> HIDE DEF d
<1>2. /\ Len(pre) \in Nat /\ Len(u) = Len(pre) + Len(d)
      /\ \A i \in 1 .. Len(d) : u[Len(pre) + i] = d[i]
  <2>1. d \in Seq(Words) /\ u = pre \o d
    BY <1>1 DEF d
  <2> QED BY <2>1, EndsOfConcat
<1> DEFINE size == Len(u)
<1>2a. size = end + Len(tail) /\ end \in Nat /\ size \in Nat /\ OriginStart(u) \in Nat
  <2>1. size = Len(pre) + Len(d) /\ OriginStart(u) = Len(pre) + 1
    BY <1>2
  <2> HIDE DEF size
  <2> QED BY <1>1, <1>2, <2>1
<1>3. Inside(end)
  <2>1. ASSUME NEW i \in OriginStart(u) .. end PROVE u[i] \notin {"/", "?", "#"}
    <3> DEFINE k == i - Len(pre)
    <3>1. k \in 1 .. Len(auth) /\ k \in 1 .. Len(d) /\ Len(pre) + k = i
      BY <1>1, <1>2
    <3>2. u[i] = auth[k]
      <4> HIDE DEF k
      <4> QED BY <1>1, <1>2, <3>1
    <3>3. \A p \in Separators : auth[k] # p
      <4> HIDE DEF k
      <4> QED BY <3>1 DEF Lacks
    <3> QED BY <3>2, <3>3 DEF Separators
  <2> QED BY <2>1
<1>4. end # Len(u) => end + 1 \in OriginStart(u) .. end + 1 /\ u[end + 1] \in {"/", "?", "#"}
  <2>1. SUFFICES ASSUME end # Len(u) PROVE end + 1 \in OriginStart(u) .. end + 1 /\ u[end + 1] \in {"/", "?", "#"}
    OBVIOUS
  <2>2. Len(tail) > 0
    <3> HIDE DEF end
    <3> QED BY <1>1, <1>2a, <2>1
  <2>3. tail[1] \in Separators
    BY <2>2, NotEmpty
  <2>4. Len(auth) + 1 \in 1 .. Len(d) /\ 1 \in 1 .. Len(tail)
    BY <1>1, <2>2
  <2>5. end + 1 = Len(pre) + (Len(auth) + 1)
    BY <1>1, <1>2
  <2>6. u[end + 1] = tail[1]
    <3>1. u[Len(pre) + (Len(auth) + 1)] = d[Len(auth) + 1]
      BY <1>2, <2>4
    <3>2. d[Len(auth) + 1] = tail[1]
      BY <1>1, <2>4
    <3> QED BY <2>5, <3>1, <3>2
  <2>7. end + 1 \in OriginStart(u) .. end + 1
    BY <1>1, <1>2
  <2> QED BY <2>3, <2>6, <2>7 DEF Separators
<1>5. end \in OriginStart(u) - 1 .. Len(u)
  BY <1>1, <1>2
<1> DEFINE Right(n) == Inside(n) /\ (n = Len(u) \/ ~Inside(n + 1))
<1>6. Right(end)
  <2>1. end # Len(u) => ~Inside(end + 1)
    BY <1>4
  <2> QED BY <1>3, <2>1
<1>7. ASSUME NEW n \in OriginStart(u) - 1 .. Len(u), Right(n) PROVE n = end
  <2>1. ~(end < n)
    <3>1. SUFFICES ASSUME end < n PROVE FALSE
      OBVIOUS
    <3>2. end # Len(u) /\ end + 1 \in OriginStart(u) .. n
      BY <1>1, <1>2, <3>1
    <3>3. u[end + 1] \notin {"/", "?", "#"}
      BY <1>7, <3>2
    <3> QED BY <1>4, <3>2, <3>3
  <2>2. ~(n < end)
    <3>1. SUFFICES ASSUME n < end PROVE FALSE
      OBVIOUS
    <3>2. n # Len(u) /\ n + 1 \in Int /\ n + 1 <= end
      BY <1>1, <1>2, <1>5, <3>1
    <3>3. ASSUME NEW i \in OriginStart(u) .. n + 1 PROVE i \in OriginStart(u) .. end
      BY <1>1, <1>2, <3>2, <3>3
    <3>4. Inside(n + 1)
      BY <1>3, <3>3
    <3> QED BY <1>7, <3>2, <3>4
  <2>3. n \in Int /\ end \in Int
    BY <1>1, <1>2
  <2> HIDE DEF end, Right
  <2> QED BY <2>1, <2>2, <2>3
<1>8. OriginLength(u) = CHOOSE n \in OriginStart(u) - 1 .. Len(u) : Right(n)
  BY DEF OriginLength
<1>9. OriginLength(u) = end
  <2> HIDE DEF Right, end
  <2> QED BY <1>5, <1>6, <1>7, <1>8
<1>10. SubSeq(u, Len(pre) + 1, Len(pre) + Len(auth)) = auth
  BY MiddleOfConcat
<1> DEFINE origin == pre \o auth
<1>11. origin \in Seq(Words) /\ Len(origin) = end /\ u = origin \o tail
  <2>1. origin \in Seq(Words) /\ Len(origin) = end
    BY ConcatProperties
  <2>2. u = origin \o tail
    BY ConcatAssociative
  <2> QED BY <2>1, <2>2
<1> HIDE DEF origin
<1>12. SubSeq(u, 1, end) = origin /\ SubSeq(u, end + 1, Len(u)) = tail
  <2>1. SubSeq(origin \o tail, 1, Len(origin)) = origin /\ SubSeq(origin \o tail, Len(origin) + 1, Len(origin \o tail)) = tail
    BY <1>11, PartsOfConcat
  <2> QED BY <1>11, <2>1
<1>13. AuthorityOf(u) = auth
  BY <1>9, <1>10 DEF AuthorityOf
<1>14. Origin(u) = Lower(origin)
  BY <1>9, <1>12 DEF Origin
<1>15. RestOf(u) = tail
  BY <1>9, <1>12 DEF RestOf
<1> QED BY <1>13, <1>14, <1>15 DEF origin

(* Nothing of a query or fragment is lost, unless it is empty. *)
LEMMA PairIsFound ==
    ASSUME NEW t \in Seq(Words), NEW p \in Words, NEW q \in Words, NEW i \in 1 .. Len(t) - 1, t[i] = p, t[i + 1] = q
    PROVE  Has(<<p, q>>, t)
<1> DEFINE pair == <<p, q>>
           s == SubSeq(t, i, i + 1)
<1>1. Len(t) \in Nat /\ \A j \in 1 .. Len(t) : t[j] \in Words
  BY LenProperties
<1>2. pair \in Seq(Words) /\ Len(pair) = 2 /\ pair[1] = p /\ pair[2] = q
  OBVIOUS
<1> HIDE DEF pair
<1>3. i \in Int /\ i + 1 \in Int /\ i \in 1 .. Len(t) /\ i + 1 <= Len(t) /\ \A j \in i .. i + 1 : t[j] \in Words
  BY <1>1
<1>4. s \in Seq(Words) /\ Len(s) = (IF i <= i + 1 THEN i + 1 - i + 1 ELSE 0) /\ \A j \in 1 .. i + 1 - i + 1 : s[j] = t[i + j - 1]
  BY <1>3, SubSeqProperties
<1> HIDE DEF s
<1>5. Len(s) = 2 /\ s[1] = t[i] /\ s[2] = t[i + 1]
  <2>1. i + 1 - i + 1 = 2 /\ i + 1 - 1 = i /\ i + 2 - 1 = i + 1 /\ i <= i + 1
    BY <1>3
  <2>2. 1 \in 1 .. i + 1 - i + 1 /\ 2 \in 1 .. i + 1 - i + 1
    BY <2>1
  <2> QED BY <1>4, <2>1, <2>2
<1>6. \A j \in 1 .. Len(s) : s[j] = pair[j]
  BY <1>2, <1>5
<1>7. s = pair
  BY <1>2, <1>4, <1>5, <1>6, SeqEqual
<1>8. i + Len(pair) - 1 = i + 1
  BY <1>2, <1>3
<1>9. IsAt(pair, t, i)
  BY <1>3, <1>7, <1>8 DEF IsAt, s
<1>10. Find(pair, t) # 0
  <2>1. Find(pair, t) = 0 => ~IsAt(pair, t, i)
    BY <1>3, PieceIsFound
  <2> QED BY <1>9, <2>1
<1> QED BY <1>10 DEF Has, pair

LEMMA LedIsPart ==
    ASSUME NEW t \in Seq(Words), NEW w \in Words, Has(<<w>>, t) => After(<<w>>, t) # <<>>
    PROVE  Led(<<w>>, After(<<w>>, t)) = PartFrom(w, t)
<1>1. ~Has(<<w>>, t) => After(<<w>>, t) = <<>>
  BY DEF After
<1> QED BY <1>1 DEF Led, PartFrom

(* A part of which only its word is there is the last word. *)
LEMMA EmptyPartIsLast ==
    ASSUME NEW t \in Seq(Words), NEW w \in Words, Has(<<w>>, t), After(<<w>>, t) = <<>>
    PROVE  Len(t) > 0 /\ t[Len(t)] = w
<1> DEFINE b == Before(<<w>>, t)
           p == PartFrom(w, t)
<1>1. p \in Seq(Words) /\ b \in Seq(Words) /\ t = b \o p /\ p # <<>> /\ p[1] = w /\ Len(p) = Len(After(<<w>>, t)) + 1
  BY PartIs
<1>2. Len(p) = 1
  <2>1. Len(<<>>) = 0
    OBVIOUS
  <2> QED BY <1>1, <2>1
<1> HIDE DEF p, b
<1>3. t[Len(t)] = p[Len(p)]
  BY <1>1, LastOfConcat
<1>4. Len(t) > 0
  BY <1>1, EndsOfConcat, <1>2
<1> QED BY <1>1, <1>2, <1>3, <1>4

LEMMA QueryIsThere ==
    ASSUME NEW u \in Seq(Words), NEW pre \in Seq(Words), NEW rest \in Seq(Words), u = pre \o rest, rest # <<>>,
           u[Len(u)] \notin Punctuation, ~Has(<<"?", "#">>, u)
    PROVE  /\ Has(<<"#">>, rest) => After(<<"#">>, rest) # <<>>
           /\ Has(<<"?">>, Before(<<"#">>, rest)) => After(<<"?">>, Before(<<"#">>, rest)) # <<>>
<1> DEFINE nf == Before(<<"#">>, rest)
           p3 == PartFrom("#", rest)
<1>1. "?" \in Words /\ "#" \in Words /\ "?" \in Punctuation /\ "#" \in Punctuation
  BY PunctuationIs DEF Punctuation
<1>2. u[Len(u)] = rest[Len(rest)]
  BY LastOfConcat
<1>3. Has(<<"#">>, rest) => After(<<"#">>, rest) # <<>>
  <2>1. SUFFICES ASSUME Has(<<"#">>, rest), After(<<"#">>, rest) = <<>> PROVE FALSE
    OBVIOUS
  <2>2. rest[Len(rest)] = "#"
    BY <1>1, <2>1, EmptyPartIsLast
  <2> QED BY <1>1, <1>2, <2>2
<1>4. nf \in Seq(Words) /\ p3 \in Seq(Words) /\ rest = nf \o p3 /\ (Has(<<"#">>, rest) => p3 # <<>> /\ p3[1] = "#")
  BY <1>1, PartIs
<1>5. ~Has(<<"#">>, rest) => p3 = <<>>
  BY DEF PartFrom
<1> HIDE DEF nf, p3
<1>6. ASSUME Has(<<"?">>, nf), After(<<"?">>, nf) = <<>> PROVE FALSE
  <2>1. Len(nf) > 0 /\ nf[Len(nf)] = "?"
    BY <1>1, <1>4, <1>6, EmptyPartIsLast
  <2>2. CASE p3 = <<>>
    <3>1. rest = nf
      BY <1>4, <2>2, ConcatEmptySeq
    <3> QED BY <1>1, <1>2, <2>1, <3>1
  <2>3. CASE p3 # <<>>
    <3>1. p3[1] = "#" /\ Len(p3) > 0
      BY <1>4, <1>5, <2>3, NotEmpty
    <3>2. /\ Len(nf) \in Nat /\ Len(p3) \in Nat /\ Len(rest) = Len(nf) + Len(p3)
          /\ \A i \in 1 .. Len(nf) : rest[i] = nf[i]
          /\ \A i \in 1 .. Len(p3) : rest[Len(nf) + i] = p3[i]
      BY <1>4, EndsOfConcat
    <3>3. rest[Len(nf)] = "?" /\ rest[Len(nf) + 1] = "#"
      <4>1. Len(nf) \in 1 .. Len(nf) /\ 1 \in 1 .. Len(p3)
        BY <2>1, <3>1, <3>2
      <4> QED BY <2>1, <3>1, <3>2, <4>1
    <3>4. /\ Len(pre) \in Nat /\ Len(u) = Len(pre) + Len(rest)
          /\ \A i \in 1 .. Len(rest) : u[Len(pre) + i] = rest[i]
      BY EndsOfConcat
    <3> DEFINE k == Len(pre) + Len(nf)
    <3>5. u[k] = "?" /\ u[k + 1] = "#"
      <4>1. Len(nf) \in 1 .. Len(rest) /\ Len(nf) + 1 \in 1 .. Len(rest) /\ k + 1 = Len(pre) + (Len(nf) + 1)
        BY <2>1, <3>1, <3>2, <3>4
      <4>2. u[Len(pre) + Len(nf)] = "?"
        BY <3>3, <3>4, <4>1
      <4>3. u[Len(pre) + (Len(nf) + 1)] = "#"
        BY <3>3, <3>4, <4>1
      <4> QED BY <4>1, <4>2, <4>3
    <3>6. k \in 1 .. Len(u) - 1
      BY <2>1, <3>1, <3>2, <3>4
    <3> HIDE DEF k
    <3>7. Has(<<"?", "#">>, u)
      BY <1>1, <3>5, <3>6, PairIsFound
    <3> QED BY <3>7
  <2> QED BY <2>2, <2>3
<1> QED BY <1>3, <1>6 DEF nf

LEMMA SchemeIsLower ==
    ASSUME NEW w \in Words
    PROVE  /\ <<w>> \o SchemeEnd \in Seq(Words) /\ Len(<<w>> \o SchemeEnd) = 4
           /\ Lower(<<w>> \o SchemeEnd) = <<LowerWord(w)>> \o SchemeEnd
<1> DEFINE one == <<w>>
<1>1. one \in Seq(Words) /\ Len(one) = 1 /\ Lower(one) = <<LowerWord(w)>>
  BY OneIs, LowerOfOne
<1>2. SchemeEnd \in Seq(Words) /\ Len(SchemeEnd) = 3
  BY SchemeEndIs
<1>3. Lower(SchemeEnd) = SchemeEnd
  <2>1. Lower(SchemeEnd) \in Seq(Words) /\ Len(Lower(SchemeEnd)) = 3 /\ \A i \in 1 .. 3 : Lower(SchemeEnd)[i] = LowerWord(SchemeEnd[i])
    BY <1>2, LowerIs
  <2>2. LowerWord(":") = ":" /\ LowerWord("/") = "/"
    BY DEF LowerWord
  <2>3. Lower(SchemeEnd)[1] = SchemeEnd[1] /\ Lower(SchemeEnd)[2] = SchemeEnd[2] /\ Lower(SchemeEnd)[3] = SchemeEnd[3]
    BY <2>1, <2>2, SchemeEndIs
  <2>4. \A i \in 1 .. 3 : Lower(SchemeEnd)[i] = SchemeEnd[i]
    BY <2>3
  <2> QED BY <1>2, <2>1, <2>4, SeqEqual
<1> HIDE DEF one
<1>4. one \o SchemeEnd \in Seq(Words) /\ Len(one \o SchemeEnd) = Len(one) + Len(SchemeEnd)
  BY <1>1, <1>2, ConcatProperties
<1>5. Lower(one \o SchemeEnd) = Lower(one) \o Lower(SchemeEnd)
  BY <1>1, <1>2, LowerOfConcat
<1>6. one \o SchemeEnd \in Seq(Words) /\ Len(one \o SchemeEnd) = 4 /\ Lower(one \o SchemeEnd) = <<LowerWord(w)>> \o SchemeEnd
  BY <1>1, <1>2, <1>3, <1>4, <1>5
<1> QED BY <1>6 DEF one

(* A url with a host is put together of all its parts. *)
LEMMA UrlIsPutTogether ==
    ASSUME NEW url, IsValid(url), NEW w, url.scheme = <<w>>
    PROVE  UrlToString(url) = ((((<<w>> \o SchemeEnd) \o Authority(url)) \o url.path) \o Led(<<"?">>, url.query)) \o Led(<<"#">>, url.fragment)
<1>1. <<w>> # <<>>
  OBVIOUS
<1>2. Ended(url.scheme, SchemeEnd) = <<w>> \o SchemeEnd
  BY <1>1 DEF Ended
<1> QED BY <1>2 DEF UrlToString

(* The url of a data request, taken apart and put together again. *)
LEMMA DataUrlIsKept ==
    ASSUME NEW u \in Seq(Words), IsSigned(u), IsPlain(AuthorityOf(u))
    PROVE  LET rest == SubSeq(u, OriginLength(u) + 1, Len(u))
           IN  UrlToString(FromString(u)) = Origin(u) \o (IF rest # <<>> /\ rest[1] = "/" THEN rest ELSE <<"/">> \o rest)
<1> DEFINE w == u[1]
           pre == <<w>> \o SchemeEnd
           rest == SubSeq(u, 5, Len(u))
           nf == Before(<<"#">>, rest)
           nq == Before(<<"?">>, nf)
           auth == AuthorityIn(rest)
           tail == RestParts(rest)
           url == FromString(u)
           p1 == PartFrom("/", nq)
           p2 == PartFrom("?", nf)
           p3 == PartFrom("#", rest)
           path == <<"/">> \o After(<<"/">>, nq)
<1>1. HasScheme(u) /\ u[Len(u)] \notin Punctuation /\ ~Has(<<"?", "#">>, u)
  BY DEF IsSigned
<1>2. /\ Has(SchemeEnd, u) /\ Before(SchemeEnd, u) = <<w>> /\ After(SchemeEnd, u) = rest
      /\ rest \in Seq(Words) /\ w \in Words /\ u = pre \o rest
  BY <1>1, SchemeSplits
<1>3. /\ url.scheme = Lower(<<w>>) /\ url.authority = SetAuthority(auth) /\ url.path = path
      /\ url.query = After(<<"?">>, nf) /\ url.fragment = After(<<"#">>, rest)
  BY <1>2 DEF FromString, WithoutFragment, AuthorityIn
<1>4. pre \in Seq(Words) /\ Len(pre) = 4 /\ Lower(pre) = <<LowerWord(w)>> \o SchemeEnd
  BY <1>2, SchemeIsLower
<1>5. /\ auth \in Seq(Words) /\ tail \in Seq(Words) /\ rest = auth \o tail
      /\ \A p \in Separators : Lacks(auth, p)
      /\ tail # <<>> => tail[1] \in Separators
      /\ Has(<<"/">>, nq) <=> tail # <<>> /\ tail[1] = "/"
  <2>1. rest \in Seq(Words)
    BY <1>2
  <2> HIDE DEF rest
  <2> QED BY <2>1, RestSplits
<1>6. tail = (p1 \o p2) \o p3
  BY DEF RestParts
<1>7. "/" \in Words /\ "?" \in Words /\ "#" \in Words
  BY PunctuationIs DEF Punctuation
<1>8. w \in Words /\ LowerWord(w) \in Words /\ Lower(<<w>>) = <<LowerWord(w)>>
  BY <1>2, LowerOfWord, LowerOfOne
<1>9. rest # <<>>
  <2>1. Len(u) > 4 /\ Len(u) = Len(pre) + Len(rest)
    <3>1. rest \in Seq(Words) /\ u = pre \o rest
      BY <1>2
    <3> HIDE DEF pre, rest
    <3> QED BY <1>1, <1>4, <3>1, EndsOfConcat DEF HasScheme
  <2>2. Len(rest) > 0
    BY <1>2, <1>4, <2>1, LenProperties
  <2> QED BY <1>2, <2>2, NotEmpty
<1> HIDE DEF pre, auth, tail, url, w, rest
<1>10. AuthorityOf(u) = auth /\ RestOf(u) = tail /\ Origin(u) = Lower(pre \o auth)
  <2>1. OriginStart(u) = Len(pre) + 1
    BY <1>1, <1>4 DEF OriginStart
  <2>2. u = pre \o (auth \o tail)
    BY <1>2, <1>5
  <2>3. pre \in Seq(Words) /\ auth \in Seq(Words) /\ tail \in Seq(Words)
    BY <1>4, <1>5
  <2>4. (\A p \in Separators : Lacks(auth, p)) /\ (tail # <<>> => tail[1] \in Separators)
    BY <1>5
  <2> QED BY <2>1, <2>2, <2>3, <2>4, OriginIs, ZenonT(60)
<1>11. Authority(url) = Lower(auth) /\ IsValid(url)
  BY <1>3, <1>5, <1>10, AuthorityIsKept
<1>12. /\ Has(<<"#">>, rest) => After(<<"#">>, rest) # <<>>
       /\ Has(<<"?">>, nf) => After(<<"?">>, nf) # <<>>
  BY <1>1, <1>2, <1>4, <1>9, QueryIsThere
<1>13. nf \in Seq(Words) /\ p3 \in Seq(Words) /\ Led(<<"#">>, url.fragment) = p3
  BY <1>2, <1>3, <1>7, <1>12, PartIs, LedIsPart
<1> HIDE DEF nf, p3
<1>14. nq \in Seq(Words) /\ p2 \in Seq(Words) /\ Led(<<"?">>, url.query) = p2
  BY <1>3, <1>7, <1>12, <1>13, PartIs, LedIsPart
<1> HIDE DEF nq, p2
<1>15. p1 \in Seq(Words) /\ After(<<"/">>, nq) \in Seq(Words)
  BY <1>7, <1>14, PartIs
<1>16. path = (IF Has(<<"/">>, nq) THEN p1 ELSE <<"/">>) /\ path \in Seq(Words) /\ <<"/">> \in Seq(Words)
  <2>1. <<"/">> \in Seq(Words)
    BY <1>7, OneIs
  <2>2. <<"/">> \o <<>> = <<"/">>
    BY <2>1, ConcatEmptySeq
  <2>3. ~Has(<<"/">>, nq) => After(<<"/">>, nq) = <<>>
    BY DEF After
  <2>4. path = IF Has(<<"/">>, nq) THEN p1 ELSE <<"/">>
    BY <2>2, <2>3 DEF PartFrom
  <2> QED BY <1>15, <2>1, <2>4
<1> DEFINE origin == Lower(pre) \o Lower(auth)
<1>17. Origin(u) = origin /\ origin \in Seq(Words)
  <2>1. Lower(pre) \in Seq(Words) /\ Lower(auth) \in Seq(Words)
    BY <1>4, <1>5, LowerIs
  <2>2. origin \in Seq(Words)
    BY <2>1, ConcatProperties
  <2>3. Lower(pre \o auth) = origin
    BY <1>4, <1>5, LowerOfConcat
  <2> QED BY <1>10, <2>2, <2>3
<1>18. UrlToString(url) = ((origin \o path) \o p2) \o p3
  <2>1. UrlToString(url) = ((((<<LowerWord(w)>> \o SchemeEnd) \o Authority(url)) \o url.path) \o Led(<<"?">>, url.query)) \o Led(<<"#">>, url.fragment)
    BY <1>3, <1>8, <1>11, UrlIsPutTogether
  <2> QED BY <1>3, <1>4, <1>11, <1>13, <1>14, <2>1
<1> HIDE DEF origin, path, p1
<1>19. ((origin \o path) \o p2) \o p3 = origin \o ((path \o p2) \o p3)
  <2>1. (origin \o path) \o p2 = origin \o (path \o p2) /\ path \o p2 \in Seq(Words)
    <3>1. origin \in Seq(Words) /\ path \in Seq(Words) /\ p2 \in Seq(Words)
      BY <1>14, <1>16, <1>17
    <3> QED BY <3>1, ConcatAssociative, ConcatProperties
  <2>2. (origin \o (path \o p2)) \o p3 = origin \o ((path \o p2) \o p3)
    <3>1. origin \in Seq(Words) /\ path \o p2 \in Seq(Words) /\ p3 \in Seq(Words)
      BY <1>13, <1>17, <2>1
    <3> DEFINE mid == path \o p2
    <3>2. mid \in Seq(Words)
      BY <3>1
    <3> HIDE DEF mid
    <3>3. (origin \o mid) \o p3 = origin \o (mid \o p3)
      BY <3>1, <3>2, ConcatAssociative
    <3> QED BY <3>3 DEF mid
  <2> QED BY <2>1, <2>2
<1>20. (path \o p2) \o p3 = IF tail # <<>> /\ tail[1] = "/" THEN tail ELSE <<"/">> \o tail
  <2>1. CASE Has(<<"/">>, nq)
    BY <1>5, <1>6, <1>16, <2>1
  <2>2. CASE ~Has(<<"/">>, nq)
    <3>1. p1 = <<>>
      BY <2>2 DEF p1, PartFrom
    <3>2. tail = p2 \o p3
      BY <1>6, <1>14, <3>1, ConcatEmptySeq
    <3>3. (<<"/">> \o p2) \o p3 = <<"/">> \o (p2 \o p3)
      BY <1>13, <1>14, <1>16, ConcatAssociative
    <3> QED BY <1>5, <1>16, <2>2, <3>2, <3>3
  <2> QED BY <2>1, <2>2
<1>21. UrlToString(url) = Origin(u) \o (IF tail # <<>> /\ tail[1] = "/" THEN tail ELSE <<"/">> \o tail)
  BY <1>17, <1>18, <1>19, <1>20
<1> QED BY <1>10, <1>21 DEF url, RestOf

(* An endpoint: what HostString takes from it, and the url that is made of that. *)
SchemeOf(endpoint) == IF HasScheme(endpoint) THEN LowerWord(endpoint[1]) ELSE "http"

LEMMA HostStringIs ==
    ASSUME NEW e \in Seq(Words), HasScheme(e) \/ ~Has(SchemeEnd, e), IsPlain(AuthorityOf(e))
    PROVE  /\ AuthorityOf(e) \in Seq(Words)
           /\ \A p \in Separators : Lacks(AuthorityOf(e), p)
           /\ SchemeOf(e) \in Words /\ LowerWord(SchemeOf(e)) = SchemeOf(e)
           /\ HostString(e) = (<<SchemeOf(e)>> \o SchemeEnd) \o Lower(AuthorityOf(e))
           /\ Origin(e) = IF HasScheme(e) THEN (<<SchemeOf(e)>> \o SchemeEnd) \o Lower(AuthorityOf(e)) ELSE Lower(AuthorityOf(e))
<1> DEFINE w == e[1]
           scheme == <<w>> \o SchemeEnd
           rest == IF Has(SchemeEnd, e) THEN After(SchemeEnd, e) ELSE e
           auth == AuthorityIn(rest)
           tail == RestParts(rest)
           pre == IF HasScheme(e) THEN scheme ELSE <<>>
           url == FromString(e)
<1>1. /\ Has(SchemeEnd, e) <=> HasScheme(e)
      /\ HasScheme(e) => Before(SchemeEnd, e) = <<w>> /\ w \in Words /\ e = scheme \o rest
      /\ rest \in Seq(Words)
  BY SchemeSplits
<1>2. url.scheme = (IF HasScheme(e) THEN Lower(<<w>>) ELSE <<>>) /\ url.authority = SetAuthority(auth)
  BY <1>1 DEF FromString, WithoutFragment, AuthorityIn
<1>3. /\ auth \in Seq(Words) /\ tail \in Seq(Words) /\ rest = auth \o tail
      /\ \A p \in Separators : Lacks(auth, p)
      /\ tail # <<>> => tail[1] \in Separators
  <2>1. rest \in Seq(Words)
    BY <1>1
  <2> HIDE DEF rest
  <2> QED BY <2>1, RestSplits
<1>4. HasScheme(e) => scheme \in Seq(Words) /\ Len(scheme) = 4 /\ Lower(scheme) = <<LowerWord(w)>> \o SchemeEnd
  BY <1>1, SchemeIsLower
<1> HIDE DEF scheme
<1>5. pre \in Seq(Words) /\ Len(pre) = (IF HasScheme(e) THEN 4 ELSE 0)
  BY <1>4, EmptySeq
<1>6. e = pre \o rest
  <2>1. ~HasScheme(e) => rest = e /\ <<>> \o e = e
    BY <1>1, ConcatEmptySeq
  <2> QED BY <1>1, <2>1
<1> HIDE DEF auth, tail, rest, url, w
<1>7. AuthorityOf(e) = auth /\ Origin(e) = Lower(pre \o auth)
  <2>1. OriginStart(e) = Len(pre) + 1
    BY <1>5 DEF OriginStart
  <2>2. e = pre \o (auth \o tail)
    BY <1>3, <1>6
  <2>3. pre \in Seq(Words) /\ auth \in Seq(Words) /\ tail \in Seq(Words)
    BY <1>3, <1>5
  <2>4. (\A p \in Separators : Lacks(auth, p)) /\ (tail # <<>> => tail[1] \in Separators)
    BY <1>3
  <2> HIDE DEF pre
  <2> QED BY <2>1, <2>2, <2>3, <2>4, OriginIs
<1>8. Authority(url) = Lower(auth) /\ IsValid(url)
  BY <1>2, <1>3, <1>7, AuthorityIsKept
<1>9. SchemeOf(e) \in Words /\ LowerWord(SchemeOf(e)) = SchemeOf(e)
  <2>1. CASE HasScheme(e)
    BY <1>1, <2>1, LowerOfWord DEF SchemeOf, w
  <2>2. CASE ~HasScheme(e)
    BY <2>2 DEF SchemeOf, Words, LowerWord
  <2> QED BY <2>1, <2>2
<1>10. (IF url.scheme = <<>> THEN <<"http">> ELSE url.scheme) = <<SchemeOf(e)>>
  <2>1. HasScheme(e) => url.scheme = <<SchemeOf(e)>>
    BY <1>1, <1>2, LowerOfOne DEF SchemeOf, w
  <2>2. <<SchemeOf(e)>> # <<>>
    OBVIOUS
  <2>3. ~HasScheme(e) => url.scheme = <<>> /\ SchemeOf(e) = "http"
    BY <1>2 DEF SchemeOf
  <2> QED BY <2>1, <2>2, <2>3
<1>11. HostString(e) = (<<SchemeOf(e)>> \o SchemeEnd) \o Lower(auth)
  BY <1>8, <1>10 DEF HostString, url
<1>12. Origin(e) = IF HasScheme(e) THEN (<<SchemeOf(e)>> \o SchemeEnd) \o Lower(auth) ELSE Lower(auth)
  <2>1. HasScheme(e) => Lower(pre \o auth) = Lower(scheme) \o Lower(auth)
    BY <1>3, <1>4, LowerOfConcat
  <2>2. ~HasScheme(e) => pre \o auth = auth
    BY <1>3, ConcatEmptySeq
  <2> QED BY <1>4, <1>7, <2>1, <2>2 DEF SchemeOf, w
<1> QED BY <1>3, <1>7, <1>9, <1>11, <1>12

LEMMA HostUrlIs ==
    ASSUME NEW w \in Words, LowerWord(w) = w, NEW auth \in Seq(Words), IsPlain(auth), Lower(auth) = auth,
           \A p \in Separators : Lacks(auth, p)
    PROVE  LET url == FromString((<<w>> \o SchemeEnd) \o auth)
           IN  /\ url.scheme = <<w>> /\ url.authority = SetAuthority(auth)
               /\ url.query = <<>> /\ url.fragment = <<>>
<1> DEFINE u == (<<w>> \o SchemeEnd) \o auth
           url == FromString(u)
<1>1. auth # <<>>
  BY LowerIsPlain
<1>2. u \in Seq(Words) /\ HasScheme(u) /\ u[1] = w /\ SubSeq(u, 5, Len(u)) = auth
  BY <1>1, SchemeIsMade
<1> HIDE DEF u
<1>3. Has(SchemeEnd, u) /\ Before(SchemeEnd, u) = <<w>> /\ After(SchemeEnd, u) = auth
  BY <1>2, SchemeSplits
<1>4. /\ Before(<<"#">>, auth) = auth /\ After(<<"#">>, auth) = <<>>
      /\ Before(<<"?">>, auth) = auth /\ After(<<"?">>, auth) = <<>>
      /\ Before(<<"/">>, auth) = auth
  <2>1. "/" \in Words /\ "?" \in Words /\ "#" \in Words
    BY PunctuationIs DEF Punctuation
  <2>2. Lacks(auth, "/") /\ Lacks(auth, "?") /\ Lacks(auth, "#")
    BY DEF Separators
  <2> QED BY <2>1, <2>2, SplitIsUnique
<1>5. Lower(<<w>>) = <<w>>
  BY LowerOfOne
<1>6. url.scheme = <<w>> /\ url.authority = SetAuthority(auth) /\ url.query = <<>> /\ url.fragment = <<>>
  BY <1>3, <1>4, <1>5 DEF FromString, WithoutFragment
<1> QED BY <1>6 DEF u

LEMMA AddUrlIs ==
    ASSUME NEW text, NEW path
    PROVE  LET host == FromString(text)
               url  == AddUrl(host, path)
           IN  /\ url.scheme = host.scheme /\ url.authority = host.authority /\ url.path = <<path>>
               /\ url.query = host.query /\ url.fragment = host.fragment
BY DEF AddUrl, FromString

LEMMA EndpointIsKept ==
    ASSUME NEW e \in Seq(Words), HasScheme(e) \/ ~Has(SchemeEnd, e), IsPlain(AuthorityOf(e)), NEW path
    PROVE  UrlToString(AddUrl(FromString(HostString(e)), path)) =
             ((IF HasScheme(e) THEN <<>> ELSE <<"http">> \o SchemeEnd) \o Origin(e)) \o <<path>>
<1> DEFINE auth == AuthorityOf(e)
           low == Lower(auth)
           w == SchemeOf(e)
           host == (<<w>> \o SchemeEnd) \o low
           hostUrl == FromString(host)
           url == AddUrl(hostUrl, path)
           Any == Words \cup {path}
<1>1. /\ auth \in Seq(Words) /\ (\A p \in Separators : Lacks(auth, p)) /\ w \in Words /\ LowerWord(w) = w
      /\ HostString(e) = host
      /\ Origin(e) = IF HasScheme(e) THEN host ELSE low
  BY HostStringIs
<1>2. IsPlain(low) /\ low \in Seq(Words) /\ Lower(low) = low
  BY <1>1, LowerIsPlain, LowerIs
<1>3. \A p \in Separators : Lacks(low, p)
  BY <1>1, LowerLacks DEF Separators, Punctuation
<1> HIDE DEF low, w
<1>4. hostUrl.scheme = <<w>> /\ hostUrl.authority = SetAuthority(low) /\ hostUrl.query = <<>> /\ hostUrl.fragment = <<>>
  BY <1>1, <1>2, <1>3, HostUrlIs
<1>5. url.scheme = <<w>> /\ url.authority = SetAuthority(low) /\ url.path = <<path>> /\ url.query = <<>> /\ url.fragment = <<>>
  BY <1>4, AddUrlIs
<1> HIDE DEF url
<1>6. Authority(url) = low /\ IsValid(url)
  BY <1>2, <1>5, AuthorityIsKept
<1>7. UrlToString(url) = ((host \o <<path>>) \o Led(<<"?">>, url.query)) \o Led(<<"#">>, url.fragment)
  BY <1>5, <1>6, UrlIsPutTogether
<1>8. host \in Seq(Words)
  BY <1>1, <1>2, SchemeIsLower, ConcatProperties
<1>9. UrlToString(url) = host \o <<path>>
  <2> DEFINE all == host \o <<path>>
  <2>1. all \in Seq(Any)
    <3>1. host \in Seq(Any)
      BY <1>8, SeqMonotonic
    <3>2. <<path>> \in Seq(Any)
      BY OneIs
    <3> HIDE DEF host, Any
    <3> QED BY <3>1, <3>2, ConcatProperties
  <2>2. Led(<<"?">>, url.query) = <<>> /\ Led(<<"#">>, url.fragment) = <<>>
    BY <1>5 DEF Led
  <2> HIDE DEF all, Any
  <2>3. all \o <<>> = all
    BY <2>1, ConcatEmptySeq
  <2> QED BY <1>7, <2>2, <2>3 DEF all
<1>10. (IF HasScheme(e) THEN <<>> ELSE <<"http">> \o SchemeEnd) \o Origin(e) = host
  <2>1. CASE HasScheme(e)
    <3> HIDE DEF host
    <3> QED BY <1>1, <1>8, <2>1, ConcatEmptySeq
  <2>2. CASE ~HasScheme(e)
    BY <1>1, <2>2 DEF SchemeOf, w
  <2> QED BY <2>1, <2>2
<1> HIDE DEF host
<1>11. UrlToString(url) = ((IF HasScheme(e) THEN <<>> ELSE <<"http">> \o SchemeEnd) \o Origin(e)) \o <<path>>
  BY <1>9, <1>10
<1> QED BY <1>1, <1>11 DEF url

(* Once it is made the url of an operation stays as it is. *)
UrlIsMade ==
    /\ configuration \in Configurations
    /\ (Running /\ step = "Only") =>
          /\ call \in Operations
          /\ message.url = IF call.op \in DataOperations THEN GivenUrl(call)
                           ELSE AddUrl(HostUrls[configuration.endpoint], message.path)

LEMMA ConfigurationStays == ASSUME [Next]_vars PROVE UNCHANGED configuration
<1> DEFINE Same == UNCHANGED configuration
<1>1. ASSUME NEW kind, NEW r, EndWith(kind, r) PROVE Same
  BY <1>1 DEF EndWith, switch
<1>2. ASSUME NEW r, Carry(r) PROVE Same
  BY <1>2 DEF Carry, switch
<1>3. Attempt => Same
  BY <1>1, <1>2 DEF Attempt, AttemptDisabled, UrlMalformed, Unsent, Busy, Refused, Answered, AnswerLost, AnswerGarbled,
                    Aborted, DataAltered, DataCut, switch
<1>4. CallOperation \/ MakeUploadRequest \/ ResumableFileDownload => Same
  BY DEF CallOperation, MakeUploadRequest, ResumableFileDownload, Start
<1>5. Decide \/ WaitForRetry \/ ReturnOperation \/ ResumableFileUpload => Same
  BY DEF Decide, WaitForRetry, ReturnOperation, ResumableFileUpload, switch
<1>6. AfterPreCheck \/ AfterRapid \/ AfterCreate \/ AfterPut \/ AfterComplete => Same
  BY DEF AfterPreCheck, AfterRapid, AfterCreate, AfterPut, AfterComplete, switch
<1>7. AfterGetUrl \/ AfterGet \/ Rename => Same
  BY DEF AfterGetUrl, AfterGet, Rename, switch
<1>8. DisableRequest \/ EnableRequest \/ AskToQuit \/ Edit \/ Modify \/ Crash => Same
  BY DEF DisableRequest, EnableRequest, AskToQuit, Edit, Modify, Crash, switch
<1>9. UNCHANGED vars => Same
  BY DEF vars, switch
<1> QED BY <1>3, <1>4, <1>5, <1>6, <1>7, <1>8, <1>9 DEF Next, Proceed

LEMMA UrlIsMadeNext == ASSUME UrlIsMade, [Next]_vars PROVE UrlIsMade'
<1>1. configuration' = configuration
  BY ConfigurationStays
<1>2. CASE CallOperation
  <2>1. PICK c \in Operations :
            /\ call' = c
            /\ \E m \in Requests(call') : Begin(c, "Only", m, c.op \in DataOperations, c.op = "DataPutByUrl")
    BY <1>2 DEF CallOperation, Start
  <2>2. PICK m \in Requests(c) : Begin(c, "Only", m, c.op \in DataOperations, c.op = "DataPutByUrl")
    BY <2>1
  <2>3. message' = BuildHttpRequest(c, m, c.op \in DataOperations)
    BY <2>2 DEF Begin
  <2>4. /\ message'.path = m.path
        /\ message'.url = IF c.op \in DataOperations THEN GivenUrl(c) ELSE AddUrl(HostUrls[configuration.endpoint], m.path)
    BY <2>3 DEF BuildHttpRequest
  <2> QED BY <1>1, <2>1, <2>4 DEF UrlIsMade, GivenUrl
<1>3. CASE ~CallOperation
  <2>1. CASE pc' = "idle" \/ step' # "Only"
    BY <1>1, <2>1 DEF UrlIsMade, Running
  <2>2. CASE Stays
    BY <1>1, <2>2 DEF UrlIsMade, Stays, Running, GivenUrl
  <2> QED BY <1>3, <2>1, <2>2, OthersKeepOptions
<1> QED BY <1>2, <1>3

LEMMA MadeUrlIsKept == UrlIsMade => UrlIsKept
<1> SUFFICES ASSUME UrlIsMade, pc = "attempt", step = "Only"
             PROVE  IF call.op \in DataOperations
                    THEN IsSigned(call.url) /\ IsPlain(AuthorityOf(call.url)) => UrlToString(message.url) = DataUrl(call.url)
                    ELSE IsTidy(configuration.endpoint) => UrlToString(message.url) = OperationUrl(configuration.endpoint, message.path)
  BY DEF UrlIsKept
<1>1. /\ configuration \in Configurations /\ call \in Operations
      /\ message.url = IF call.op \in DataOperations THEN GivenUrl(call) ELSE AddUrl(HostUrls[configuration.endpoint], message.path)
  BY DEF UrlIsMade, Running
<1>2. STRING \subseteq Words
  BY DEF Words
<1>3. CASE call.op \in DataOperations
  <2>1. call.url \in Seq(STRING)
    BY <1>1, <1>3, OperationsAssumption
  <2>2. call.url \in Seq(Words)
    BY <1>2, <2>1, SeqMonotonic
  <2>3. message.url = FromString(call.url)
    BY <1>1, <1>3 DEF GivenUrl
  <2> QED BY <1>3, <2>2, <2>3, DataUrlIsKept DEF DataUrl
<1>4. CASE call.op \notin DataOperations
  <2> DEFINE endpoint == configuration.endpoint
  <2>1. endpoint \in Seq(STRING)
    BY <1>1, BoundsAssumption DEF Settings
  <2>2. endpoint \in Seq(Words)
    BY <1>2, <2>1, SeqMonotonic
  <2>3. endpoint \in Endpoints
    BY <1>1 DEF Endpoints
  <2>4. message.url = AddUrl(FromString(HostString(endpoint)), message.path)
    BY <1>1, <1>4, <2>3 DEF HostUrls
  <2> HIDE DEF endpoint
  <2>5. IsTidy(endpoint) => UrlToString(message.url) = OperationUrl(endpoint, message.path)
    BY <2>2, <2>4, EndpointIsKept DEF IsTidy, OperationUrl
  <2> QED BY <1>4, <2>5 DEF endpoint
<1> QED BY <1>3, <1>4

(* Every attempt goes to the url the service gave, to the letter from the path on, or to the host of the endpoint and the path of the
   operation, whatever text the url or the endpoint is. *)
THEOREM ClientUrlIsKept == Spec => []UrlIsKept
<1>1. Init => UrlIsMade
  BY DEF Init, UrlIsMade, Running
<1>2. UrlIsMade /\ [Next]_vars => UrlIsMade'
  BY UrlIsMadeNext
<1>3. UrlIsMade => UrlIsKept
  BY MadeUrlIsKept
<1> QED BY <1>1, <1>2, <1>3, PTL DEF Spec
=============================================================================
