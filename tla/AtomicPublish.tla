--------------------------- MODULE AtomicPublish ---------------------------
(***************************************************************************)
(* What the caller of ResumableFileDownload, or of ResumableFileUpload,    *)
(* relies on.  The destination holds a complete file or none; it is        *)
(* replaced in one step, by a complete file, and a call reports success    *)
(* only after it replaced the file.                                        *)
(*                                                                         *)
(* A download (MayDoubt = FALSE) knows whether it replaced its file: after *)
(* a failure the destination is what it was.  An upload replaces a file of *)
(* the service and may not learn of it: the answer may be lost, or may     *)
(* fail the checks.                                                        *)
(***************************************************************************)

CONSTANTS Contents,     \* the complete files
          Absent,       \* no file at the destination
          MayDoubt      \* the file may be replaced without the caller knowing

VARIABLES file,         \* what is at the destination
          phase         \* "idle", "running", "published", "succeeded", "failed"

Init == file = Absent /\ phase = "idle"

Begin == /\ phase \in {"idle", "succeeded", "failed"}
         /\ phase' = "running"
         /\ UNCHANGED file

Publish == /\ phase = "running"
           /\ file' \in Contents
           /\ phase' = "published"

PublishUnseen == /\ MayDoubt
                 /\ phase = "running"
                 /\ file' \in Contents
                 /\ phase' \in {"running", "idle"}

Succeed == phase = "published" /\ phase' = "succeeded" /\ UNCHANGED file

Fail == /\ phase = "running" \/ (MayDoubt /\ phase = "published")
        /\ phase' = "failed"
        /\ UNCHANGED file

Die == phase \in {"running", "published"} /\ phase' = "idle" /\ UNCHANGED file

Next == Begin \/ Publish \/ PublishUnseen \/ Succeed \/ Fail \/ Die

Spec == Init /\ [][Next]_<<file, phase>>

=============================================================================
