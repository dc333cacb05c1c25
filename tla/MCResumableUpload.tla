------------------------- MODULE MCResumableUpload -------------------------
(* Small instances of ResumableUpload for TLC. *)
EXTENDS ResumableUpload

\* The local file has two versions of the same size.
TwoAlike == <<2, 2>>

DistinctMtimes == <<1, 2>>

=============================================================================
