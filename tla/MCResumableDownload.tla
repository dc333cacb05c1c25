------------------------ MODULE MCResumableDownload ------------------------
(* Small instances of ResumableDownload for TLC. *)
EXTENDS ResumableDownload, TLC

\* Parts and hashes of the versions: two of the same size, ...
TwoAlike == <<2, 2>>
ThreeAlike == <<3, 3>>
\* ... one that grows, ...
Growing == <<2, 3>>
\* ... or a single one.
OneOfTwo == <<2>>

DistinctHashes == <<"h1", "h2">>
NoHashes == <<"", "">>
OneHash == <<"h1">>

\* The caller passes the mtime it was listed, or always the same.
ListedMtimes == <<1, 2>>
OneMtime == <<1>>

WorkerSymmetry == Permutations(Workers)

=============================================================================
