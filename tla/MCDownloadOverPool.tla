------------------------ MODULE MCDownloadOverPool ------------------------
(* Small instances of DownloadOverPool for TLC. *)
EXTENDS DownloadOverPool, TLC

CONSTANTS a1, a2, b

\* A download with two threads and a caller of single requests.
TwoThreadsAndACaller == a1 :> "A" @@ a2 :> "A" @@ b :> "B"
PartsEach == "A" :> 3 @@ "B" :> 2

\* The defaults of the library: one download with three threads.
ThreeThreads == a1 :> "A" @@ a2 :> "A" @@ b :> "A"
FourParts == "A" :> 4

=============================================================================
