--------------------------- MODULE MCFileChecksum ---------------------------
(* Small instance of FileChecksum and PartPlan for TLC: files of 1 to 11 bytes in parts of at least 1 byte, at most 3 of them,   *)
(* so that sizes fit exactly, with a rest, and after doubling once and twice; bytes of 2 bits and words of 4 bytes, so that     *)
(* parts have bytes before, in and behind whole words.                                                                           *)
EXTENDS FileChecksum

Sizes == 1 .. 11
Asked == 0 .. 3
Pattern(f) == [i \in 1 .. f |-> CASE (i * f) % 5 = 0 -> {} [] (i * f) % 5 = 1 -> {0} [] (i * f) % 5 \in {2, 3} -> {1} [] OTHER -> {0, 1}]
=============================================================================
