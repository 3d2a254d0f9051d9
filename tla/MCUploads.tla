----------------------------- MODULE MCUploads -----------------------------
(* TLC instances of Uploads.                                               *)
EXTENDS Uploads, TLC

CONSTANTS saveA, saveB, blobC

(* saveA is declared in full, saveB arrives one unit longer than declared.         *)
Sizes  == [k \in Keys |-> IF k \in BlobKeys THEN 1 ELSE 2]
Claims == [k \in Keys |-> IF k = saveB THEN 1 ELSE Sizes[k]]
LongSizes == [k \in Keys |-> 2]

Interchangeable == Permutations(Puts) \cup Permutations(Inodes)
=============================================================================
