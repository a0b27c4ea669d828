--------------------------- MODULE MCMemoryStore ---------------------------
(* MemoryStore for TLC: model values, sizes of splits, and the symmetry of   *)
(* ids.  With Batch and MaxRounds 2, a split of three rows takes both rounds *)
(* of a task, or more if the embedder raises; one of five takes more.        *)
EXTENDS MemoryStore, TLC

CONSTANTS m1, m2, t1, long, band, short, k1, k2, c1, c2, w1, w2

RowsAlike == k1 :> 3 @@ k2 :> 3
RowsOf    == k1 :> 3 @@ k2 :> 5

Symmetry == Permutations(Split)
            \cup Permutations(Client) \cup Permutations(Worker)
=============================================================================
