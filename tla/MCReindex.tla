----------------------------- MODULE MCReindex ------------------------------
\* Reindex for TLC: a long memory and a short one; a weak embedder, a good one
\* of the same dimension, and one of another.
EXTENDS Reindex, TLC

CONSTANTS m1, m2, k1, local, fast, hosted, s1, s2

MCParent == [i \in {m1, m2, k1} |-> IF i = k1 THEN m1 ELSE i]
MCDim  == [e \in Embedder |-> IF e = hosted THEN 2 ELSE 1]
MCTier == [e \in Embedder |-> CASE e = hosted -> 1 [] e = fast -> 2 [] OTHER -> 3]

Symmetry == Permutations(Server)
=============================================================================
