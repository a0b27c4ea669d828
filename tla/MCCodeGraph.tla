---------------------------- MODULE MCCodeGraph ----------------------------
\* CodeGraph for TLC: two files; a text that calls what the other file may
\* define, and one that defines it.
EXTENDS CodeGraph, TLC

CONSTANTS f1, f2, a, b, s1, s2

MCDefs == [x \in Text |-> IF x = a THEN {1} ELSE {2}]
MCRefs == [x \in Text |-> IF x = a THEN {<<1, 2>>} ELSE {}]

Symmetry == Permutations(File) \cup Permutations(Scanner)
=============================================================================
