---------------------------- MODULE MCWorkQueue -----------------------------
(* WorkQueue for TLC: model values and the symmetry of task and worker ids.  *)
EXTENDS WorkQueue, TLC

CONSTANTS t1, t2, t3, w1, w2

MCTask == {t1, t2, t3}
MCTwoTasks == {t1, t2}
MCWorker == {w1, w2}
Symmetry == Permutations(MCTask) \cup Permutations(MCWorker)
Symmetry2 == Permutations(MCTwoTasks) \cup Permutations(MCWorker)
=============================================================================
