----------------------------- MODULE MCPoolLock -----------------------------
(* Three threads, enough for two writers asleep behind one reader. *)
EXTENDS PoolLock, TLC

CONSTANTS t1, t2, t3

MCThreads == {t1, t2, t3}
MCSymmetry == Permutations(MCThreads)
MCZeroed == {0}
=============================================================================
