---------------------------- MODULE MCAtomicQueue ---------------------------
(***************************************************************************)
(* Small instances of AtomicQueue.                                         *)
(***************************************************************************)
EXTENDS AtomicQueue, TLC

CONSTANTS t1, t2, t3

MCThreads == {t1, t2, t3}
Symmetry == Permutations(MCThreads)
=============================================================================
