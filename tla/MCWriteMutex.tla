---------------------------- MODULE MCWriteMutex ----------------------------
(***************************************************************************)
(* Small instances of WriteMutex.                                          *)
(***************************************************************************)
EXTENDS WriteMutex, TLC

CONSTANTS t1, t2, t3, t4, r1, r2, r3, w1, w2

\* Threads t1 and t2 read, t3 reads and writes, t4 writes.
MCThreads == {t1, t2, t3, t4}
MCReads == {r1, r2, r3}
MCWrites == {w1, w2}
MCThreadOf == (r1 :> t1) @@ (r2 :> t2) @@ (r3 :> t3) @@ (w1 :> t3) @@ (w2 :> t4)
=============================================================================
