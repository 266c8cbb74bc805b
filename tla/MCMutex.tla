------------------------------ MODULE MCMutex -------------------------------
(***************************************************************************)
(* Small instances of Mutex: threads that carry the ids start_thread gives *)
(* (the main thread has 1) and the mutants its properties are tried on.    *)
(***************************************************************************)
EXTENDS Mutex, TLC

CONSTANTS t1, t2, t3

MCThreads2 == {t1, t2}
MCThreads3 == {t1, t2, t3}

MCThreadId2 == (t1 :> 1) @@ (t2 :> 2)
MCThreadId3 == (t1 :> 1) @@ (t2 :> 2) @@ (t3 :> 3)
=============================================================================
