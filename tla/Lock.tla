-------------------------------- MODULE Lock --------------------------------
(***************************************************************************)
(* What a Mutex promises its callers: at any time at most one thread is    *)
(* between an acquisition that returned and the release that ends it, and  *)
(* the lock passes from one thread to another only by way of being free.   *)
(***************************************************************************)
CONSTANT Threads

VARIABLE inside     \* the threads in their critical section

LockInit == inside = {}

Enter(t) == inside = {} /\ inside' = {t}

Leave(t) == inside = {t} /\ inside' = {}

LockNext == \E t \in Threads : Enter(t) \/ Leave(t)

LockSpec == LockInit /\ [][LockNext]_inside
=============================================================================
