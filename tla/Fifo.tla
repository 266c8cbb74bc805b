-------------------------------- MODULE Fifo --------------------------------
(***************************************************************************)
(* What an AtomicQueue promises: one queue, to which each push adds an     *)
(* element at the back and from which each pop that succeeds takes the     *)
(* element at the front, each of them in one step.                         *)
(***************************************************************************)
EXTENDS Sequences

CONSTANTS Threads, Values, NoValue

VARIABLES
  queue,    \* the elements, front first
  taken     \* what the pop of each thread is about to return

fifoVars == <<queue, taken>>

FifoInit == queue = <<>> /\ taken = [t \in Threads |-> NoValue]

Push(v) == queue' = Append(queue, v) /\ UNCHANGED taken

Pop(t) ==
  /\ queue # <<>>
  /\ taken[t] = NoValue
  /\ taken' = [taken EXCEPT ![t] = Head(queue)]
  /\ queue' = Tail(queue)

Return(t) == taken' = [taken EXCEPT ![t] = NoValue] /\ UNCHANGED queue

FifoNext ==
  \/ \E v \in Values : Push(v)
  \/ \E t \in Threads : Pop(t) \/ Return(t)

FifoSpec == FifoInit /\ [][FifoNext]_fifoVars
=============================================================================
