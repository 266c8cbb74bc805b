------------------------------ MODULE BumpPool ------------------------------
(***************************************************************************)
(* MemoryPool (include/AxleUtil/memory.h, src/memory.cpp): one range of    *)
(* memory, given out from the front and never taken back.                  *)
(***************************************************************************)
EXTENDS Integers

CONSTANT BumpTotal   \* total

ASSUME BumpAssumption == BumpTotal \in Nat \ {0}

VARIABLES
  bumpTop,     \* top
  bumpGiven    \* the pieces given out: where each starts, its size and alignment

bumpVars == <<bumpTop, bumpGiven>>

BumpTypeOK ==
  /\ bumpTop \in 0..BumpTotal - 1
  /\ bumpGiven \subseteq [at : 0..BumpTotal, size : 1..BumpTotal, align : 1..2]

BumpInit == bumpTop = 0 /\ bumpGiven = {}

RoundedUp(n, align) == ((n + align - 1) \div align) * align

\* push_alloc_bytes, push, push_n.  The assertion leaves the last byte unused.
BumpPush(size, align) ==
  LET at == RoundedUp(bumpTop, align)
  IN /\ at + size < BumpTotal
     /\ bumpTop' = at + size
     /\ bumpGiven' = bumpGiven \union {[at |-> at, size |-> size, align |-> align]}

BumpNext == \E size \in 1..3, align \in 1..2 : BumpPush(size, align)

Overlap(p, q) == p.at < q.at + q.size /\ q.at < p.at + p.size

BumpPlaced ==
  /\ \A p, q \in bumpGiven : p # q => ~Overlap(p, q)
  /\ \A p \in bumpGiven : p.at % p.align = 0 /\ p.at + p.size <= bumpTop
=============================================================================
