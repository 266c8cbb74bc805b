----------------------------- MODULE WriteMutex -----------------------------
(***************************************************************************)
(* struct WriteMutex (include/AxleUtil/threading.h, src/threading.cpp): a  *)
(* Mutex for the writers and a count of the readers.  A reader counts      *)
(* itself and then looks at the mutex; a writer takes the mutex and then   *)
(* looks at the count.  Each interlocked operation is a step of its own.   *)
(*                                                                         *)
(* A section is one stretch of a program from an acquire to its release;   *)
(* a thread runs one call at a time and may have several sections open.    *)
(* A turn of a waiting loop (Mutex.tla) that finds nothing changes nothing *)
(* here, and the WakeByAddressAll of release_read finds nobody asleep.     *)
(***************************************************************************)
EXTENDS Naturals, FiniteSets

CONSTANTS
  Threads,
  NoThread,     \* the write mutex is free
  Reads,        \* the sections that read
  Writes,       \* the sections that write
  ThreadOf,     \* the thread of each section
  NestedReads   \* whether a thread may open a section to read inside another

Sections == Reads \union Writes

ASSUME WriteMutexAssumption ==
  /\ NoThread \notin Threads
  /\ IsFiniteSet(Reads)
  /\ Reads \intersect Writes = {}
  /\ ThreadOf \in [Sections -> Threads]
  /\ NestedReads \in BOOLEAN

VARIABLES
  held,      \* who holds the mutex `write'
  readers,   \* the count of the readers
  pc         \* where each section is

vars == <<held, readers, pc>>

ReadLocations == {"idle", "increment", "check", "retreat", "await", "reading"}
WriteLocations == {"idle", "take", "drain", "writing"}

TypeOK ==
  /\ held \in Threads \union {NoThread}
  /\ readers \in 0..Cardinality(Reads)
  /\ pc \in [Sections -> ReadLocations \union WriteLocations]
  /\ \A s \in Reads : pc[s] \in ReadLocations
  /\ \A s \in Writes : pc[s] \in WriteLocations

Init ==
  /\ held = NoThread
  /\ readers = 0
  /\ pc = [s \in Sections |-> "idle"]

Goto(s, from, to) == pc[s] = from /\ pc' = [pc EXCEPT ![s] = to]

IsFree == held = NoThread       \* Mutex::is_free

-----------------------------------------------------------------------------
(* What a caller does.                                                     *)

Open == {s \in Sections : pc[s] # "idle"}
InCall(s) == pc[s] \notin {"idle", "reading", "writing"}

\* The thread of section s is executing no call.
ThreadFree(s) == \A r \in Sections : ThreadOf[r] = ThreadOf[s] => ~InCall(r)

OpenElsewhere(s) == {r \in Open : ThreadOf[r] = ThreadOf[s]}

CallAcquireRead(s) ==
  /\ ThreadFree(s)
  /\ OpenElsewhere(s) \subseteq IF NestedReads THEN Reads ELSE {}
  /\ Goto(s, "idle", "increment")
  /\ UNCHANGED <<held, readers>>

CallAcquireWrite(s) ==
  /\ ThreadFree(s)
  /\ OpenElsewhere(s) = {}
  /\ Goto(s, "idle", "take")
  /\ UNCHANGED <<held, readers>>

-----------------------------------------------------------------------------
(* acquire_read and release_read                                           *)

IncrementReaders(s) ==
  /\ Goto(s, "increment", "check")
  /\ readers' = readers + 1
  /\ UNCHANGED held

\* Mutant: acquire_read looks at the mutex only while it waits for it.
EnterReadUnchecked(s) ==
  /\ Goto(s, "check", "reading")
  /\ UNCHANGED <<held, readers>>

EnterRead(s) ==
  /\ IsFree
  /\ Goto(s, "check", "reading")
  /\ UNCHANGED <<held, readers>>

SeeWriter(s) ==
  /\ ~IsFree
  /\ Goto(s, "check", "retreat")
  /\ UNCHANGED <<held, readers>>

\* Mutant: the reader waits for the writer without leaving the count.
RetreatCounted(s) ==
  /\ Goto(s, "retreat", "await")
  /\ UNCHANGED <<held, readers>>

\* release_read, called by acquire_read before it waits.
Retreat(s) ==
  /\ Goto(s, "retreat", "await")
  /\ readers' = readers - 1
  /\ UNCHANGED held

\* write.wait_until_free returned.
Retry(s) ==
  /\ IsFree
  /\ Goto(s, "await", "increment")
  /\ UNCHANGED <<held, readers>>

\* Mutant: the release leaves the count as it is.
ReleaseReadUncounted(s) ==
  /\ ThreadFree(s)
  /\ Goto(s, "reading", "idle")
  /\ UNCHANGED <<held, readers>>

ReleaseRead(s) ==
  /\ ThreadFree(s)
  /\ Goto(s, "reading", "idle")
  /\ readers' = readers - 1
  /\ UNCHANGED held

-----------------------------------------------------------------------------
(* acquire_write and release_write                                         *)

\* write.acquire succeeds on a free mutex and on one its thread holds.
TakeWrite(s) ==
  /\ held \in {NoThread, ThreadOf[s]}
  /\ Goto(s, "take", "drain")
  /\ held' = ThreadOf[s]
  /\ UNCHANGED readers

\* wait_until_zero(&readers) returned.
DrainReaders(s) ==
  /\ readers = 0
  /\ Goto(s, "drain", "writing")
  /\ UNCHANGED <<held, readers>>

ReleaseWrite(s) ==
  /\ ThreadFree(s)
  /\ held = ThreadOf[s]
  /\ Goto(s, "writing", "idle")
  /\ held' = NoThread
  /\ UNCHANGED readers

-----------------------------------------------------------------------------
ReadStep(s) ==
  \/ IncrementReaders(s)
  \/ EnterRead(s)
  \/ SeeWriter(s)
  \/ Retreat(s)
  \/ Retry(s)

WriteStep(s) == TakeWrite(s) \/ DrainReaders(s)

Next ==
  \/ \E s \in Reads : CallAcquireRead(s) \/ ReadStep(s) \/ ReleaseRead(s)
  \/ \E s \in Writes : CallAcquireWrite(s) \/ WriteStep(s) \/ ReleaseWrite(s)

Spec == Init /\ [][Next]_vars

\* The scheduler keeps a thread that is in a call running, and the program
\* closes each section it opens.
Fairness ==
  /\ \A s \in Reads : WF_vars(ReadStep(s)) /\ WF_vars(ReleaseRead(s))
  /\ \A s \in Writes : WF_vars(WriteStep(s)) /\ WF_vars(ReleaseWrite(s))

FairSpec == Spec /\ Fairness

-----------------------------------------------------------------------------
(* Properties                                                              *)

\* The sections that stand in the count: those that read, and those about to
\* find out whether they may.
Counted == {s \in Reads : pc[s] \in {"check", "retreat", "reading"}}

\* The count is exact between any two interlocked steps, through every retreat
\* and retry: a writer that sees 0 has the lock to itself, and no decrement
\* takes the count below 0.
ReadersCounted == readers = Cardinality(Counted)

\* A WriteMutex implements the abstract lock: a section opens to read when no
\* section writes, and to write when none is open, although each side looks at
\* the other's word after it has changed its own and never at both at once.
RWLock == INSTANCE ReadWriteLock
            WITH reading <- {s \in Reads : pc[s] = "reading"},
                 writing <- {s \in Writes : pc[s] = "writing"}
ImplementsRWLock == RWLock!RWSpec

\* A writer that has the mutex gets in: readers that keep coming cannot hold
\* the count above 0 for ever.
WriterGetsIn ==
  \A s \in Writes : pc[s] = "drain" ~> pc[s] = "writing"

\* Readers and writers never all hold each other up: while calls are waiting,
\* some section gets open.
SomebodyGetsIn ==
  (\E s \in Sections : InCall(s)) ~> (\E s \in Sections : pc[s] \in {"reading", "writing"})
=============================================================================
