------------------------------- MODULE Panic -------------------------------
(***************************************************************************)
(* Threads, the lock of the standard streams and panics (src/threading.cpp,*)
(* src/io.cpp, src/utility.cpp).  A panic of any thread is reported under  *)
(* that lock and ends the process; the flag `panicking' is read and set    *)
(* without one.  The lock is a Mutex (module Mutex), here by what it       *)
(* promises: its holder, by id, may take it again, and the first release   *)
(* gives it up.                                                            *)
(***************************************************************************)
EXTENDS Integers, FiniteSets

CONSTANTS
  Main,        \* the thread of main
  Started,     \* the threads start_thread can start
  MaxPrints    \* bound: how often the threads lock the streams

ASSUME PanicAssumption == Main \notin Started /\ IsFiniteSet(Started) /\ MaxPrints \in Nat

VARIABLES
  thPc,           \* where each thread is
  thId,           \* THREAD_ID of each thread
  thCounter,      \* thread_id_counter
  thInfo,         \* whether the ThreadingInfo of each is allocated, or was freed
  thHandle,       \* the same of its ThreadHandle
  thMisuse,       \* a record was used or freed when it was not there
  ioHeld,         \* io_mutex: 0, or the id of its holder
  ioPrints,       \* how often it was taken outside of panics
  panicking,      \* panicking
  panicCalled,    \* the threads that called the callback
  panicReported,  \* the threads whose message was written in full
  panicEnded      \* std::terminate was called

panicVars == <<thPc, thId, thCounter, thInfo, thHandle, thMisuse, ioHeld, ioPrints, panicking, panicCalled, panicReported, panicEnded>>
recordVars == <<thInfo, thHandle, thMisuse>>

Threads == Started \union {Main}
Running == {"run", "print"}
Panics == {"panic", "set", "callback", "report", "again", "terminate"}

PanicTypeOK ==
  /\ thPc \in [Threads -> {"none", "created", "ended"} \union Running \union Panics]
  /\ thId \in [Threads -> Nat \ {0}] /\ thCounter \in Nat
  /\ {thInfo, thHandle} \subseteq [Started -> {"none", "live", "freed"}]
  /\ ioHeld \in {0} \union {thId[t] : t \in Threads} /\ ioPrints \in 0..MaxPrints
  /\ {panicCalled, panicReported} \subseteq SUBSET Threads /\ {thMisuse, panicking, panicEnded} \subseteq BOOLEAN

PanicInit ==
  /\ thPc = [t \in Threads |-> IF t = Main THEN "run" ELSE "none"]
  /\ thId = [t \in Threads |-> 1] /\ thCounter = 1
  /\ thInfo = [t \in Started |-> "none"] /\ thHandle = [t \in Started |-> "none"]
  /\ ioHeld = 0 /\ ioPrints = 0
  /\ panicCalled = {} /\ panicReported = {} /\ thMisuse = FALSE /\ panicking = FALSE /\ panicEnded = FALSE

GoTo(t, from, to) == thPc[t] = from /\ thPc' = [thPc EXCEPT ![t] = to]

\* start_thread, by any thread.
StartThread(by, t) ==
  /\ thPc[by] = "run" /\ GoTo(t, "none", "created")
  /\ thInfo' = [thInfo EXCEPT ![t] = "live"] /\ thHandle' = [thHandle EXCEPT ![t] = "live"]
  /\ UNCHANGED <<thId, thCounter, thMisuse, ioHeld, ioPrints, panicking, panicCalled, panicReported, panicEnded>>

\* Mutant: a thread has the id that the counter had before.
BeginThreadOldId(t) ==
  /\ GoTo(t, "created", "run")
  /\ thCounter' = thCounter + 1 /\ thId' = [thId EXCEPT ![t] = thCounter]
  /\ thMisuse' = (thMisuse \/ thInfo[t] # "live" \/ thHandle[t] # "live")
  /\ UNCHANGED <<thInfo, thHandle, ioHeld, ioPrints, panicking, panicCalled, panicReported, panicEnded>>

\* generic_thread_proc up to the call of proc, which is given the handle.
BeginThread(t) ==
  /\ GoTo(t, "created", "run")
  /\ thCounter' = thCounter + 1 /\ thId' = [thId EXCEPT ![t] = thCounter']
  /\ thMisuse' = (thMisuse \/ thInfo[t] # "live" \/ thHandle[t] # "live")
  /\ UNCHANGED <<thInfo, thHandle, ioHeld, ioPrints, panicking, panicCalled, panicReported, panicEnded>>

\* proc returns, and generic_thread_proc frees what it was given.
EndThread(t) ==
  /\ GoTo(t, "run", "ended")
  /\ thInfo' = [thInfo EXCEPT ![t] = "freed"]
  /\ thMisuse' = (thMisuse \/ thInfo[t] # "live")
  /\ UNCHANGED <<thId, thCounter, thHandle, ioHeld, ioPrints, panicking, panicCalled, panicReported, panicEnded>>

\* wait_for_thread_end, which returns when the thread has ended; called once for a thread,
\* and by no thread that holds the lock.
WaitForThreadEnd(by, t) ==
  /\ thPc[by] = "run" /\ thPc[t] = "ended" /\ thHandle[t] = "live"
  /\ thHandle' = [thHandle EXCEPT ![t] = "freed"]
  /\ UNCHANGED <<thPc, thId, thCounter, thInfo, thMisuse, ioHeld, ioPrints, panicking, panicCalled, panicReported, panicEnded>>

\* Mutant: the lock is not given to its holder a second time.
TakesNever(t) == ioHeld = 0

\* Mutex::acquire.
Takes(t) == ioHeld \in {0, thId[t]}

\* ScopeLock around prints.
LockStreams(t) ==
  /\ ioPrints < MaxPrints /\ Takes(t) /\ GoTo(t, "run", "print")
  /\ ioHeld' = thId[t] /\ ioPrints' = ioPrints + 1
  /\ UNCHANGED <<thId, thCounter, recordVars, panicking, panicCalled, panicReported, panicEnded>>

UnlockStreams(t) ==
  /\ GoTo(t, "print", "run") /\ ioHeld' = 0
  /\ UNCHANGED <<thId, thCounter, recordVars, ioPrints, panicking, panicCalled, panicReported, panicEnded>>

\* panic, from an assertion anywhere, also while the thread has the lock.
CallPanic(t) ==
  /\ \E from \in Running : GoTo(t, from, "panic")
  /\ UNCHANGED <<thId, thCounter, recordVars, ioHeld, ioPrints, panicking, panicCalled, panicReported, panicEnded>>

\* The branch on the flag; and, if it was not set, the assignment.
TestPanicking(t) ==
  /\ GoTo(t, "panic", IF panicking THEN "again" ELSE "set")
  /\ UNCHANGED <<thId, thCounter, recordVars, ioHeld, ioPrints, panicking, panicCalled, panicReported, panicEnded>>

\* Mutant: the flag is left for the callback to set.
SetPanickingNever(t) ==
  /\ GoTo(t, "set", "callback") /\ panicCalled' = panicCalled \union {t}
  /\ UNCHANGED <<thId, thCounter, recordVars, ioHeld, ioPrints, panicking, panicReported, panicEnded>>

SetPanicking(t) ==
  /\ GoTo(t, "set", "callback") /\ panicking' = TRUE /\ panicCalled' = panicCalled \union {t}
  /\ UNCHANGED <<thId, thCounter, recordVars, ioHeld, ioPrints, panicReported, panicEnded>>

\* default_panic_callback: its ScopeLock, and the message with the trace under it.
LockForReport(t) ==
  /\ Takes(t) /\ GoTo(t, "callback", "report") /\ ioHeld' = thId[t]
  /\ UNCHANGED <<thId, thCounter, recordVars, ioPrints, panicking, panicCalled, panicReported, panicEnded>>

Report(t) ==
  /\ GoTo(t, "report", "terminate") /\ panicReported' = panicReported \union {t} /\ ioHeld' = 0
  /\ UNCHANGED <<thId, thCounter, recordVars, ioPrints, panicking, panicCalled, panicEnded>>

\* An assertion fails while the message is written.
PanicInReport(t) ==
  /\ GoTo(t, "report", "panic")
  /\ UNCHANGED <<thId, thCounter, recordVars, ioHeld, ioPrints, panicking, panicCalled, panicReported, panicEnded>>

\* A panic while panicking writes its message without the lock.
ReportAgain(t) ==
  /\ GoTo(t, "again", "terminate") /\ panicReported' = panicReported \union {t}
  /\ UNCHANGED <<thId, thCounter, recordVars, ioHeld, ioPrints, panicking, panicCalled, panicEnded>>

Terminate(t) ==
  /\ thPc[t] = "terminate" /\ panicEnded' = TRUE
  /\ UNCHANGED <<thPc, thId, thCounter, recordVars, ioHeld, ioPrints, panicking, panicCalled, panicReported>>

\* What a thread does once it is in a panic, and how it gives the lock back.
PanicStep(t) ==
  /\ ~panicEnded
  /\ \/ TestPanicking(t) \/ SetPanicking(t) \/ LockForReport(t) \/ Report(t)
     \/ ReportAgain(t) \/ Terminate(t) \/ UnlockStreams(t)

PanicNext ==
  /\ ~panicEnded
  /\ \/ \E by \in Threads, t \in Started : StartThread(by, t) \/ WaitForThreadEnd(by, t)
     \/ \E t \in Started : BeginThread(t) \/ EndThread(t)
     \/ \E t \in Threads : LockStreams(t) \/ CallPanic(t) \/ PanicInReport(t) \/ PanicStep(t)

Writing == {"print", "report", "again"}

\* No thread calls the callback twice: one that panics in its callback does not start it
\* again.  Two threads may call it, if both look at the flag before either sets it.
CallbackOnce == \A t \in Threads : thPc[t] = "set" => t \notin panicCalled

\* The records of a thread are freed once, after their last use; the threads that run,
\* whose ids are the holders of every Mutex, have an id each; and so two threads write to
\* the streams together only if one of them panicked while the process was panicking: that
\* message alone is written without the lock.  No thread calls the callback twice.
ThreadsSound ==
  /\ ~thMisuse
  /\ \A t \in Started : thHandle[t] = "freed" => thInfo[t] = "freed"
  /\ \A t, u \in Threads : t # u /\ {thPc[t], thPc[u]} \cap {"none", "created"} = {} => thId[t] # thId[u]
  /\ \A t, u \in Threads :
       t # u /\ {thPc[t], thPc[u]} \subseteq Writing => panicking /\ "again" \in {thPc[t], thPc[u]}
  /\ CallbackOnce
=============================================================================
