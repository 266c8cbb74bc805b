----------------------------- MODULE TestClient -----------------------------
(***************************************************************************)
(* The process that runs one request of the test server                    *)
(* (AxleTest/client/client.cpp): it opens the pipe, reads the request,     *)
(* lists its tests or runs one, writes its answer and exits.  A process is *)
(* started per request; the variables describe the last one started.       *)
(*                                                                         *)
(* Requests and answers are written and read field by field, one WriteFile *)
(* and one ReadFile each, through a pipe without buffers: a write is over  *)
(* when the other side has read it.  What matters of a message is how many *)
(* such transfers it takes, except for the type of a report.               *)
(***************************************************************************)
EXTENDS Naturals

CONSTANTS
  NumTests,     \* the tests the executable holds, numbered from 1
  Context       \* per test: "none", or whether the server has its context

Tests == 1..NumTests

ASSUME TestClientAssumption ==
  /\ NumTests \in Nat
  /\ Context \in [Tests -> {"none", "known", "unknown"}]

VARIABLES
  client,     \* where the process is
  request,    \* what it was started for: 0 is QueryTestInfo, i is Execute{i}
  heard,      \* transfers of the request it has read
  told,       \* transfers of the answer it has written
  outcome     \* what has become of each test

clientVars == <<client, request, heard, told, outcome>>

Outcomes == {"pass", "error", "leak", "panic"}

ClientTypeOK ==
  /\ client \in {"none", "starting", "reading", "running", "writing", "returning", "gone"}
  /\ request \in 0..NumTests
  /\ heard \in 0..7
  /\ told \in Nat
  /\ outcome \in [Tests -> Outcomes \union {"unknown"}]

ClientInit ==
  /\ client = "none"
  /\ request = 0
  /\ heard = 0
  /\ told = 0
  /\ outcome = [i \in Tests |-> "unknown"]

HeaderFields == 2                        \* version and type
DataFields == HeaderFields + 2           \* and length and data

RequestFields(r) ==
  IF r = 0 THEN HeaderFields
  ELSE HeaderFields + 1 + IF Context[r] = "none" THEN 0 ELSE DataFields

\* Two DataT messages, then two Data messages per test; the one for a context
\* that is not there carries no data, and a write of no bytes is over at once.
ListFields ==
  LET OfTest(i) == DataFields + IF Context[i] = "none" THEN DataFields - 1 ELSE DataFields
      Sum[i \in 0..NumTests] == IF i = 0 THEN 0 ELSE Sum[i - 1] + OfTest(i)
  IN 2 * DataFields + Sum[NumTests]

\* A report of success has no message; the one of a panic has the stack trace too.
ReportFields(o) ==
  HeaderFields + 3 + CASE o = "pass" -> 0
                       [] o \in {"error", "leak"} -> 1
                       [] o = "panic" -> 2

AnswerFields == IF request = 0 THEN ListFields ELSE ReportFields(outcome[request])

\* The type of the report: what a panic, a failed check or a leak comes to.
ReportType == IF outcome[request] = "pass" THEN "Success" ELSE "Failure"

-----------------------------------------------------------------------------
ClientStart(r) ==
  /\ client' = "starting"
  /\ request' = r
  /\ heard' = 0
  /\ told' = 0
  /\ UNCHANGED outcome

\* WaitNamedPipe and CreateFile.
ClientConnect ==
  /\ client = "starting"
  /\ client' = "reading"
  /\ UNCHANGED <<request, heard, told, outcome>>

\* Mutant: the context of a test is left in the pipe.
ClientReadNoContext ==
  /\ client = "reading"
  /\ heard' = heard + 1
  /\ client' = IF heard' = HeaderFields + IF request = 0 THEN 0 ELSE 1
               THEN IF request = 0 THEN "writing" ELSE "running"
               ELSE "reading"
  /\ UNCHANGED <<request, told, outcome>>

\* A field of the request is read; the last one sets the client to work.
ClientRead ==
  /\ client = "reading"
  /\ heard' = heard + 1
  /\ client' = IF heard' < RequestFields(request) THEN "reading"
               ELSE IF request = 0 THEN "writing" ELSE "running"
  /\ UNCHANGED <<request, told, outcome>>

\* The test is over: it passed, noted an error, left allocations behind or
\* panicked.  The panic callback writes its report like any other.
ClientRan(o) ==
  /\ client = "running"
  /\ client' = "writing"
  /\ outcome' = [outcome EXCEPT ![request] = o]
  /\ UNCHANGED <<request, heard, told>>

ClientWrite ==
  /\ client = "writing"
  /\ told' = told + 1
  /\ client' = IF told' < AnswerFields THEN "writing" ELSE "returning"
  /\ UNCHANGED <<request, heard, outcome>>

\* main returns, or ExitProcess, or the process dies of something no panic
\* callback sees, as it may at any time.
ClientEnd ==
  /\ client \in {"starting", "reading", "running", "writing", "returning"}
  /\ client' = "gone"
  /\ UNCHANGED <<request, heard, told, outcome>>

ClientAlive == client \notin {"none", "gone"}
=============================================================================
