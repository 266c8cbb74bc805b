----------------------------- MODULE TestServer -----------------------------
(***************************************************************************)
(* server_main (AxleTest/server/server.cpp): it asks one process for the   *)
(* list of tests, then starts a process per test, sends it the request,    *)
(* reads the report and ends the process.                                  *)
(*                                                                         *)
(* A read that fails (the process is gone, or TIMEOUT_TIME_MS has passed)  *)
(* is that test's failure; a write that fails is an assertion, and the     *)
(* server panics.  ConnectNamedPipe waits for the process without limit,   *)
(* and may also fail with the process running.                             *)
(***************************************************************************)
EXTENDS TestClient

VARIABLES
  server,    \* where server_main is
  current,   \* the request it is at: 0 for the query, i for test i
  sent,      \* transfers of that request written
  got,       \* transfers of its answer read
  results    \* the verdict on each test

serverVars == <<server, current, sent, got, results>>

Verdicts == {"Success", "Failure", "InvalidContext", "NoProcess", "NoMessage"}
Ended == {"returned", "stopped", "panicked"}

ServerTypeOK ==
  /\ server \in {"start", "connect", "write", "read", "end", "kill"} \union Ended
  /\ current \in 0..NumTests
  /\ sent \in 0..7
  /\ got \in Nat
  /\ results \in [Tests -> Verdicts \union {"none"}]

ServerInit ==
  /\ server = "start"
  /\ current = 0
  /\ sent = 0
  /\ got = 0
  /\ results = [i \in Tests |-> "none"]

\* Mutant: the loop runs one past its end.
NextTestPastEnd ==
  /\ sent' = 0
  /\ got' = 0
  /\ \/ current <= NumTests /\ current' = current + 1 /\ server' = "start"
     \/ current > NumTests /\ server' = "returned" /\ UNCHANGED current

\* The next turn of the loop over the tests.
NextTest ==
  /\ sent' = 0
  /\ got' = 0
  /\ \/ current < NumTests /\ current' = current + 1 /\ server' = "start"
     \/ current = NumTests /\ server' = "returned" /\ UNCHANGED current

Judge(verdict) == results' = [results EXCEPT ![current] = verdict]

-----------------------------------------------------------------------------
ContextMissing == current # 0 /\ Context[current] = "unknown"

\* No context of the name the test asks for: the test fails, no process starts.
ServerSkip ==
  /\ server = "start"
  /\ ContextMissing
  /\ Judge("InvalidContext")
  /\ NextTest

\* CreateNamedPipe and CreateProcess.
ServerStart ==
  /\ server = "start"
  /\ ~ContextMissing
  /\ server' = "connect"
  /\ UNCHANGED <<current, sent, got, results>>

\* start_test_executable returns no process: without a list of tests the server
\* returns false, and a test fails.
NoProcess ==
  \/ /\ current = 0
     /\ server' = "stopped"
     /\ UNCHANGED <<current, sent, got, results>>
  \/ /\ current # 0
     /\ Judge("NoProcess")
     /\ NextTest

\* The pipe or the process cannot be created.
ServerStartFails ==
  /\ server = "start"
  /\ ~ContextMissing
  /\ NoProcess

ServerConnected ==
  /\ server = "connect"
  /\ server' = "write"
  /\ UNCHANGED <<current, sent, got, results>>

\* Mutant: the process is left running.
ServerConnectFailsUnkilled ==
  /\ server = "connect"
  /\ UNCHANGED client
  /\ NoProcess

\* ConnectNamedPipe fails, and not because the process was there first: terminate_child
\* ends the process at once.
ServerConnectFails ==
  /\ server = "connect"
  /\ client' = "gone"
  /\ NoProcess

ServerWrite ==
  /\ server = "write"
  /\ sent' = sent + 1
  /\ server' = IF sent' < RequestFields(current) THEN "write" ELSE "read"
  /\ UNCHANGED <<current, got, results>>

\* The assertions of write_bytes.
ServerWriteFails ==
  /\ server = "write"
  /\ server' = "panicked"
  /\ UNCHANGED <<current, sent, got, results>>

\* The length of the answer follows from the fields the server has read of it.
ServerRead ==
  /\ server = "read"
  /\ got' = got + 1
  /\ IF got' < AnswerFields
     THEN UNCHANGED <<server, results>>
     ELSE /\ server' = "end"
          /\ IF current = 0 THEN UNCHANGED results ELSE Judge(ReportType)
  /\ UNCHANGED <<current, sent>>

\* Mutant: an answer that breaks off is what came of it so far.
ServerReadFailsLeniently ==
  /\ server = "read"
  /\ server' = "kill"
  /\ IF current = 0 THEN UNCHANGED results
     ELSE Judge(IF got > HeaderFields THEN "Success" ELSE "NoMessage")
  /\ UNCHANGED <<current, sent, got>>

\* Mutant: a test without a report is passed over.
ServerReadFailsUnjudged ==
  /\ server = "read"
  /\ server' = "kill"
  /\ UNCHANGED <<current, sent, got, results>>

\* Mutant: a read waits without limit.
ServerReadFailsUntimed ==
  /\ server = "read"
  /\ client = "gone"
  /\ server' = "kill"
  /\ IF current = 0 THEN UNCHANGED results ELSE Judge("NoMessage")
  /\ UNCHANGED <<current, sent, got>>

\* expect_report or expect_test_info returns false.
ServerReadFails ==
  /\ server = "read"
  /\ server' = "kill"
  /\ IF current = 0 THEN UNCHANGED results ELSE Judge("NoMessage")
  /\ UNCHANGED <<current, sent, got>>

\* terminate_child and DisconnectNamedPipe: the process has ended by itself or
\* is terminated, after a wait when its answer came and at once when it did not.
\* Without a list of tests the server returns false.
ServerEndChild ==
  /\ server \in {"end", "kill"}
  /\ client' = "gone"
  /\ IF server = "kill" /\ current = 0
     THEN server' = "stopped" /\ UNCHANGED <<current, sent, got>>
     ELSE NextTest
  /\ UNCHANGED results
=============================================================================
