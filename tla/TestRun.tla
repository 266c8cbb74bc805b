------------------------------ MODULE TestRun -------------------------------
(***************************************************************************)
(* A run of the tests: the server, the processes it starts and the pipe    *)
(* between them.  A transfer over the pipe is one step of both sides; a    *)
(* side that waits for the other may wait longer than its time limit, or   *)
(* find the other gone.                                                    *)
(***************************************************************************)
EXTENDS TestServer

vars == <<clientVars, serverVars>>

TypeOK == ClientTypeOK /\ ServerTypeOK

Init == ClientInit /\ ServerInit

-----------------------------------------------------------------------------
Start == ServerStart /\ ClientStart(current)

Connect == ClientConnect /\ ServerConnected

\* The connection fails, in whatever way the process is there or not.
ConnectBreaks == ServerConnectFails /\ UNCHANGED <<request, heard, told, outcome>>

TransferRequest == ServerWrite /\ ClientRead

TransferAnswer == ClientWrite /\ ServerRead

\* The client is gone, or has not read within the time limit.
WriteBreaks == ServerWriteFails /\ UNCHANGED clientVars

\* The client is gone, or has not written within the time limit.
ReadBreaks == ServerReadFails /\ UNCHANGED clientVars

EndChild == ServerEndChild /\ UNCHANGED <<request, heard, told, outcome>>

ServerAlone ==
  /\ ServerSkip \/ ServerStartFails
  /\ UNCHANGED clientVars

\* The client ends, or its test does.
ClientAlone ==
  /\ ClientEnd \/ \E o \in Outcomes : ClientRan(o)
  /\ UNCHANGED serverVars

ServerStep ==
  \/ Start
  \/ Connect
  \/ TransferRequest
  \/ TransferAnswer
  \/ WriteBreaks
  \/ ReadBreaks
  \/ EndChild
  \/ ServerAlone

Next == ServerStep \/ ConnectBreaks \/ ClientAlone

Spec == Init /\ [][Next]_vars

\* Every wait of the server but the one for a connection ends within a time
\* limit, and a process that does not die connects.  Nothing makes a connection fail.
FairSpec == Spec /\ WF_vars(ServerStep)

-----------------------------------------------------------------------------
(* Properties                                                              *)

\* No test is called a success that did not pass, and none a failure that did:
\* each report is that of the process started for the test, and of all of it.
VerdictTruthful ==
  \A i \in Tests :
    /\ results[i] = "Success" => outcome[i] = "pass"
    /\ results[i] = "Failure" => outcome[i] \in Outcomes \ {"pass"}

\* server_main returns true only with a verdict on every test, and has none on
\* a test it has not come to.
AllJudged ==
  \A i \in Tests :
    /\ server = "returned" => results[i] # "none"
    /\ i > current => results[i] = "none"

\* What a test does is that test's affair: if the server panics, it is at a test
\* that has not run.
TestIsolated == server = "panicked" /\ current # 0 => outcome[current] = "unknown"

\* No process outlives its turn: when the server starts the next one, and when
\* it returns, the one before has ended, also if it was started but not connected.
NoOrphans == server \in {"start", "returned", "stopped"} => ~ClientAlive

\* The run comes to an end, but for one case: the server waits for ever for
\* the connection of a process that died before it opened the pipe.
RunEnds == <>(server \in Ended \/ (server = "connect" /\ client = "gone"))
=============================================================================
