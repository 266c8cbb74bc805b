--------------------------- MODULE TestRunProofs ----------------------------
(***************************************************************************)
(* Proofs about TestRun, for any number of tests with any contexts.        *)
(***************************************************************************)
EXTENDS TestRun, TLAPS

\* The process is that of the request the server is at, and only while it is.
InTurn ==
  /\ server \in {"connect", "write", "read", "end", "kill", "panicked"} => request = current
  /\ server \in {"start", "returned", "stopped"} => client \in {"none", "gone"}
  /\ server \in {"returned"} => current = NumTests
  /\ server = "stopped" => current = 0

\* Where the process may be, wherever the server is.
InStep ==
  /\ server = "connect" => client \in {"starting", "gone"} /\ sent = 0 /\ heard = 0 /\ got = 0 /\ told = 0
  /\ server = "write" => /\ client \in {"reading", "gone"}
                         /\ heard = sent
                         /\ sent < RequestFields(current)
                         /\ got = 0 /\ told = 0
  /\ server = "read" => client \in {"running", "writing", "gone"} /\ got = told
  /\ server = "end" => client \in {"returning", "gone"}
  /\ server = "kill" => client \in {"running", "writing", "gone"}
  /\ server = "panicked" => client \in {"reading", "gone"}
  /\ server = "start" => sent = 0 /\ got = 0

\* A test has an outcome once its process is past running it, never before.
RanOnce ==
  /\ client \in {"writing", "returning"} /\ request # 0 => outcome[request] \in Outcomes
  /\ client = "running" => request # 0
  /\ server \in {"start", "connect", "write", "panicked"} /\ current # 0
       => outcome[current] = "unknown"
  /\ \A i \in Tests : i > current => outcome[i] = "unknown"

\* The verdict on a test is passed at the end of its turn.
JudgedInTurn ==
  /\ \A i \in Tests : i < current => results[i] # "none"
  /\ \A i \in Tests : i > current => results[i] = "none"
  /\ current # 0 =>
       /\ server \in {"start", "connect", "write", "read", "panicked"} => results[current] = "none"
       /\ server = "kill" => results[current] = "NoMessage"
       /\ server \in {"end", "returned"} => results[current] # "none"

IInv == TypeOK /\ InTurn /\ InStep /\ RanOnce /\ JudgedInTurn /\ VerdictTruthful

-----------------------------------------------------------------------------
\* A request takes two, three or seven transfers.
LEMMA RequestLength == \A r \in 0..NumTests : RequestFields(r) \in {2, 3, 7}
BY DEF RequestFields, HeaderFields, DataFields

\* IInv holds initially.
LEMMA InitInv == Init => IInv
<1> SUFFICES ASSUME Init
             PROVE  IInv
  OBVIOUS
<1> USE TestClientAssumption DEF Init, ClientInit, ServerInit
<1>1. TypeOK
  BY DEF TypeOK, ClientTypeOK, ServerTypeOK
<1>2. InTurn /\ InStep
  BY DEF InTurn, InStep
<1>3. RanOnce /\ JudgedInTurn /\ VerdictTruthful
  BY DEF RanOnce, JudgedInTurn, VerdictTruthful, Tests
<1> QED
  BY <1>1, <1>2, <1>3 DEF IInv

\* The turn of a request passes to the next one with the invariant, whatever the
\* verdict it ends with, provided the process is gone.
LEMMA TurnEnds ==
  ASSUME IInv, NextTest, client' \in {"none", "gone"}, request' = request,
         heard' = heard, told' = told, outcome' = outcome,
         results' \in [Tests -> Verdicts \union {"none"}],
         \A i \in Tests : i # current => results'[i] = results[i],
         current # 0 => results'[current] \in Verdicts,
         current # 0 /\ results'[current] = "Success" => outcome[current] = "pass",
         current # 0 /\ results'[current] = "Failure" => outcome[current] \in Outcomes \ {"pass"}
  PROVE  IInv'
<1> USE TestClientAssumption DEF Tests
<1>0. /\ current \in 0..NumTests
      /\ sent' = 0 /\ got' = 0
      /\ \/ current < NumTests /\ current' = current + 1 /\ server' = "start"
         \/ current = NumTests /\ server' = "returned" /\ current' = current
  BY DEF IInv, TypeOK, ServerTypeOK, NextTest
<1>1. TypeOK'
  BY <1>0 DEF IInv, TypeOK, ClientTypeOK, ServerTypeOK, Ended
<1>2. InTurn'
  BY <1>0 DEF InTurn
<1>3. InStep'
  BY <1>0 DEF InStep
<1>4. RanOnce'
  BY <1>0 DEF IInv, RanOnce
<1>5. JudgedInTurn'
  BY <1>0 DEF IInv, JudgedInTurn, Verdicts
<1>6. VerdictTruthful'
  BY <1>0 DEF IInv, VerdictTruthful
<1> QED
  BY <1>1, <1>2, <1>3, <1>4, <1>5, <1>6 DEF IInv

\* Every step of the server, the process or both preserves IInv.
LEMMA NextInv == IInv /\ [Next]_vars => IInv'
<1> SUFFICES ASSUME IInv, [Next]_vars
             PROVE  IInv'
  OBVIOUS
<1> USE TestClientAssumption DEF Tests
<1>0. TypeOK /\ InTurn /\ InStep /\ RanOnce /\ JudgedInTurn /\ VerdictTruthful
  BY DEF IInv
<1>1. CASE Start
  <2>0. /\ server = "start" /\ server' = "connect" /\ client' = "starting" /\ request' = current
        /\ heard' = 0 /\ told' = 0
        /\ UNCHANGED <<outcome, current, sent, got, results>>
    BY <1>1 DEF Start, ServerStart, ClientStart
  <2>1. TypeOK' BY <1>0, <2>0 DEF TypeOK, ClientTypeOK, ServerTypeOK
  <2>2. InTurn' BY <1>0, <2>0 DEF InTurn
  <2>3. InStep' BY <1>0, <2>0 DEF InStep
  <2>4. RanOnce' BY <1>0, <2>0 DEF RanOnce
  <2>5. JudgedInTurn' BY <1>0, <2>0 DEF JudgedInTurn
  <2>6. VerdictTruthful' BY <1>0, <2>0 DEF VerdictTruthful
  <2> QED BY <2>1, <2>2, <2>3, <2>4, <2>5, <2>6 DEF IInv
<1>2. CASE Connect
  <2>0. /\ server = "connect" /\ client = "starting" /\ server' = "write" /\ client' = "reading"
        /\ UNCHANGED <<request, heard, told, outcome, current, sent, got, results>>
    BY <1>2 DEF Connect, ServerConnected, ClientConnect
  <2>1. TypeOK' BY <1>0, <2>0 DEF TypeOK, ClientTypeOK, ServerTypeOK
  <2>2. InTurn' BY <1>0, <2>0 DEF InTurn
  <2>3. InStep' BY <1>0, <2>0, RequestLength DEF InStep, RequestFields, TypeOK, ServerTypeOK
  <2>4. RanOnce' BY <1>0, <2>0 DEF RanOnce
  <2>5. JudgedInTurn' BY <1>0, <2>0 DEF JudgedInTurn
  <2>6. VerdictTruthful' BY <1>0, <2>0 DEF VerdictTruthful
  <2> QED BY <2>1, <2>2, <2>3, <2>4, <2>5, <2>6 DEF IInv
<1>3. CASE TransferRequest
  <2> DEFINE last == ~(heard + 1 < RequestFields(request))
  <2>0. /\ server = "write" /\ client = "reading"
        /\ sent' = sent + 1 /\ heard' = heard + 1
        /\ server' = IF sent + 1 < RequestFields(current) THEN "write" ELSE "read"
        /\ client' = IF ~last THEN "reading" ELSE IF request = 0 THEN "writing" ELSE "running"
        /\ UNCHANGED <<request, told, outcome, current, got, results>>
    BY <1>3 DEF TransferRequest, ServerWrite, ClientRead
  <2>a. /\ request = current /\ heard = sent /\ sent < RequestFields(current)
        /\ RequestFields(current) \in {2, 3, 7}
        /\ current \in 0..NumTests /\ sent \in 0..7 /\ got = 0 /\ told = 0
    BY <1>0, <2>0, RequestLength DEF InTurn, InStep, TypeOK, ServerTypeOK
  <2>b. RequestFields(current)' = RequestFields(current)
    BY <2>0 DEF RequestFields
  <2>c. server' = IF last THEN "read" ELSE "write"
    BY <2>0, <2>a
  <2> HIDE DEF last
  <2>1. TypeOK' BY <1>0, <2>0, <2>a, <2>c DEF TypeOK, ClientTypeOK, ServerTypeOK
  <2>2. InTurn' BY <1>0, <2>0, <2>a, <2>c DEF InTurn
  <2>3. InStep' BY <1>0, <2>0, <2>a, <2>b, <2>c DEF InStep, last
  <2>4. RanOnce' BY <1>0, <2>0, <2>a, <2>c DEF RanOnce
  <2>5. JudgedInTurn' BY <1>0, <2>0, <2>a, <2>c DEF JudgedInTurn
  <2>6. VerdictTruthful' BY <1>0, <2>0 DEF VerdictTruthful
  <2> QED BY <2>1, <2>2, <2>3, <2>4, <2>5, <2>6 DEF IInv
<1>4. CASE TransferAnswer
  <2> DEFINE more == told + 1 < AnswerFields
  <2>a. /\ server = "read" /\ client = "writing" /\ request = current /\ got = told
        /\ current \in 0..NumTests
        /\ current # 0 => outcome[current] \in Outcomes /\ current \in Tests
    BY <1>0, <1>4 DEF TransferAnswer, ServerRead, ClientWrite, InTurn, InStep, RanOnce, TypeOK, ServerTypeOK
  <2>0. /\ got' = got + 1 /\ told' = told + 1
        /\ client' = IF more THEN "writing" ELSE "returning"
        /\ server' = IF more THEN "read" ELSE "end"
        /\ UNCHANGED <<request, heard, outcome, current, sent>>
    BY <1>4, <2>a DEF TransferAnswer, ServerRead, ClientWrite
  <2>b. \/ UNCHANGED results /\ (more \/ current = 0)
        \/ ~more /\ current # 0 /\ results' = [results EXCEPT ![current] = ReportType]
    BY <1>4, <2>a DEF TransferAnswer, ServerRead, ClientWrite, Judge
  <2> HIDE DEF more
  <2>c. ReportType = IF outcome[current] = "pass" THEN "Success" ELSE "Failure"
    BY <2>a DEF ReportType
  <2>1. TypeOK' BY <1>0, <2>0, <2>a, <2>b, <2>c DEF TypeOK, ClientTypeOK, ServerTypeOK, Verdicts
  <2>2. InTurn' BY <1>0, <2>0, <2>a DEF InTurn
  <2>3. InStep' BY <1>0, <2>0, <2>a DEF InStep
  <2>4. RanOnce' BY <1>0, <2>0, <2>a DEF RanOnce
  <2>5. JudgedInTurn'
    BY <1>0, <2>0, <2>a, <2>b, <2>c DEF JudgedInTurn, TypeOK, ServerTypeOK
  <2>6. VerdictTruthful'
    BY <1>0, <2>0, <2>a, <2>b, <2>c DEF VerdictTruthful, TypeOK, ServerTypeOK
  <2> QED BY <2>1, <2>2, <2>3, <2>4, <2>5, <2>6 DEF IInv
<1>5. CASE WriteBreaks
  <2>0. /\ server = "write" /\ server' = "panicked"
        /\ UNCHANGED <<clientVars, current, sent, got, results>>
    BY <1>5 DEF WriteBreaks, ServerWriteFails
  <2>1. TypeOK' BY <1>0, <2>0 DEF TypeOK, ClientTypeOK, ServerTypeOK, clientVars, Ended
  <2>2. InTurn' BY <1>0, <2>0 DEF InTurn, clientVars
  <2>3. InStep' BY <1>0, <2>0 DEF InStep, clientVars
  <2>4. RanOnce' BY <1>0, <2>0 DEF RanOnce, clientVars
  <2>5. JudgedInTurn' BY <1>0, <2>0 DEF JudgedInTurn
  <2>6. VerdictTruthful' BY <1>0, <2>0 DEF VerdictTruthful, clientVars
  <2> QED BY <2>1, <2>2, <2>3, <2>4, <2>5, <2>6 DEF IInv
<1>6. CASE ReadBreaks
  <2>0. /\ server = "read" /\ server' = "kill"
        /\ UNCHANGED <<clientVars, current, sent, got>>
        /\ \/ current = 0 /\ UNCHANGED results
           \/ current # 0 /\ results' = [results EXCEPT ![current] = "NoMessage"]
        /\ current \in 0..NumTests
    BY <1>0, <1>6 DEF ReadBreaks, ServerReadFails, Judge, TypeOK, ServerTypeOK
  <2>1. TypeOK' BY <1>0, <2>0 DEF TypeOK, ClientTypeOK, ServerTypeOK, clientVars, Verdicts
  <2>2. InTurn' BY <1>0, <2>0 DEF InTurn, clientVars
  <2>3. InStep' BY <1>0, <2>0 DEF InStep, clientVars
  <2>4. RanOnce' BY <1>0, <2>0 DEF RanOnce, clientVars
  <2>5. JudgedInTurn' BY <1>0, <2>0 DEF JudgedInTurn, TypeOK, ServerTypeOK
  <2>6. VerdictTruthful' BY <1>0, <2>0 DEF VerdictTruthful, clientVars, TypeOK, ServerTypeOK
  <2> QED BY <2>1, <2>2, <2>3, <2>4, <2>5, <2>6 DEF IInv
<1>7. CASE EndChild
  <2>0. /\ server \in {"end", "kill"} /\ client' = "gone"
        /\ UNCHANGED <<request, heard, told, outcome, results>>
        /\ \/ server = "kill" /\ current = 0 /\ server' = "stopped" /\ UNCHANGED <<current, sent, got>>
           \/ NextTest
    BY <1>7 DEF EndChild, ServerEndChild
  <2>1. CASE server = "kill" /\ current = 0 /\ server' = "stopped" /\ UNCHANGED <<current, sent, got>>
    <3>1. TypeOK' BY <1>0, <2>0, <2>1 DEF TypeOK, ClientTypeOK, ServerTypeOK, Ended
    <3>2. InTurn' BY <1>0, <2>0, <2>1 DEF InTurn
    <3>3. InStep' BY <1>0, <2>0, <2>1 DEF InStep
    <3>4. RanOnce' BY <1>0, <2>0, <2>1 DEF RanOnce
    <3>5. JudgedInTurn' BY <1>0, <2>0, <2>1 DEF JudgedInTurn
    <3>6. VerdictTruthful' BY <1>0, <2>0, <2>1 DEF VerdictTruthful
    <3> QED BY <3>1, <3>2, <3>3, <3>4, <3>5, <3>6 DEF IInv
  <2>2. CASE NextTest
    <3>1. current # 0 => current \in Tests /\ results'[current] \in Verdicts
      BY <1>0, <2>0 DEF JudgedInTurn, TypeOK, ServerTypeOK
    <3> QED
      BY <1>0, <2>0, <2>2, <3>1, TurnEnds DEF TypeOK, ServerTypeOK, VerdictTruthful
  <2> QED BY <2>0, <2>1, <2>2
<1>8. CASE ServerSkip /\ UNCHANGED clientVars
  <2>1. /\ NextTest /\ server = "start" /\ current \in Tests
        /\ results' = [results EXCEPT ![current] = "InvalidContext"]
        /\ client' \in {"none", "gone"} /\ request' = request
        /\ heard' = heard /\ told' = told /\ outcome' = outcome
    BY <1>0, <1>8 DEF ServerSkip, ContextMissing, Judge, InTurn, clientVars, TypeOK, ServerTypeOK
  <2> QED BY <1>0, <2>1, TurnEnds DEF TypeOK, ServerTypeOK, Verdicts
<1>9. CASE ServerStartFails /\ UNCHANGED clientVars
  <2>1. /\ server = "start" /\ client' \in {"none", "gone"} /\ request' = request
        /\ heard' = heard /\ told' = told /\ outcome' = outcome
        /\ current \in 0..NumTests
    BY <1>0, <1>9 DEF ServerStartFails, InTurn, clientVars, TypeOK, ServerTypeOK
  <2>2. CASE current = 0 /\ server' = "stopped" /\ UNCHANGED <<current, sent, got, results>>
    <3>0. UNCHANGED clientVars BY <1>9
    <3>1. TypeOK' BY <1>0, <3>0, <2>2 DEF TypeOK, ClientTypeOK, ServerTypeOK, Ended, clientVars
    <3>2. InTurn' BY <1>0, <2>1, <2>2 DEF InTurn
    <3>3. InStep' BY <1>0, <2>1, <2>2 DEF InStep
    <3>4. RanOnce' BY <1>0, <3>0, <2>2 DEF RanOnce, clientVars
    <3>5. JudgedInTurn' BY <1>0, <2>1, <2>2 DEF JudgedInTurn
    <3>6. VerdictTruthful' BY <1>0, <2>1, <2>2 DEF VerdictTruthful
    <3> QED BY <3>1, <3>2, <3>3, <3>4, <3>5, <3>6 DEF IInv
  <2>3. CASE /\ current # 0 /\ NextTest
             /\ results' = [results EXCEPT ![current] = "NoProcess"]
    BY <1>0, <2>1, <2>3, TurnEnds DEF TypeOK, ServerTypeOK, Verdicts
  <2> QED BY <1>9, <2>2, <2>3 DEF ServerStartFails, NoProcess, Judge
<1>10. CASE ClientEnd /\ UNCHANGED serverVars
  <2>0. /\ client \notin {"none", "gone"} /\ client' = "gone"
        /\ UNCHANGED <<request, heard, told, outcome, serverVars>>
    BY <1>10 DEF ClientEnd
  <2>1. TypeOK' BY <1>0, <2>0 DEF TypeOK, ClientTypeOK, ServerTypeOK, serverVars
  <2>2. InTurn' BY <1>0, <2>0 DEF InTurn, serverVars
  <2>3. InStep' BY <1>0, <2>0 DEF InStep, serverVars, RequestFields
  <2>4. RanOnce' BY <1>0, <2>0 DEF RanOnce, serverVars
  <2>5. JudgedInTurn' BY <1>0, <2>0 DEF JudgedInTurn, serverVars
  <2>6. VerdictTruthful' BY <1>0, <2>0 DEF VerdictTruthful, serverVars
  <2> QED BY <2>1, <2>2, <2>3, <2>4, <2>5, <2>6 DEF IInv
<1>11. ASSUME NEW o \in Outcomes, ClientRan(o), UNCHANGED serverVars
       PROVE  IInv'
  <2>0. /\ client = "running" /\ client' = "writing"
        /\ outcome' = [outcome EXCEPT ![request] = o]
        /\ UNCHANGED <<request, heard, told, serverVars>>
    BY <1>11 DEF ClientRan
  <2>a. /\ server \in {"read", "kill"} /\ request = current /\ current \in Tests
        /\ results[current] \in {"none", "NoMessage"}
    BY <1>0, <2>0 DEF TypeOK, ServerTypeOK, InTurn, InStep, RanOnce, JudgedInTurn, Ended
  <2>1. TypeOK' BY <1>0, <2>0 DEF TypeOK, ClientTypeOK, ServerTypeOK, serverVars
  <2>2. InTurn' BY <1>0, <2>0, <2>a DEF InTurn, serverVars
  <2>3. InStep' BY <1>0, <2>0, <2>a DEF InStep, serverVars
  <2>4. RanOnce' BY <1>0, <2>0, <2>a DEF RanOnce, serverVars, TypeOK, ClientTypeOK
  <2>5. JudgedInTurn' BY <1>0, <2>0 DEF JudgedInTurn, serverVars
  <2>6. VerdictTruthful'
    BY <1>0, <2>0, <2>a DEF VerdictTruthful, serverVars, TypeOK, ClientTypeOK
  <2> QED BY <2>1, <2>2, <2>3, <2>4, <2>5, <2>6 DEF IInv
<1>12. CASE UNCHANGED vars
  <2> USE <1>12 DEF vars, clientVars, serverVars
  <2>1. TypeOK' BY <1>0 DEF TypeOK, ClientTypeOK, ServerTypeOK
  <2>2. InTurn' BY <1>0 DEF InTurn
  <2>3. InStep' BY <1>0 DEF InStep, RequestFields
  <2>4. RanOnce' BY <1>0 DEF RanOnce
  <2>5. JudgedInTurn' BY <1>0 DEF JudgedInTurn
  <2>6. VerdictTruthful' BY <1>0 DEF VerdictTruthful
  <2> QED BY <2>1, <2>2, <2>3, <2>4, <2>5, <2>6 DEF IInv
<1>13. CASE ConnectBreaks
  <2>1. /\ server = "connect" /\ client' = "gone"
        /\ request' = request /\ heard' = heard /\ told' = told /\ outcome' = outcome
        /\ current \in 0..NumTests
    BY <1>0, <1>13 DEF ConnectBreaks, ServerConnectFails, TypeOK, ServerTypeOK
  <2>2. CASE current = 0 /\ server' = "stopped" /\ UNCHANGED <<current, sent, got, results>>
    <3>1. TypeOK' BY <1>0, <2>1, <2>2 DEF TypeOK, ClientTypeOK, ServerTypeOK, Ended
    <3>2. InTurn' BY <1>0, <2>1, <2>2 DEF InTurn
    <3>3. InStep' BY <1>0, <2>1, <2>2 DEF InStep
    <3>4. RanOnce' BY <1>0, <2>1, <2>2 DEF RanOnce
    <3>5. JudgedInTurn' BY <1>0, <2>1, <2>2 DEF JudgedInTurn
    <3>6. VerdictTruthful' BY <1>0, <2>1, <2>2 DEF VerdictTruthful
    <3> QED BY <3>1, <3>2, <3>3, <3>4, <3>5, <3>6 DEF IInv
  <2>3. CASE /\ current # 0 /\ NextTest
             /\ results' = [results EXCEPT ![current] = "NoProcess"]
    BY <1>0, <2>1, <2>3, TurnEnds DEF TypeOK, ServerTypeOK, Verdicts
  <2> QED BY <1>13, <2>2, <2>3 DEF ConnectBreaks, ServerConnectFails, NoProcess, Judge
<1> QED
  BY <1>1, <1>2, <1>3, <1>4, <1>5, <1>6, <1>7, <1>8, <1>9, <1>10, <1>11, <1>12, <1>13
     DEF Next, ServerStep, ServerAlone, ClientAlone

-----------------------------------------------------------------------------
\* IInv holds of every run of the tests.
LEMMA SpecInv == Spec => []IInv
<1>1. Init => IInv BY InitInv
<1>2. IInv /\ [Next]_vars => IInv' BY NextInv
<1> QED BY <1>1, <1>2, PTL DEF Spec

\* The variables of the server and of the process have their types.
THEOREM TypeCorrect == Spec => []TypeOK
<1>1. IInv => TypeOK BY DEF IInv
<1> QED BY <1>1, SpecInv, PTL

\* No verdict of server_main contradicts what the test did.
THEOREM Truthful == Spec => []VerdictTruthful
<1>1. IInv => VerdictTruthful BY DEF IInv
<1> QED BY <1>1, SpecInv, PTL

\* server_main returns true only with a verdict on every test.
THEOREM Judged == Spec => []AllJudged
<1>1. IInv => AllJudged
  BY TestClientAssumption
     DEF IInv, InTurn, JudgedInTurn, AllJudged, TypeOK, ServerTypeOK, Tests
<1> QED BY <1>1, SpecInv, PTL

\* If server_main panics, the test it is at has not run.
THEOREM Isolated == Spec => []TestIsolated
<1>1. IInv => TestIsolated BY DEF IInv, RanOnce, TestIsolated
<1> QED BY <1>1, SpecInv, PTL

\* A process of the server never outlives its turn, whether it was connected or the
\* connection to it failed.
THEOREM Reaped == Spec => []NoOrphans
<1>1. IInv => NoOrphans BY DEF IInv, InTurn, NoOrphans, ClientAlive
<1> QED BY <1>1, SpecInv, PTL
=============================================================================
