------------------------- MODULE TestFixture_proof --------------------------
(***************************************************************************)
(* What is invariant in the test programs, for both values of              *)
(* SharedMemory, whether a server was late or not: where the gtest thread  *)
(* is, what the records hold, where the server's thread is, what the       *)
(* fixture has undone, where the element is, and whence a shared memory    *)
(* segment comes.                                                          *)
(***************************************************************************)
EXTENDS TestOutline_proof

(* The test that runs, the rows of its outline, and the server-socket that *)
(* a Set leaves.                                                           *)
Body == Tests[process][test]
Running == process # "none"
Row == Outlines[process][test][line]
NextRow == Outlines[process][test][line + 1]
Sock == IF Body[line].property = "server-socket" THEN Body[line].value ELSE Row.sock

(* The gtest thread is at a step of a test; it waits for StartModel only   *)
(* in set_property.                                                        *)
LineInv ==
    /\ Running => /\ process \in DOMAIN Tests /\ test \in 1..Len(Tests[process])
                  /\ line \in 1..(Len(Body) + 4)
    /\ calling # "none" => Running /\ line <= Len(Body) /\ Body[line].op = "Set"

Element == [
    server_socket : {Default, 50051, 50052}, model_component : {"NULL", "SampleModel"},
    model_status_timeout : 0..600, channel : {"new", "ready", "failed"},
    meta : {"none", "FAILED", "SUCCESSFUL"}, next : {"sink", "consumer"},
    keeper : {"none", "message"}]
RecordInv ==
    /\ element \in Element
    /\ service \in [address : {Default, 50051, 50052}, status : {"RUNNING", "FAILED"}]

(* What test_server points to says where the server thread is. *)
ServerInv ==
    /\ test_server = "none" => thread = "none"
    /\ test_server = "NULL" => thread \in {"starting", "built"}
    /\ test_server = "live" <=> thread = "waiting"

(* The fixture leaves nothing, whether the test failed or not. *)
FixtureInv == Running =>
    /\ line > Len(Body) + 1 => pipeline = "none" /\ stream = "stopped" /\ bus = <<>>
    /\ line > Len(Body) + 3 => thread = "none"
    /\ line = 1 => thread = "none" /\ stream = "stopped" /\ bus = <<>>

(* What the outline says of the element's place, and of the capture of a   *)
(* bare element, is true even after a server was late.                     *)
PlaceHolds(k) ==
    /\ pipeline = k.pipe
    /\ stream # "stopped" => k.pipe = "PLAYING"
    /\ k.capture = "on" => capturing
    /\ k.pipe = "bare" => k.seen \subseteq output
PlaceInv == Running /\ line <= Len(Body) => PlaceHolds(Row)

(* Only a test that fails leaves a message that keeps the element. *)
KeptInv == Running /\ pipeline # "none" /\ element.keeper = "message" => failed

(* Whence a segment can come. *)
ShmInv ==
    /\ shm => SharedMemory
    /\ shm /\ ~Running => exit \in {"failed", "died"}
    /\ shm /\ Running =>
          \/ failed
          \/ pipeline \in {"NULL", "PLAYING"}
          \/ pipeline = "bare" /\ line <= Len(Body)
          \/ test = 1 /\ line = 1 /\ exit \in {"failed", "died"}
          \/ process = "LookoutVisionInferenceClientTest" /\ test = 1 /\ line # 1
          \/ process = "LookoutVisionInferenceClientTest" /\ test = 2 /\ line <= 3

BaseInv ==
    /\ TypeOK /\ LineInv /\ RecordInv /\ ServerInv /\ FixtureInv /\ PlaceInv
    /\ KeptInv /\ ShmInv

-----------------------------------------------------------------------------
(* Where the gtest thread is. *)

USE DEF gtest, capture, server, plugin, polling, history

(* The rule of each step. *)
LEMMA RuleOf ==
    ASSUME NEW k, NEW step, NEW m, Follows(k, step, m)
    PROVE  /\ step.op = "CaptureStdout" => AfterCaptureStdout(k, m)
           /\ step.op = "Printed" => AfterPrinted(k, step.texts, m)
           /\ step.op = "RunServerInBackground" =>
                AfterRunServer(k, step.address, step.status, m)
           /\ step.op = "Shutdown" => AfterShutdown(k, m)
           /\ step.op = "join" => AfterJoin(k, m)
           /\ step.op = "Make" => AfterMake(k, "sink", "bare", m)
           /\ step.op = "Link" => /\ step.format \in {"any", "RGB"} <=> step.expected = "linked"
                                  /\ step.next \in {"sink", "consumer"}
                                  /\ AfterMake(k, step.next, "NULL", m)
           /\ step.op = "Unref" => AfterUnref(k, m)
           /\ step.op = "Set" =>
                \/ step.property = "server-socket" /\ AfterServerSocket(k, step.value, m)
                \/ step.property = "model-component" /\ AfterStartModel(k, k.sock, m)
                \/ step.property = "model-status-timeout" /\ AfterTimeout(k, step.value, m)
           /\ step.op = "Get" =>
                AfterGet(k, step.server_socket, step.model_component, step.timeout, m)
           /\ step.op = "Caps" => AfterCaps(k, step.dims, m)
           /\ step.op = "Play" => AfterPlay(k, m)
           /\ step.op = "Pop" => AfterPop(k, step.expected, m)
           /\ step.op \in {"MockThrows", "ShmReadOnly"} => AfterClientAlone(k, m)
           /\ step.op # "TearDown"
  BY DEF Follows

(* The test that runs and its outline. *)
LEMMA AtTest ==
    ASSUME LineInv, Running
    PROVE  /\ Len(Body) \in 1..12 /\ Outlines[process][test][1] = Fresh
           /\ \A l \in 1..Len(Body) :
                Follows(Outlines[process][test][l], Body[l], Outlines[process][test][l + 1])
           /\ Outlines[process][test][Len(Body) + 1].capture = "off"
           /\ Outlines[process][test][Len(Body) + 1].pipe # "bare"
           /\ IsSteps(Body)
<1>1. Fits(Body, Outlines[process][test]) /\ IsSteps(Body)
  BY TestsFit DEF LineInv, Body
<1> QED
  BY <1>1 DEF Fits

(* The script is the test and what its fixture does after it. *)
LEMMA ScriptIs ==
    ASSUME LineInv, Running
    PROVE  /\ Len(Script) = Len(Body) + 3
           /\ \A l \in 1..Len(Body) : Script[l] = Body[l]
           /\ Script[Len(Body) + 1].op = "TearDown"
           /\ Script[Len(Body) + 2].op = "Shutdown"
           /\ Script[Len(Body) + 3].op = "join"
<1>1. PICK S : Body \in Seq(S)
  BY AtTest DEF IsSteps
<1>2. Script = Body \o <<TearDown>> \o StopServer
  BY DEF Script, Body
<1>3. /\ Len(Script) = Len(Body) + 3
      /\ \A l \in 1..Len(Body) : Script[l] = Body[l]
      /\ Script[Len(Body) + 1] = TearDown
      /\ Script[Len(Body) + 2] = CallShutdown
      /\ Script[Len(Body) + 3] = CallJoin
  BY <1>1, <1>2 DEF StopServer
<1> QED
  BY <1>3 DEF TearDown, CallShutdown, CallJoin

(* A step of the test, or of its fixture. *)
LEMMA AtStep ==
    ASSUME LineInv, NEW op, At(op)
    PROVE  /\ Running /\ calling = "none" /\ Op.op = op
           /\ Len(Body) \in 1..12 /\ line \in 1..(Len(Body) + 3)
           /\ line <= Len(Body) => Op = Body[line] /\ Follows(Row, Op, NextRow)
           /\ line = Len(Body) => NextRow.capture = "off" /\ NextRow.pipe # "bare"
           /\ line > Len(Body) =>
                \/ line = Len(Body) + 1 /\ op = "TearDown"
                \/ line = Len(Body) + 2 /\ op = "Shutdown"
                \/ line = Len(Body) + 3 /\ op = "join"
<1>1. Running /\ calling = "none" /\ Op.op = op /\ line <= Len(Script)
  BY DEF At, Running
<1>2. Len(Body) \in 1..12 /\ line \in 1..(Len(Body) + 3)
  BY <1>1, AtTest, ScriptIs DEF LineInv
<1>3. ASSUME line <= Len(Body)
      PROVE  Op = Body[line] /\ Follows(Row, Op, NextRow)
  BY <1>1, <1>2, <1>3, AtTest, ScriptIs DEF Op, Row, NextRow
<1>4. ASSUME line = Len(Body)
      PROVE  NextRow.capture = "off" /\ NextRow.pipe # "bare"
  BY <1>1, <1>4, AtTest DEF NextRow
<1>5. ASSUME line > Len(Body)
      PROVE  \/ line = Len(Body) + 1 /\ op = "TearDown"
             \/ line = Len(Body) + 2 /\ op = "Shutdown"
             \/ line = Len(Body) + 3 /\ op = "join"
  BY <1>1, <1>2, <1>5, ScriptIs DEF Op
<1> QED
  BY <1>1, <1>2, <1>3, <1>4, <1>5

(* TearDown is in the fixture, everything but it and StopServer in tests.  *)
LEMMA AtBody ==
    ASSUME LineInv, NEW op, At(op), op \notin {"TearDown", "Shutdown", "join"}
    PROVE  /\ line \in 1..Len(Body) /\ Op = Body[line] /\ Op.op = op
           /\ Follows(Row, Op, NextRow)
  BY AtStep

(* TearDown undoes the pipeline right after the last step of the test.     *)
LEMMA AtTearDown == LineInv /\ At("TearDown") => line = Len(Body) + 1
  BY AtStep, RuleOf

(* Set, of which some are calls of StartModel. *)
LEMMA AtCall ==
    ASSUME LineInv, calling # "none"
    PROVE  /\ Running /\ Len(Body) \in 1..12 /\ line \in 1..Len(Body) /\ Body[line].op = "Set"
           /\ Follows(Row, Body[line], NextRow)
           /\ line = Len(Body) => NextRow.capture = "off" /\ NextRow.pipe # "bare"
  BY AtTest DEF LineInv, Row, NextRow

(* What a step to the same or the next line leaves of the definitions. *)
LEMMA Moves ==
    ASSUME UNCHANGED <<process, test>>
    PROVE  /\ Body' = Body /\ (Running' <=> Running)
           /\ line' = line => Row' = Row /\ NextRow' = NextRow /\ Sock' = Sock
           /\ line' = line + 1 => Row' = NextRow
<1>1. Body' = Body /\ (Running' <=> Running)
  BY DEF Body, Running
<1>2. line' = line => Row' = Row /\ NextRow' = NextRow
  BY DEF Row, NextRow
<1>3. line' = line => Sock' = Sock
  BY <1>1, <1>2 DEF Sock
<1>4. line' = line + 1 => Row' = NextRow
  BY DEF Row, NextRow
<1> QED
  BY <1>1, <1>2, <1>3, <1>4

-----------------------------------------------------------------------------
(* What holds whether a server was late or not. *)

(* A step that passes, and a step inside set_property. *)
LEMMA LinePasses ==
    ASSUME LineInv, Running, calling' = "none", UNCHANGED <<process, test>>,
           \/ line <= Len(Body) + 3 /\ line' = line + 1
           \/ line <= Len(Body) /\ line' = Len(Body) + 1
    PROVE  LineInv'
<1>1. Len(Body) \in 1..12 /\ Body' = Body /\ Running'
  BY AtTest, Moves
<1> QED
  BY <1>1 DEF LineInv, Running

(* A step that stays where it is keeps the place of the gtest thread.      *)
LEMMA LineStays ==
    ASSUME LineInv, UNCHANGED <<process, test, line>>,
           calling' # "none" => Running /\ line <= Len(Body) /\ Body[line].op = "Set"
    PROVE  LineInv'
  BY Moves DEF LineInv, Running

(* A program that dies has no place in a test any more.                    *)
LEMMA LineDies == LineInv /\ Dies /\ calling = "none" => LineInv'
  BY DEF LineInv, Dies, Running

(* The gtest thread goes from step to step (RUN_ALL_TESTS). *)
LEMMA LineInvariant == LineInv /\ [Next]_vars => LineInv'
<1> SUFFICES ASSUME LineInv, [Next]_vars PROVE LineInv'
  OBVIOUS
<1> USE DEF Passes, Stays, Assert
<1>1. CASE DoCaptureStdout
  BY <1>1, AtStep, LinePasses, LineDies DEF DoCaptureStdout
<1>2. CASE GetCapturedStdout
  <2>1. line <= Len(Body) /\ Running /\ calling' = "none"
    BY <1>2, AtStep, AtBody DEF GetCapturedStdout
  <2>2. UNCHANGED <<process, test>> /\ line' \in {line + 1, Len(Body) + 1}
    BY <1>2 DEF GetCapturedStdout, Body
  <2> QED
    BY <2>1, <2>2, LinePasses, AtTest DEF LineInv
<1>3. CASE RunServerInBackground
  BY <1>3, AtStep, LinePasses, LineDies DEF RunServerInBackground
<1>4. CASE Shutdown
  BY <1>4, AtStep, LinePasses, LineDies DEF Shutdown
<1>5. CASE Join
  BY <1>5, AtStep, LinePasses DEF Join
<1>6. CASE MakeElement
  BY <1>6, AtStep, LinePasses DEF MakeElement
<1>7. CASE LinkPipeline
  <2>1. line <= Len(Body) /\ Running /\ calling' = "none"
    BY <1>7, AtStep, AtBody DEF LinkPipeline
  <2>2. UNCHANGED <<process, test>> /\ line' \in {line + 1, Len(Body) + 1}
    BY <1>7 DEF LinkPipeline, Body
  <2> QED
    BY <2>1, <2>2, LinePasses, AtTest DEF LineInv
<1>8. CASE UnrefElement
  BY <1>8, AtStep, LinePasses DEF UnrefElement
<1>9. CASE TearDownPipeline
  BY <1>9, AtStep, LinePasses DEF TearDownPipeline
<1>10. CASE SetServerSocket
  <2>1. Running /\ line <= Len(Body) /\ Body[line].op = "Set" /\ calling = "none"
    BY <1>10, AtStep, AtBody DEF SetServerSocket
  <2>2. CASE element.model_component = "NULL"
    BY <1>10, <2>1, <2>2, AtStep, LinePasses DEF SetServerSocket
  <2>3. CASE element.model_component # "NULL"
    BY <1>10, <2>1, <2>3, LineStays DEF SetServerSocket
  <2> QED
    BY <2>2, <2>3
<1>11. CASE SetModelComponent
  <2>1. Running /\ line <= Len(Body) /\ Body[line].op = "Set"
    BY <1>11, AtStep, AtBody DEF SetModelComponent
  <2> QED
    BY <1>11, <2>1, LineStays DEF SetModelComponent
<1>12. CASE SetModelStatusTimeout
  BY <1>12, AtStep, LinePasses DEF SetModelStatusTimeout
<1>13. CASE GetProperties
  <2>1. line <= Len(Body) /\ Running /\ calling = "none"
    BY <1>13, AtStep, AtBody DEF GetProperties
  <2>2. Dies \/ (/\ UNCHANGED <<process, test, calling>>
                 /\ line' \in {line + 1, Len(Body) + 1})
    BY <1>13 DEF GetProperties, Body
  <2> QED
    BY <2>1, <2>2, LinePasses, LineDies, AtTest DEF LineInv
<1>14. CASE \E ok \in BOOLEAN : StartModelReturns(ok)
  <2>1. calling = "StartModel" /\ UNCHANGED <<process, test, line>>
    BY <1>14 DEF StartModelReturns
  <2> QED
    BY <2>1, AtCall, LineStays
<1>15. CASE \E ok \in BOOLEAN : DescribeModelReturns(ok)
  <2>1. calling # "none"
    BY <1>15 DEF DescribeModelReturns
  <2>2. /\ UNCHANGED <<process, test>>
        /\ \/ UNCHANGED <<line, calling>>
           \/ line' = line + 1 /\ calling' = "none"
    BY <1>15 DEF DescribeModelReturns
  <2> QED
    BY <2>1, <2>2, AtCall, LineStays, LinePasses
<1>16. CASE StartModelFails
  BY <1>16, AtCall, LinePasses DEF StartModelFails
<1>17. CASE SetCaps
  BY <1>17, AtStep, LinePasses DEF SetCaps
<1>18. CASE PlayPipeline
  BY <1>18, AtStep, LinePasses DEF PlayPipeline
<1>19. CASE PopMessage
  <2>1. line <= Len(Body) /\ Running /\ calling' = "none"
    BY <1>19, AtStep, AtBody DEF PopMessage
  <2>2. UNCHANGED <<process, test>> /\ line' \in {line + 1, Len(Body) + 1}
    BY <1>19 DEF PopMessage, Body
  <2> QED
    BY <2>1, <2>2, LinePasses, AtTest DEF LineInv
<1>20. CASE CallsThrow
  BY <1>20, AtStep, LinePasses DEF CallsThrow
<1>21. CASE ShmOpenFails
  <2>1. line <= Len(Body) /\ Running /\ calling' = "none"
    BY <1>21, AtStep, AtBody DEF ShmOpenFails
  <2>2. UNCHANGED <<process, test>> /\ line' \in {line + 1, Len(Body) + 1}
    BY <1>21 DEF ShmOpenFails, Body
  <2> QED
    BY <2>1, <2>2, LinePasses, AtTest DEF LineInv
<1>22. CASE NextTest
  <2>1. calling' = "none"
    BY <1>22 DEF NextTest
  <2>2. CASE process' = "none"
    BY <2>1, <2>2 DEF LineInv, Running
  <2>3. CASE process' # "none"
    <3>1. /\ process' = process /\ process # "none" /\ line' = 1
          /\ test' = test + 1 /\ test < Len(Tests[process])
      BY <1>22, <2>3 DEF NextTest
    <3>2. /\ process' \in DOMAIN Tests /\ test' \in 1..Len(Tests[process'])
      BY <3>1, TestsAre DEF LineInv, Running
    <3>3. Len(Tests[process'][test']) \in 1..12
      BY <3>2, TestsFit DEF Fits
    <3> QED
      BY <2>1, <3>1, <3>2, <3>3 DEF LineInv, Running, Body
  <2> QED
    BY <2>2, <2>3
<1>23. CASE RunServerThread \/ Streaming
  <2>1. UNCHANGED <<process, test, line, calling>>
    BY <1>23 DEF RunServerThread, BuildAndStart, StoreServer, WaitReturns,
         Streaming, Chain, InferenceConsumerChain, EndOfStream
  <2> QED
    BY <2>1, LineStays DEF LineInv
<1>24. ASSUME NEW p \in DOMAIN Tests, Start(p) PROVE LineInv'
  <2>1. process' = p /\ test' = 1 /\ line' = 1 /\ calling' = "none"
    BY <1>24 DEF Start
  <2>2. 1 \in 1..Len(Tests[p])
    BY TestsAre
  <2>3. Len(Tests[p][1]) \in 1..12
    BY <2>2, TestsFit DEF Fits
  <2> QED
    BY <2>1, <2>2, <2>3 DEF LineInv, Running, Body
<1>25. CASE UNCHANGED vars
  BY <1>25, LineStays DEF vars, LineInv
<1> QED
  BY <1>1, <1>2, <1>3, <1>4, <1>5, <1>6, <1>7, <1>8, <1>9, <1>10, <1>11, <1>12, <1>13,
     <1>14, <1>15, <1>16, <1>17, <1>18, <1>19, <1>20, <1>21, <1>22, <1>23, <1>24, <1>25
     DEF Next, TestBody, SetProperty

(* The values of properties and answers are those the tests set. *)
LEMMA RecordInvariant == LineInv /\ RecordInv /\ [Next]_vars => RecordInv'
<1> SUFFICES ASSUME LineInv, RecordInv, [Next]_vars PROVE RecordInv'
  OBVIOUS
<1> USE DEF NewElement, Default
<1>1. CASE DoCaptureStdout \/ GetCapturedStdout \/ Shutdown \/ Join
           \/ UnrefElement \/ TearDownPipeline \/ SetModelComponent \/ GetProperties
           \/ StartModelFails \/ SetCaps \/ PlayPipeline
           \/ CallsThrow \/ ShmOpenFails \/ NextTest \/ RunServerThread
           \/ InferenceConsumerChain \/ EndOfStream \/ UNCHANGED vars
           \/ \E p \in DOMAIN Tests : Start(p)
  <2>1. UNCHANGED <<element, service>>
    BY <1>1 DEF DoCaptureStdout, GetCapturedStdout, Shutdown, Join, UnrefElement,
         TearDownPipeline, SetModelComponent, GetProperties, StartModelFails, SetCaps,
         PlayPipeline, CallsThrow, ShmOpenFails, NextTest, RunServerThread,
         BuildAndStart, StoreServer, WaitReturns, InferenceConsumerChain, EndOfStream,
         Start, Dies, vars
  <2> QED
    BY <2>1 DEF RecordInv
<1>10. CASE PopMessage
  <2>1. service' = service /\ element \in Element
    BY <1>10 DEF PopMessage, RecordInv
  <2>2. element' \in {element, [element EXCEPT !.keeper = "message"]}
    BY <1>10 DEF PopMessage
  <2>3. element' \in Element
    BY <2>1, <2>2 DEF Element
  <2> QED
    BY <2>1, <2>3 DEF RecordInv
<1>2. CASE RunServerInBackground
  <2>1. AfterRunServer(Row, Op.address, Op.status, NextRow)
    BY <1>2, AtBody, RuleOf DEF RunServerInBackground
  <2> QED
    BY <1>2, <2>1 DEF RunServerInBackground, RecordInv, AfterRunServer, Dies
<1>3. CASE MakeElement
  BY <1>3 DEF MakeElement, RecordInv, Element
<1>9. CASE LinkPipeline
  <2>1. Op.next \in {"sink", "consumer"}
    BY <1>9, AtBody, RuleOf DEF LinkPipeline
  <2> QED
    BY <1>9, <2>1 DEF LinkPipeline, RecordInv, Element
<1>4. CASE SetServerSocket
  <2>1. AfterServerSocket(Row, Op.value, NextRow)
    BY <1>4, AtBody, RuleOf DEF SetServerSocket
  <2> QED
    <3>1. Op.value \in {Default, 50051, 50052} /\ service' = service
      BY <1>4, <2>1 DEF SetServerSocket, AfterServerSocket
    <3>2. element' = [element EXCEPT !.server_socket = Op.value, !.channel = "new"]
      BY <1>4 DEF SetServerSocket
    <3> DEFINE e == [element EXCEPT !.server_socket = Op.value]
    <3>3. e \in Element
      BY <3>1 DEF RecordInv, Element
    <3>4. element' = [e EXCEPT !.channel = "new"]
      BY <3>2
    <3> HIDE DEF e
    <3> QED
      BY <3>1, <3>3, <3>4 DEF RecordInv, Element
<1>5. CASE SetModelStatusTimeout
  <2>1. AfterTimeout(Row, Op.value, NextRow)
    BY <1>5, AtBody, RuleOf DEF SetModelStatusTimeout
  <2> QED
    BY <1>5, <2>1 DEF SetModelStatusTimeout, RecordInv, Element, AfterTimeout
<1>6. ASSUME NEW ok \in BOOLEAN, StartModelReturns(ok) PROVE RecordInv'
  <2>1. Channel(ok) \in {"ready", "failed"}
    BY DEF Channel
  <2> QED
    <3>1. service' = service /\ element' = [element EXCEPT !.channel = Channel(ok)]
      BY <1>6 DEF StartModelReturns
    <3> QED
      BY <2>1, <3>1 DEF RecordInv, Element
<1>7. ASSUME NEW ok \in BOOLEAN, DescribeModelReturns(ok) PROVE RecordInv'
  <2>1. Channel(ok) \in {"ready", "failed"}
    BY DEF Channel
  <2>2. /\ service' = service
        /\ \/ element' = [element EXCEPT !.channel = "ready", !.model_component = "SampleModel"]
           \/ element' = [element EXCEPT !.channel = Channel(ok)]
    BY <1>7 DEF DescribeModelReturns
  <2> QED
    <3> DEFINE e == [element EXCEPT !.channel = "ready"]
    <3>1. e \in Element
      BY DEF RecordInv, Element
    <3>2. \/ element' = [e EXCEPT !.model_component = "SampleModel"]
          \/ element' = [element EXCEPT !.channel = Channel(ok)]
      BY <2>2
    <3> HIDE DEF e
    <3> QED
      BY <2>1, <2>2, <3>1, <3>2 DEF RecordInv, Element
<1>8. ASSUME NEW ok \in BOOLEAN, Chain(ok) PROVE RecordInv'
  <2>1. Channel(ok) \in {"ready", "failed"}
    BY DEF Channel
  <2>2. CASE element.model_component = "NULL"
    BY <1>8, <2>2 DEF Chain, RecordInv, Element
  <2>3. CASE element.model_component # "NULL"
    <3>1. /\ service' = service
          /\ \E v \in {"FAILED", "SUCCESSFUL"} :
               element' = [element EXCEPT !.channel = Channel(ok), !.meta = v]
      BY <1>8, <2>3 DEF Chain
    <3> QED
      <4> DEFINE e == [element EXCEPT !.channel = Channel(ok)]
      <4>1. e \in Element
        BY <2>1 DEF RecordInv, Element
      <4>2. \E v \in {"FAILED", "SUCCESSFUL"} : element' = [e EXCEPT !.meta = v]
        BY <3>1
      <4> HIDE DEF e
      <4> QED
        BY <3>1, <4>1, <4>2 DEF RecordInv, Element
  <2> QED
    BY <2>2, <2>3
<1> QED
  BY <1>1, <1>2, <1>3, <1>4, <1>5, <1>6, <1>7, <1>8, <1>9, <1>10
     DEF Next, TestBody, SetProperty, Streaming

(* The server thread and StopServer (TestServer.cc:67-92). *)
LEMMA ServerInvariant ==
    LineInv /\ FixtureInv /\ ServerInv /\ [Next]_vars => ServerInv'
<1> SUFFICES ASSUME LineInv, FixtureInv, ServerInv, [Next]_vars PROVE ServerInv'
  OBVIOUS
<1>1. CASE RunServerInBackground
  BY <1>1 DEF RunServerInBackground, ServerInv, Dies
<1>2. CASE RunServerThread
  BY <1>2 DEF RunServerThread, BuildAndStart, StoreServer, WaitReturns, ServerInv
<1>3. CASE Shutdown
  BY <1>3 DEF Shutdown, ServerInv, Dies
<1>4. CASE Join
  BY <1>4 DEF Join, ServerInv
<1>5. CASE \E p \in DOMAIN Tests : Start(p)
  BY <1>5 DEF Start, ServerInv
<1>6. CASE DoCaptureStdout \/ GetCapturedStdout \/ MakeElement \/ LinkPipeline
           \/ UnrefElement \/ TearDownPipeline \/ SetProperty \/ GetProperties
           \/ SetCaps \/ PlayPipeline \/ PopMessage
           \/ CallsThrow \/ ShmOpenFails \/ Streaming \/ UNCHANGED vars
  <2>1. UNCHANGED <<test_server, thread>>
    BY <1>6 DEF DoCaptureStdout, GetCapturedStdout, MakeElement, LinkPipeline, UnrefElement,
         TearDownPipeline, SetProperty, SetServerSocket, SetModelComponent,
         SetModelStatusTimeout, StartModelReturns, DescribeModelReturns, StartModelFails,
         GetProperties, SetCaps, PlayPipeline, PopMessage, CallsThrow, ShmOpenFails,
         Streaming, Chain, InferenceConsumerChain, EndOfStream, Dies, vars
  <2> QED
    BY <2>1 DEF ServerInv
<1>7. CASE NextTest
  <2>1. thread = "none"
    BY <1>7, ScriptIs DEF NextTest, FixtureInv, LineInv, Running
  <2> QED
    BY <1>7, <2>1 DEF NextTest, ServerInv
<1> QED
  BY <1>1, <1>2, <1>3, <1>4, <1>5, <1>6, <1>7 DEF Next, TestBody

(* The first step of a test. *)
LEMMA FirstRow ==
    ASSUME LineInv', Running', line' = 1
    PROVE  Row' = Fresh /\ Len(Body)' \in 1..12
<1>1. Fits(Tests[process'][test'], Outlines[process'][test'])
  BY TestsFit DEF LineInv
<1> QED
  BY <1>1 DEF Fits, Row, Body

(* The element is where the outline says, and a bare one is captured. *)
LEMMA PlaceStays ==
    ASSUME PlaceInv, UNCHANGED <<process, test, line, pipeline, capturing>>,
           output \subseteq output', stream' # "stopped" => stream # "stopped"
    PROVE  PlaceInv'
  BY Moves DEF PlaceInv, PlaceHolds

(* Every row says where the element is, whatever the server does: only the *)
(* gtest thread moves the pipeline.                                        *)
LEMMA PlaceInvariant ==
    LineInv /\ LineInv' /\ FixtureInv /\ PlaceInv /\ [Next]_vars => PlaceInv'
<1> SUFFICES ASSUME LineInv, LineInv', FixtureInv, PlaceInv, [Next]_vars PROVE PlaceInv'
  OBVIOUS
<1> USE Moves DEF PlaceInv, PlaceHolds, Keeps, Passes, Assert, Dies
<1>1. CASE DoCaptureStdout
  <2>1. line \in 1..Len(Body) /\ AfterCaptureStdout(Row, NextRow)
    BY <1>1, AtBody, RuleOf DEF DoCaptureStdout
  <2> QED
    BY <1>1, <2>1 DEF DoCaptureStdout, AfterCaptureStdout, Running
<1>2. CASE GetCapturedStdout
  <2>1. line \in 1..Len(Body) /\ AfterPrinted(Row, Op.texts, NextRow)
    BY <1>2, AtBody, RuleOf DEF GetCapturedStdout
  <2> QED
    BY <1>2, <2>1 DEF GetCapturedStdout, AfterPrinted, Running, Body
<1>3. CASE RunServerInBackground
  <2>1. line \in 1..Len(Body) /\ AfterRunServer(Row, Op.address, Op.status, NextRow)
    BY <1>3, AtBody, RuleOf DEF RunServerInBackground
  <2> QED
    BY <1>3, <2>1 DEF RunServerInBackground, AfterRunServer, Running
<1>4. CASE Shutdown
  <2>1. line <= Len(Body) => AfterShutdown(Row, NextRow)
    BY <1>4, AtStep, RuleOf DEF Shutdown
  <2>2. line \in 1..(Len(Body) + 3) /\ Len(Body) \in 1..12
    BY <1>4, AtStep DEF Shutdown
  <2> QED
    BY <1>4, <2>1, <2>2 DEF Shutdown, AfterShutdown, Running
<1>5. CASE Join
  <2>1. line <= Len(Body) => AfterJoin(Row, NextRow)
    BY <1>5, AtStep, RuleOf DEF Join
  <2>2. line \in 1..(Len(Body) + 3) /\ Len(Body) \in 1..12
    BY <1>5, AtStep DEF Join
  <2> QED
    BY <1>5, <2>1, <2>2 DEF Join, AfterJoin, Running
<1>6. CASE MakeElement
  <2>1. line \in 1..Len(Body) /\ AfterMake(Row, "sink", "bare", NextRow)
    BY <1>6, AtBody, RuleOf DEF MakeElement
  <2> QED
    BY <1>6, <2>1 DEF MakeElement, AfterMake, Running
<1>7. CASE LinkPipeline
  <2>1. line \in 1..Len(Body) /\ AfterMake(Row, Op.next, "NULL", NextRow)
    BY <1>7, AtBody, RuleOf DEF LinkPipeline
  <2> QED
    BY <1>7, <2>1 DEF LinkPipeline, AfterMake, Running, Body
<1>8. CASE UnrefElement
  <2>1. line \in 1..Len(Body) /\ AfterUnref(Row, NextRow)
    BY <1>8, AtBody, RuleOf DEF UnrefElement
  <2> QED
    BY <1>8, <2>1 DEF UnrefElement, AfterUnref, Running
<1>9. CASE TearDownPipeline
  BY <1>9, AtTearDown, AtStep DEF TearDownPipeline
<1>10. CASE SetServerSocket \/ SetModelComponent \/ SetModelStatusTimeout
            \/ (\E ok \in BOOLEAN : StartModelReturns(ok) \/ DescribeModelReturns(ok))
            \/ StartModelFails
  <2>1. /\ line \in 1..Len(Body)
        /\ Follows(Row, Body[line], NextRow) /\ Body[line].op = "Set"
    BY <1>10, AtBody, AtCall DEF SetServerSocket, SetModelComponent, SetModelStatusTimeout,
         StartModelReturns, DescribeModelReturns, StartModelFails
  <2>2. /\ Row.pipe = "NULL" /\ NextRow.pipe = "NULL" /\ NextRow.capture = Row.capture
    BY <2>1, RuleOf DEF AfterServerSocket, AfterStartModel, AfterTimeout
  <2>3. /\ UNCHANGED <<process, test, pipeline, stream, capturing>>
        /\ line' = line \/ line' = line + 1
    BY <1>10 DEF SetServerSocket, SetModelComponent, SetModelStatusTimeout,
         StartModelReturns, DescribeModelReturns, StartModelFails, Prints, Stays
  <2> QED
    BY <2>1, <2>2, <2>3 DEF Running
<1>11. CASE GetProperties
  <2>1. /\ line \in 1..Len(Body)
        /\ AfterGet(Row, Op.server_socket, Op.model_component, Op.timeout, NextRow)
    BY <1>11, AtBody, RuleOf DEF GetProperties
  <2> QED
    BY <1>11, <2>1 DEF GetProperties, AfterGet, Running, Body
<1>12. CASE SetCaps
  <2>1. line \in 1..Len(Body) /\ AfterCaps(Row, Op.dims, NextRow)
    BY <1>12, AtBody, RuleOf DEF SetCaps
  <2> DEFINE texts == IF {"width", "height"} \subseteq Op.dims THEN {} ELSE NoDimensions
  <2>2. NextRow.seen \subseteq Row.seen \cup texts /\ (capturing => output' = output \cup texts)
    BY <1>12, <2>1 DEF SetCaps, AfterCaps, Prints
  <2> HIDE DEF texts
  <2> QED
    BY <1>12, <2>1, <2>2 DEF SetCaps, AfterCaps, Prints, Running
<1>13. CASE PlayPipeline
  <2>1. line \in 1..Len(Body) /\ AfterPlay(Row, NextRow)
    BY <1>13, AtBody, RuleOf DEF PlayPipeline
  <2> QED
    BY <1>13, <2>1 DEF PlayPipeline, AfterPlay, Running
<1>14. CASE PopMessage
  <2>1. line \in 1..Len(Body) /\ AfterPop(Row, Op.expected, NextRow)
    BY <1>14, AtBody, RuleOf DEF PopMessage
  <2> QED
    BY <1>14, <2>1 DEF PopMessage, AfterPop, Running, Body
<1>15. CASE CallsThrow \/ ShmOpenFails
  <2>1. line \in 1..Len(Body) /\ AfterClientAlone(Row, NextRow)
    BY <1>15, AtBody, RuleOf DEF CallsThrow, ShmOpenFails
  <2> QED
    BY <1>15, <2>1 DEF CallsThrow, ShmOpenFails, AfterClientAlone, Running, Body
<1>16. CASE NextTest
  <2>1. pipeline = "none" /\ stream = "stopped"
    BY <1>16, ScriptIs DEF NextTest, FixtureInv, LineInv, Running
  <2> QED
    BY <1>16, <2>1, FirstRow DEF NextTest, Fresh, Knows, Running
<1>17. CASE \E p \in DOMAIN Tests : Start(p)
  BY <1>17, FirstRow DEF Start, Fresh, Knows, Running
<1>18. CASE RunServerThread \/ Streaming
  <2>1. /\ UNCHANGED <<process, test, line, pipeline, capturing>>
        /\ output \subseteq output' /\ (stream' # "stopped" => stream # "stopped")
    BY <1>18 DEF RunServerThread, BuildAndStart, StoreServer, WaitReturns,
         Streaming, Chain, InferenceConsumerChain, EndOfStream, Prints, Stays
  <2> QED
    BY <2>1, PlaceStays
<1>19. CASE UNCHANGED vars
  BY <1>19, PlaceStays DEF vars
<1> QED
  BY <1>1, <1>2, <1>3, <1>4, <1>5, <1>6, <1>7, <1>8, <1>9, <1>10, <1>11, <1>12, <1>13,
     <1>14, <1>15, <1>16, <1>17, <1>18, <1>19 DEF Next, TestBody, SetProperty

(* The fixture leaves nothing (gstlookoutvisiontest.cc:18-29).             *)
LEMMA FixtureInvariant ==
    LineInv /\ LineInv' /\ ServerInv /\ FixtureInv /\ [Next]_vars => FixtureInv'
<1> SUFFICES ASSUME LineInv, LineInv', ServerInv, FixtureInv, [Next]_vars PROVE FixtureInv'
  OBVIOUS
<1> USE DEF Passes, Assert, Stays
<1>1. ASSUME Running, line \in 1..Len(Body), UNCHANGED <<process, test>>,
             line' \in {line + 1, Len(Body) + 1}
      PROVE  FixtureInv'
  BY <1>1, Moves, AtTest DEF FixtureInv
<1>2. ASSUME UNCHANGED <<process, test, line, pipeline, stream, bus, thread>>
      PROVE  FixtureInv'
  BY <1>2, Moves DEF FixtureInv
<1>3. ASSUME Dies PROVE FixtureInv'
  BY <1>3 DEF Dies, FixtureInv, Running
<1>4. CASE DoCaptureStdout \/ RunServerInBackground \/ GetProperties \/ GetCapturedStdout
           \/ MakeElement \/ LinkPipeline \/ UnrefElement \/ SetCaps \/ PlayPipeline
           \/ PopMessage \/ CallsThrow \/ ShmOpenFails \/ SetModelStatusTimeout
  <2>1. Running /\ line \in 1..Len(Body)
    BY <1>4, AtStep, AtBody DEF DoCaptureStdout, RunServerInBackground, GetProperties,
         GetCapturedStdout, MakeElement, LinkPipeline, UnrefElement, SetCaps, PlayPipeline,
         PopMessage, CallsThrow, ShmOpenFails, SetModelStatusTimeout
  <2>2. Dies \/ (UNCHANGED <<process, test>> /\ line' \in {line + 1, Len(Body) + 1})
    BY <1>4 DEF DoCaptureStdout, RunServerInBackground, GetProperties,
         GetCapturedStdout, MakeElement, LinkPipeline, UnrefElement, SetCaps, PlayPipeline,
         PopMessage, CallsThrow, ShmOpenFails, SetModelStatusTimeout, Body
  <2> QED
    BY <1>1, <1>3, <2>1, <2>2
<1>5. CASE SetServerSocket \/ SetModelComponent \/ StartModelFails
           \/ \E ok \in BOOLEAN : StartModelReturns(ok) \/ DescribeModelReturns(ok)
  <2>1. Running /\ line \in 1..Len(Body)
    BY <1>5, AtStep, AtBody, AtCall DEF SetServerSocket, SetModelComponent, StartModelFails,
         StartModelReturns, DescribeModelReturns
  <2>2. /\ UNCHANGED <<process, test>>
        /\ \/ UNCHANGED <<line, pipeline, stream, bus, thread>>
           \/ line' = line + 1
    BY <1>5 DEF SetServerSocket, SetModelComponent, StartModelFails,
         StartModelReturns, DescribeModelReturns
  <2> QED
    BY <1>1, <1>2, <2>1, <2>2
<1>6. CASE Shutdown
  <2>1. /\ Running /\ (line \in 1..Len(Body) \/ line = Len(Body) + 2)
        /\ Len(Body) \in 1..12
    BY <1>6, AtStep DEF Shutdown
  <2>2. Dies \/ (UNCHANGED <<process, test, pipeline, stream, bus>> /\ line' = line + 1)
    BY <1>6 DEF Shutdown
  <2> QED
    BY <1>1, <1>3, <2>1, <2>2, Moves DEF FixtureInv
<1>7. CASE Join
  <2>1. /\ Running /\ (line \in 1..Len(Body) \/ line = Len(Body) + 3)
        /\ Len(Body) \in 1..12
    BY <1>7, AtStep DEF Join
  <2>2. UNCHANGED <<process, test, pipeline, stream, bus>> /\ line' = line + 1
    BY <1>7 DEF Join
  <2>3. thread' = "none"
    BY <1>7 DEF Join, ServerInv
  <2> QED
    BY <1>1, <2>1, <2>2, <2>3, Moves DEF FixtureInv
<1>8. CASE TearDownPipeline
  <2>1. line = Len(Body) + 1 /\ Len(Body) \in 1..12
    BY <1>8, AtTearDown, AtStep DEF TearDownPipeline
  <2> QED
    BY <1>8, <2>1, Moves DEF TearDownPipeline, FixtureInv
<1>9. CASE NextTest
  <2>1. thread = "none" /\ stream = "stopped" /\ bus = <<>>
    BY <1>9, ScriptIs DEF NextTest, FixtureInv, LineInv, Running
  <2> QED
    BY <1>9, <2>1, FirstRow DEF NextTest, FixtureInv, Running
<1>10. CASE \E p \in DOMAIN Tests : Start(p)
  BY <1>10, FirstRow DEF Start, FixtureInv, Running
<1>11. CASE RunServerThread \/ Streaming
  <2>1. /\ UNCHANGED <<process, test, line, pipeline>> /\ Running
        /\ \/ thread # "none" /\ UNCHANGED <<stream, bus>>
           \/ stream # "stopped" /\ UNCHANGED thread
    BY <1>11 DEF RunServerThread, BuildAndStart, StoreServer, WaitReturns,
         Streaming, Chain, InferenceConsumerChain, EndOfStream, Running
  <2>2. Len(Body) \in 1..12 /\ line \in 1..(Len(Body) + 4)
    BY <2>1, AtTest DEF LineInv
  <2> QED
    BY <2>1, <2>2, Moves DEF FixtureInv
<1>12. CASE UNCHANGED vars
  BY <1>2, <1>12 DEF vars
<1> QED
  BY <1>4, <1>5, <1>6, <1>7, <1>8, <1>9, <1>10, <1>11, <1>12
     DEF Next, TestBody, SetProperty

(* The steps a segment can come from, and the first ones of some tests.    *)
LEMMA FirstSteps ==
    ASSUME LineInv, NEW op, At(op)
    PROVE  /\ process = "gstlookoutvisiontest" /\ test = 1 /\ line = 1 => op = "Make"
           /\ op = "MockThrows" => process = "LookoutVisionInferenceClientTest" /\ test = 1
           /\ op = "ShmReadOnly" =>
                process = "LookoutVisionInferenceClientTest" /\ test = 3 /\ line = 1
           /\ process = "LookoutVisionInferenceClientTest" /\ test = 2 =>
                /\ Len(Body) = 9
                /\ line = 1 => op = "CaptureStdout"
                /\ line = 2 => op = "RunServerInBackground"
                /\ line = 3 => op = "Link"
<1>1. /\ line \in 1..Len(Body) => Op = Body[line]
      /\ Op.op = op /\ process \in DOMAIN Tests /\ test \in 1..Len(Tests[process])
      /\ op \notin {"TearDown", "Shutdown", "join"} => line \in 1..Len(Body)
  BY AtStep, AtBody DEF LineInv
<1>2. ASSUME process = "gstlookoutvisiontest", test = 1, line = 1 PROVE op = "Make"
  <2>1. Body = plugin_init_test
    BY <1>2, TestsAre DEF Body
  <2>2. Len(plugin_init_test) = 2 /\ plugin_init_test[1].op = "Make"
    BY DEF plugin_init_test, Make
  <2> QED
    BY <1>1, <1>2, <2>1, <2>2
<1>3. ASSUME op \in ClientAlone
      PROVE  process = "LookoutVisionInferenceClientTest" /\ test \in {1, 3}
  <2>1. ~WithElement(Body)
    BY <1>1, <1>3 DEF WithElement, ClientAlone
  <2>2. process = "LookoutVisionInferenceClientTest" /\ test # 2
    BY <1>1, <2>1, TestsFit, TestsAre DEF Body
  <2>3. test \in 1..3
    <3>1. ASSUME SharedMemory PROVE test \in 1..3
      BY <1>1, <2>2, <3>1, TestsAre
    <3>2. ASSUME ~SharedMemory PROVE test \in 1..1
      BY <1>1, <2>2, <3>2, TestsAre
    <3> QED
      BY <3>1, <3>2
  <2> QED
    BY <2>2, <2>3
<1>4. ASSUME process = "LookoutVisionInferenceClientTest", test = 1, line \in 1..Len(Body)
      PROVE  op = "MockThrows"
  <2>1. Body = grpc_calls_throw_exception_test
    BY <1>4, TestsAre DEF Body
  <2>2. Len(grpc_calls_throw_exception_test) = 1
        /\ grpc_calls_throw_exception_test[1].op = "MockThrows"
    BY DEF grpc_calls_throw_exception_test, MockThrows
  <2> QED
    BY <1>1, <1>4, <2>1, <2>2
<1>5. ASSUME process = "LookoutVisionInferenceClientTest", test \in {2, 3} PROVE SharedMemory
  <2>1. ASSUME ~SharedMemory PROVE test \in 1..1
    BY <1>1, <1>5, <2>1, TestsAre
  <2> QED
    BY <1>5, <2>1
<1>6. ASSUME process = "LookoutVisionInferenceClientTest", test = 3, line \in 1..Len(Body)
      PROVE  op = "ShmReadOnly" /\ line = 1
  <2>1. Body = shm_open_error_test
    BY <1>5, <1>6, TestsAre DEF Body
  <2>2. Len(shm_open_error_test) = 1 /\ shm_open_error_test[1].op = "ShmReadOnly"
    BY DEF shm_open_error_test, ShmReadOnly
  <2> QED
    BY <1>1, <1>6, <2>1, <2>2
<1>7. ASSUME process = "LookoutVisionInferenceClientTest", test = 2
      PROVE  /\ Len(Body) = 9
             /\ line = 1 => op = "CaptureStdout"
             /\ line = 2 => op = "RunServerInBackground"
             /\ line = 3 => op = "Link"
  <2> DEFINE t == inference_on_large_size_frame_with_shared_memory_test
  <2>1. Body = t
    BY <1>5, <1>7, TestsAre DEF Body
  <2>2. /\ Len(t) = 9 /\ t[1].op = "CaptureStdout" /\ t[2].op = "RunServerInBackground"
        /\ t[3].op = "Link"
    BY DEF inference_on_large_size_frame_with_shared_memory_test, Runs,
         CaptureStdout, RunServer, Link
  <2> HIDE DEF t
  <2> QED
    BY <1>1, <1>7, <2>1, <2>2
<1> QED
  BY <1>1, <1>2, <1>3, <1>4, <1>6, <1>7 DEF ClientAlone

(* Where a step of the fixture is, of a test with n steps.                 *)
LEMMA PastTest ==
    ASSUME NEW n \in 1..12, NEW l \in 1..(n + 4), l > n
    PROVE  /\ l # 1 /\ l + 1 # 1
           /\ ~(l <= n) /\ l + 1 > n /\ ~(l + 1 <= n)
           /\ (n = 9 => ~(l <= 3))
  OBVIOUS

(* Where a step of the test itself is.                                     *)
LEMMA InTest ==
    ASSUME NEW n \in 1..12, NEW l \in 1..n PROVE ~(l > n) /\ n + 1 # 1
  OBVIOUS

(* Setting properties, calling and annotating leave keeper as it is.       *)
LEMMA KeeperKept ==
    ASSUME NEW e \in Element, NEW f, NEW v, NEW w,
           \/ f = [e EXCEPT !.server_socket = v, !.channel = w]
           \/ f = [e EXCEPT !.model_status_timeout = v]
           \/ f = [e EXCEPT !.channel = v]
           \/ f = [e EXCEPT !.channel = v, !.model_component = w]
           \/ f = [e EXCEPT !.meta = v]
           \/ f = [e EXCEPT !.channel = v, !.meta = w]
    PROVE  f.keeper = e.keeper
<1>1. [e EXCEPT !.server_socket = v, !.channel = w].keeper = e.keeper
  BY DEF Element
<1>2. [e EXCEPT !.model_status_timeout = v].keeper = e.keeper
  BY DEF Element
<1>3. [e EXCEPT !.channel = v].keeper = e.keeper
  BY DEF Element
<1>4. [e EXCEPT !.channel = v, !.model_component = w].keeper = e.keeper
  BY DEF Element
<1>5. [e EXCEPT !.meta = v].keeper = e.keeper
  BY DEF Element
<1>6. [e EXCEPT !.channel = v, !.meta = w].keeper = e.keeper
  BY DEF Element
<1> QED
  BY <1>1, <1>2, <1>3, <1>4, <1>5, <1>6

(* An element is kept by the message that FAIL() leaves behind.            *)
LEMMA KeptInvariant ==
    TypeOK /\ LineInv /\ RecordInv /\ PlaceInv /\ KeptInv /\ [Next]_vars => KeptInv'
<1> SUFFICES ASSUME TypeOK, LineInv, RecordInv, PlaceInv, KeptInv, [Next]_vars,
                    Running', pipeline' # "none", element'.keeper = "message"
             PROVE  failed'
  BY DEF KeptInv
<1>0. /\ failed \in BOOLEAN /\ element \in Element
      /\ Running /\ pipeline # "none" /\ element.keeper = "message" => failed
  BY DEF TypeOK, RecordInv, KeptInv
<1> USE DEF Passes, Assert, Stays, Dies, Running
<1>1. CASE MakeElement \/ LinkPipeline
  <2>1. element'.keeper = "none"
    BY <1>1 DEF MakeElement, LinkPipeline, NewElement
  <2> QED
    BY <2>1
<1>2. CASE PopMessage
  <2>1. CASE Head(bus) = "ERROR" /\ Op.expected = "EOS"
    BY <1>2, <2>1 DEF PopMessage
  <2>2. CASE ~(Head(bus) = "ERROR" /\ Op.expected = "EOS")
    BY <1>0, <1>2, <2>2 DEF PopMessage
  <2> QED
    BY <2>1, <2>2
<1>3. CASE PlayPipeline
  <2>1. line \in 1..Len(Body) /\ Running /\ Row.pipe = "NULL"
    BY <1>3, AtBody, AtStep, RuleOf DEF PlayPipeline, AfterPlay
  <2>2. pipeline = "NULL"
    BY <2>1 DEF PlaceInv, PlaceHolds
  <2> QED
    BY <1>0, <1>3, <2>1, <2>2 DEF PlayPipeline
<1>4. CASE UnrefElement \/ TearDownPipeline \/ \E p \in DOMAIN Tests : Start(p)
  BY <1>4 DEF UnrefElement, TearDownPipeline, Start
<1>5. CASE SetProperty \/ Streaming \/ RunServerThread \/ UNCHANGED vars
  <2>1. /\ UNCHANGED <<process, pipeline>> /\ (failed => failed')
        /\ process # "none" \/ UNCHANGED <<process, element>>
    <3>1. CASE SetProperty
      BY <1>0, <3>1 DEF SetProperty, SetServerSocket, SetModelComponent, SetModelStatusTimeout,
         StartModelReturns, DescribeModelReturns, StartModelFails, At
    <3>2. CASE Streaming
      BY <1>0, <3>2 DEF Streaming, Chain, InferenceConsumerChain, EndOfStream
    <3>3. CASE RunServerThread \/ UNCHANGED vars
      BY <1>0, <3>3 DEF RunServerThread, BuildAndStart, StoreServer, WaitReturns, vars
    <3> QED
      BY <1>5, <3>1, <3>2, <3>3
  <2>2. element'.keeper = element.keeper
    <3>1. CASE SetServerSocket \/ SetModelStatusTimeout
      <4>1. PICK v, w : \/ element' = [element EXCEPT !.server_socket = v, !.channel = w]
                        \/ element' = [element EXCEPT !.model_status_timeout = v]
        BY <3>1 DEF SetServerSocket, SetModelStatusTimeout
      <4> QED
        BY <1>0, <4>1, KeeperKept
    <3>2. CASE \E ok \in BOOLEAN : StartModelReturns(ok) \/ DescribeModelReturns(ok)
      <4>1. PICK v, w : \/ element' = [element EXCEPT !.channel = v]
                        \/ element' = [element EXCEPT !.channel = v, !.model_component = w]
        BY <3>2 DEF StartModelReturns, DescribeModelReturns
      <4> QED
        BY <1>0, <4>1, KeeperKept
    <3>3. ASSUME NEW ok \in BOOLEAN, Chain(ok) PROVE element'.keeper = element.keeper
      <4>1. \/ element' = [element EXCEPT !.meta = "FAILED"]
            \/ element' = [element EXCEPT !.channel = Channel(ok),
                                          !.meta = IF ok THEN "SUCCESSFUL" ELSE "FAILED"]
        BY <3>3 DEF Chain
      <4>2. PICK w : \/ element' = [element EXCEPT !.meta = "FAILED"]
                     \/ element' = [element EXCEPT !.channel = Channel(ok), !.meta = w]
        BY <4>1
      <4> QED
        BY <1>0, <4>2, KeeperKept
    <3>4. CASE SetModelComponent \/ StartModelFails
      BY <3>4 DEF SetModelComponent, StartModelFails
    <3>5. CASE InferenceConsumerChain \/ EndOfStream \/ RunServerThread \/ UNCHANGED vars
      BY <1>0, <3>5 DEF InferenceConsumerChain, EndOfStream, RunServerThread, BuildAndStart,
         StoreServer, WaitReturns, vars
    <3> QED
      BY <1>5, <3>1, <3>2, <3>3, <3>4, <3>5 DEF SetProperty, Streaming
  <2> QED
    BY <1>0, <2>1, <2>2
<1>6. CASE DoCaptureStdout \/ GetCapturedStdout \/ RunServerInBackground \/ Shutdown \/ Join
           \/ GetProperties \/ SetCaps \/ CallsThrow \/ ShmOpenFails \/ NextTest
  <2>1. /\ element' = element /\ pipeline' = pipeline /\ (failed => failed')
        /\ process # "none"
    BY <1>0, <1>6 DEF DoCaptureStdout, GetCapturedStdout, RunServerInBackground, Shutdown, Join,
       GetProperties, SetCaps, CallsThrow, ShmOpenFails, NextTest, At
  <2> QED
    BY <1>0, <2>1
<1> QED
  BY <1>1, <1>2, <1>3, <1>4, <1>5, <1>6 DEF Next, TestBody

(* Of a program with a failed test nothing more is claimed, except that it *)
(* ends as one.                                                            *)
LEMMA ShmOfFailed == BaseInv /\ Running /\ failed /\ [Next]_vars => ShmInv'
<1> SUFFICES ASSUME BaseInv, Running, failed, [Next]_vars PROVE ShmInv'
  OBVIOUS
<1>0. shm \in BOOLEAN /\ SharedMemory \in BOOLEAN /\ (shm => SharedMemory)
  BY TestSuiteAssumption DEF BaseInv, TypeOK, ShmInv
<1> USE <1>0 DEF Passes, Assert, Stays, Dies, Running
<1>1. CASE DoCaptureStdout \/ GetCapturedStdout \/ RunServerInBackground \/ Shutdown \/ Join
           \/ MakeElement \/ LinkPipeline \/ UnrefElement \/ TearDownPipeline
           \/ GetProperties \/ SetCaps \/ PlayPipeline \/ PopMessage
           \/ CallsThrow \/ ShmOpenFails
  <2>1. failed'
    BY <1>1 DEF DoCaptureStdout, GetCapturedStdout, RunServerInBackground, Shutdown, Join,
       MakeElement, LinkPipeline, UnrefElement, TearDownPipeline, GetProperties, SetCaps,
       PlayPipeline, PopMessage, CallsThrow, ShmOpenFails
  <2>2. shm' => SharedMemory
    BY <1>1 DEF DoCaptureStdout, GetCapturedStdout, RunServerInBackground, Shutdown, Join,
       MakeElement, LinkPipeline, UnrefElement, TearDownPipeline, GetProperties, SetCaps,
       PlayPipeline, PopMessage, CallsThrow, ShmOpenFails
  <2>3. process' = "none" => exit' = "died"
    BY <1>1 DEF DoCaptureStdout, GetCapturedStdout, RunServerInBackground, Shutdown, Join,
       MakeElement, LinkPipeline, UnrefElement, TearDownPipeline, GetProperties, SetCaps,
       PlayPipeline, PopMessage, CallsThrow, ShmOpenFails
  <2> QED
    BY <2>1, <2>2, <2>3 DEF ShmInv
<1>2. CASE SetProperty \/ RunServerThread \/ Streaming \/ UNCHANGED vars
  <2>1. UNCHANGED <<process, shm>> /\ failed'
    BY <1>2 DEF SetProperty, SetServerSocket, SetModelComponent, SetModelStatusTimeout,
       StartModelReturns, DescribeModelReturns, StartModelFails, RunServerThread,
       BuildAndStart, StoreServer, WaitReturns, Streaming, Chain, InferenceConsumerChain,
       EndOfStream, vars
  <2> QED
    BY <2>1 DEF ShmInv
<1>3. CASE \E p \in DOMAIN Tests : Start(p)
  BY <1>3 DEF Start
<1>4. CASE NextTest
  <2>1. failed' /\ UNCHANGED shm /\ exit' \in {exit, "failed"}
    BY <1>4 DEF NextTest
  <2>2. process' = "none" => exit' = "failed"
    BY <1>4 DEF NextTest
  <2> QED
    BY <2>1, <2>2 DEF ShmInv
<1> QED
  BY <1>1, <1>2, <1>3, <1>4 DEF Next, TestBody

(* Before a test fails, a segment is that of the element under test, of a  *)
(* program before, or of the client that grpc_calls_throw_exception_test   *)
(* never deletes.                                                          *)
LEMMA ShmInvariant ==
    BaseInv /\ LineInv' /\ [Next]_vars => ShmInv'
<1> SUFFICES ASSUME BaseInv, LineInv', [Next]_vars, Running => ~failed PROVE ShmInv'
  BY ShmOfFailed
<1>0. /\ LineInv /\ PlaceInv /\ FixtureInv /\ ShmInv /\ (Running => ~failed)
      /\ shm \in BOOLEAN /\ SharedMemory \in BOOLEAN
  BY TestSuiteAssumption DEF BaseInv, TypeOK
<1> USE DEF Passes, Assert, Stays
<1>1. ASSUME UNCHANGED <<process, test, line, exit, pipeline, shm>> PROVE ShmInv'
  BY <1>0, <1>1, Moves DEF ShmInv
<1>2. ASSUME Dies PROVE ShmInv'
  BY <1>0, <1>2 DEF Dies, ShmInv, Running
(* A step that keeps the element, and the segment with it. *)
<1>3. ASSUME NEW op, At(op), op \notin {"Make", "Link", "TearDown"}, line \in 1..Len(Body),
             pipeline = NextRow.pipe, UNCHANGED <<process, test, exit, pipeline, shm>>,
             line' = line + 1
      PROVE  ShmInv'
  <2>1. /\ line = Len(Body) => pipeline # "bare"
        /\ Running /\ Len(Body) \in 1..12 /\ Body' = Body
    BY <1>0, <1>3, AtStep, Moves
  <2>2. ~(process = "gstlookoutvisiontest" /\ test = 1 /\ line = 1)
    BY <1>0, <1>3, FirstSteps
  <2>3. process = "LookoutVisionInferenceClientTest" /\ test = 2 => line # 3
    BY <1>0, <1>3, FirstSteps
  <2> QED
    BY <1>0, <1>3, <2>1, <2>2, <2>3, TestsAre DEF ShmInv, LineInv, Running
(* A step of a pipeline. *)
<1>4. ASSUME pipeline' \in {"NULL", "PLAYING"}, Running', shm' => SharedMemory
      PROVE  ShmInv'
  BY <1>4 DEF ShmInv
<1>5. CASE DoCaptureStdout
  <2>1. line \in 1..Len(Body) /\ AfterCaptureStdout(Row, NextRow) /\ Running
    BY <1>0, <1>5, AtBody, AtStep, RuleOf DEF DoCaptureStdout
  <2>2. pipeline = NextRow.pipe
    BY <1>0, <2>1 DEF PlaceInv, PlaceHolds, AfterCaptureStdout, Keeps
  <2> QED
    BY <1>2, <1>3, <1>5, <2>1, <2>2 DEF DoCaptureStdout
<1>6. CASE GetCapturedStdout
  <2>1. line \in 1..Len(Body) /\ AfterPrinted(Row, Op.texts, NextRow) /\ Running
    BY <1>0, <1>6, AtBody, AtStep, RuleOf DEF GetCapturedStdout
  <2>2. pipeline = Row.pipe /\ pipeline = NextRow.pipe
        /\ (Row.pipe = "bare" => Op.texts \subseteq output)
    BY <1>0, <2>1 DEF PlaceInv, PlaceHolds, AfterPrinted, Keeps
  <2>3. UNCHANGED <<process, test, exit, pipeline, shm>> /\ At("Printed")
    BY <1>6 DEF GetCapturedStdout
  <2>4. CASE line' = line + 1
    BY <1>3, <2>1, <2>2, <2>3, <2>4
  <2>5. CASE line' # line + 1
    <3>1. failed'
      BY <1>6, <2>5 DEF GetCapturedStdout, Assert
    <3>2. Running' /\ (shm' => SharedMemory)
      BY <1>0, <2>1, <2>3 DEF ShmInv, Running
    <3> QED
      BY <3>1, <3>2 DEF ShmInv
  <2> QED
    BY <2>4, <2>5
<1>7. CASE RunServerInBackground
  <2>1. /\ line \in 1..Len(Body) /\ Running
        /\ AfterRunServer(Row, Op.address, Op.status, NextRow)
    BY <1>0, <1>7, AtBody, AtStep, RuleOf DEF RunServerInBackground
  <2>2. pipeline = NextRow.pipe
    BY <1>0, <2>1 DEF PlaceInv, PlaceHolds, AfterRunServer, Keeps
  <2> QED
    BY <1>2, <1>3, <1>7, <2>1, <2>2 DEF RunServerInBackground
<1>8. CASE Shutdown \/ Join
  <2>1. /\ Running /\ Len(Body) \in 1..12
        /\ line \in 1..Len(Body) => AfterShutdown(Row, NextRow) \/ AfterJoin(Row, NextRow)
        /\ line \notin 1..Len(Body) => line > Len(Body) + 1
    BY <1>0, <1>8, AtStep, RuleOf DEF Shutdown, Join
  <2>2. Dies \/ (UNCHANGED <<process, test, exit, pipeline, shm>> /\ line' = line + 1)
    BY <1>8 DEF Shutdown, Join
  <2>3. At("Shutdown") \/ At("join")
    BY <1>8 DEF Shutdown, Join
  <2>4. CASE line \in 1..Len(Body)
    <3>1. pipeline = NextRow.pipe
      BY <1>0, <2>1, <2>4 DEF PlaceInv, PlaceHolds, AfterShutdown, AfterJoin, Keeps
    <3> QED
      BY <1>2, <1>3, <2>1, <2>2, <2>3, <2>4, <3>1
  <2>5. CASE line \notin 1..Len(Body)
    <3>1. pipeline = "none"
      BY <1>0, <2>1, <2>5 DEF FixtureInv
    <3>2. process = "LookoutVisionInferenceClientTest" /\ test = 2 => Len(Body) = 9
      BY <1>0, <2>3, FirstSteps
    <3>3. line \in 1..(Len(Body) + 4) /\ line > Len(Body) + 1
      BY <1>0, <2>1, <2>5 DEF LineInv
    <3>4. Len(Body) \in 1..12 /\ line > Len(Body)
      BY <2>1, <3>3
    <3>5. /\ line # 1 /\ line + 1 # 1 /\ ~(line <= Len(Body))
          /\ Len(Body) = 9 => ~(line <= 3)
      BY <3>3, <3>4, PastTest
    <3>6. shm => process = "LookoutVisionInferenceClientTest" /\ test = 1 /\ SharedMemory
      BY <1>0, <2>1, <3>1, <3>2, <3>5 DEF ShmInv
    <3> QED
      BY <1>2, <2>1, <2>2, <3>5, <3>6 DEF ShmInv, Running
  <2> QED
    BY <2>4, <2>5
<1>9. CASE MakeElement
  <2>1. /\ line \in 1..Len(Body) /\ Running /\ Len(Body) \in 1..12 /\ NextRow.pipe = "bare"
        /\ line # Len(Body)
    BY <1>0, <1>9, AtBody, AtStep, RuleOf DEF MakeElement, AfterMake
  <2> QED
    BY <1>0, <1>9, <2>1, Moves DEF MakeElement, ShmInv, Running
<1>10. CASE LinkPipeline \/ PlayPipeline
  <2>1. Running /\ pipeline' \in {"NULL", "PLAYING"} /\ process' = process
    BY <1>0, <1>10, AtStep DEF LinkPipeline, PlayPipeline
  <2>2. shm' => SharedMemory
    BY <1>0, <1>10 DEF LinkPipeline, PlayPipeline, ShmInv
  <2> QED
    BY <1>4, <2>1, <2>2 DEF Running
<1>11. CASE UnrefElement \/ ShmOpenFails
  BY <1>11 DEF UnrefElement, ShmOpenFails, ShmInv
<1>12. CASE TearDownPipeline
  <2>1. Running /\ Len(Body) \in 1..12 /\ line = Len(Body) + 1
    BY <1>0, <1>12, AtStep, AtTearDown DEF TearDownPipeline
  <2>2. process = "LookoutVisionInferenceClientTest" /\ test = 2 => Len(Body) = 9
    BY <1>0, <1>12, FirstSteps DEF TearDownPipeline
  <2>3. shm /\ pipeline \in {"none", "bare"} =>
           process = "LookoutVisionInferenceClientTest" /\ test = 1 /\ SharedMemory
    <3>0. line \in 1..(Len(Body) + 4)
      BY <1>0, <2>1 DEF LineInv
    <3>2. Len(Body) \in 1..12 /\ line > Len(Body)
      BY <2>1
    <3>1. /\ line # 1 /\ ~(line <= Len(Body))
          /\ (Len(Body) = 9 => ~(line <= 3))
      BY <3>0, <3>2, PastTest
    <3> QED
      BY <1>0, <2>1, <2>2, <3>1 DEF ShmInv
  <2>4. UNCHANGED <<process, test>> /\ line' # 1 /\ (shm' => shm /\ pipeline \in {"none", "bare"})
    <3>1. line' = line + 1 /\ line + 1 # 1
      BY <1>12, <2>1, PastTest DEF TearDownPipeline
    <3>2. pipeline = "none" \/ element.keeper # "message"
      BY <1>0, <2>1 DEF BaseInv, KeptInv
    <3> QED
      BY <1>0, <1>12, <3>1, <3>2 DEF TearDownPipeline
  <2> QED
    BY <2>1, <2>3, <2>4 DEF ShmInv, Running
<1>13. CASE SetProperty
  <2>1. /\ line \in 1..Len(Body) /\ Running
        /\ Follows(Row, Body[line], NextRow) /\ Body[line].op = "Set"
    BY <1>0, <1>13, AtBody, AtStep, AtCall DEF SetProperty, SetServerSocket,
         SetModelComponent, SetModelStatusTimeout, StartModelReturns,
         DescribeModelReturns, StartModelFails
  <2>2. pipeline = "NULL"
    BY <1>0, <2>1, RuleOf
       DEF PlaceInv, PlaceHolds, AfterServerSocket, AfterStartModel, AfterTimeout
  <2>3. UNCHANGED <<process, pipeline, shm>>
    BY <1>13 DEF SetProperty, SetServerSocket, SetModelComponent, SetModelStatusTimeout,
         StartModelReturns, DescribeModelReturns, StartModelFails
  <2> QED
    BY <1>0, <1>4, <2>1, <2>2, <2>3 DEF ShmInv, Running
<1>14. CASE GetProperties \/ PopMessage
  <2>1. /\ line \in 1..Len(Body) /\ Running /\ Row.pipe \in {"NULL", "PLAYING"}
    BY <1>0, <1>14, AtBody, AtStep, RuleOf DEF GetProperties, PopMessage, AfterGet, AfterPop
  <2>2. Dies \/ UNCHANGED <<process, pipeline, shm>>
    BY <1>14 DEF GetProperties, PopMessage
  <2> QED
    BY <1>0, <1>2, <1>4, <2>1, <2>2 DEF ShmInv, PlaceInv, PlaceHolds, Running
<1>15. CASE SetCaps
  <2>1. line \in 1..Len(Body) /\ AfterCaps(Row, Op.dims, NextRow) /\ Running
    BY <1>0, <1>15, AtBody, AtStep, RuleOf DEF SetCaps
  <2>2. pipeline = NextRow.pipe
    BY <1>0, <2>1 DEF PlaceInv, PlaceHolds, AfterCaps, Keeps
  <2> QED
    BY <1>3, <1>15, <2>1, <2>2 DEF SetCaps
<1>16. CASE CallsThrow
  <2>1. /\ Running /\ process = "LookoutVisionInferenceClientTest" /\ test = 1
        /\ line \in 1..Len(Body) /\ Len(Body) \in 1..12
    BY <1>0, <1>16, AtBody, AtStep, FirstSteps DEF CallsThrow
  <2>2. line + 1 # 1
    BY <2>1
  <2> QED
    BY <1>0, <1>16, <2>1, <2>2 DEF CallsThrow, ShmInv, Running
<1>17. CASE NextTest
  <2>1. line = Len(Body) + 4 /\ Len(Body) \in 1..12 /\ Running /\ pipeline = "none"
    BY <1>0, <1>17, ScriptIs, AtTest DEF NextTest, FixtureInv, LineInv, Running
  <2>3. shm => process = "LookoutVisionInferenceClientTest" /\ test = 1 /\ SharedMemory
    BY <1>0, <2>1 DEF ShmInv
  <2>4. SharedMemory => Len(Tests.LookoutVisionInferenceClientTest) = 3
    BY TestsAre
  <2>5. shm' = shm /\ shm \in BOOLEAN
    BY <1>0, <1>17 DEF NextTest
  <2>6. CASE process' = process /\ test' = test + 1 /\ line' = 1
    BY <2>1, <2>3, <2>5, <2>6 DEF ShmInv, Running
  <2>7. CASE test = Len(Tests[process]) /\ process' = "none"
    <3>1. ~shm
      BY <2>3, <2>4, <2>7
    <3> QED
      BY <2>5, <3>1 DEF ShmInv
  <2> QED
    BY <1>17, <2>6, <2>7 DEF NextTest
<1>18. CASE \E p \in DOMAIN Tests : Start(p)
  BY <1>0, <1>18 DEF Start, ShmInv, Running
<1>19. CASE RunServerThread \/ Streaming \/ UNCHANGED vars
  BY <1>1, <1>19 DEF RunServerThread, BuildAndStart, StoreServer, WaitReturns,
       Streaming, Chain, InferenceConsumerChain, EndOfStream, vars
<1> QED
  BY <1>5, <1>6, <1>7, <1>8, <1>9, <1>10, <1>11, <1>12, <1>13, <1>14, <1>15, <1>16, <1>17,
     <1>18, <1>19 DEF Next, TestBody


(* The types. *)
LEMMA ControlTypes ==
    TypeOK /\ LineInv /\ LineInv' /\ [Next]_vars =>
        /\ (process \in DOMAIN Tests \cup {"none"} /\ exit \in {"none", "returned", "failed", "died"})'
        /\ (test \in 1..14 /\ line \in 1..20)'
<1> SUFFICES ASSUME TypeOK, LineInv, LineInv', [Next]_vars
             PROVE  /\ process' \in DOMAIN Tests \cup {"none"}
                    /\ exit' \in {"none", "returned", "failed", "died"}
                    /\ test' \in 1..14 /\ line' \in 1..20
  OBVIOUS
<1>1. /\ exit' \in {exit, "returned", "failed", "died"}
      /\ process' # "none" \/ UNCHANGED <<test, line>>
  <2>1. CASE SetProperty \/ RunServerThread \/ Streaming \/ UNCHANGED vars
    BY <2>1 DEF SetProperty, SetServerSocket, SetModelComponent, SetModelStatusTimeout,
       StartModelReturns, DescribeModelReturns, StartModelFails,
       RunServerThread, BuildAndStart, StoreServer, WaitReturns,
       Streaming, Chain, InferenceConsumerChain, EndOfStream, Passes, Assert, Stays, At, vars
  <2>2. CASE TestBody /\ ~SetProperty
    BY <2>2 DEF TestBody, DoCaptureStdout, GetCapturedStdout, RunServerInBackground, Shutdown,
       Join, MakeElement, LinkPipeline, UnrefElement, TearDownPipeline, GetProperties, SetCaps,
       PlayPipeline, PopMessage, CallsThrow, ShmOpenFails, NextTest, Passes, Assert, Dies, At
  <2>3. CASE \E p \in DOMAIN Tests : Start(p)
    BY <2>3, TestsAre DEF Start
  <2> QED
    BY <2>1, <2>2, <2>3 DEF Next
<1>2. CASE process' # "none"
  <2>1. /\ Len(Tests[process'][test']) \in 1..12 /\ line' \in 1..(Len(Tests[process'][test']) + 4)
        /\ process' \in DOMAIN Tests /\ test' \in 1..Len(Tests[process'])
    BY <1>2, TestsFit DEF LineInv, Running, Body, Fits
  <2>2. Len(Tests[process']) \in 1..14
    BY <2>1, TestsAre, TestSuiteAssumption
  <2>3. process' \in DOMAIN Tests \cup {"none"} /\ test' \in 1..14 /\ line' \in 1..20
    <3>1. ASSUME NEW n \in 1..14, NEW t \in 1..n PROVE t \in 1..14
      OBVIOUS
    <3>2. ASSUME NEW n \in 1..12, NEW l \in 1..(n + 4) PROVE l \in 1..20
      OBVIOUS
    <3>3. test' \in 1..14
      BY <2>1, <2>2, <3>1
    <3>4. line' \in 1..20
      BY <2>1, <3>2
    <3> QED
      BY <2>1, <3>3, <3>4
  <2>4. exit \in {"none", "returned", "failed", "died"}
    BY DEF TypeOK
  <2> QED
    BY <1>1, <2>3, <2>4
<1>3. CASE process' = "none"
  BY <1>1, <1>3 DEF TypeOK
<1> QED
  BY <1>2, <1>3

(* The flags keep their type: BOOLEAN is closed under what the steps       *)
(* assign.                                                                 *)
LEMMA BooleanTypes ==
    TypeOK /\ [Next]_vars => ({failed, capturing, shm, early, slow} \subseteq BOOLEAN)'
<1> SUFFICES ASSUME TypeOK, [Next]_vars
             PROVE  /\ failed' \in BOOLEAN /\ capturing' \in BOOLEAN /\ shm' \in BOOLEAN
                    /\ early' \in BOOLEAN /\ slow' \in BOOLEAN
  OBVIOUS
<1>0. /\ failed \in BOOLEAN /\ capturing \in BOOLEAN /\ shm \in BOOLEAN
      /\ early \in BOOLEAN /\ slow \in BOOLEAN /\ SharedMemory \in BOOLEAN
  BY TestSuiteAssumption DEF TypeOK
<1> USE <1>0 DEF Prints, Passes, Assert, Stays, Dies
<1>1. CASE DoCaptureStdout \/ GetCapturedStdout \/ RunServerInBackground \/ Join
           \/ UnrefElement \/ SetServerSocket \/ SetModelComponent
           \/ SetModelStatusTimeout \/ GetProperties \/ SetCaps \/ PlayPipeline \/ PopMessage
           \/ NextTest
  BY <1>1 DEF DoCaptureStdout, GetCapturedStdout, RunServerInBackground, Join,
     UnrefElement, SetServerSocket, SetModelComponent, SetModelStatusTimeout,
     GetProperties, SetCaps, PlayPipeline, PopMessage, NextTest
<1>2. CASE Shutdown
  BY <1>2 DEF Shutdown
<1>3. CASE MakeElement \/ LinkPipeline \/ CallsThrow \/ ShmOpenFails
  BY <1>3 DEF MakeElement, LinkPipeline, CallsThrow, ShmOpenFails
<1>4. CASE TearDownPipeline
  BY <1>4 DEF TearDownPipeline
<1>5. CASE \E ok \in BOOLEAN : StartModelReturns(ok) \/ DescribeModelReturns(ok)
  BY <1>5 DEF StartModelReturns, DescribeModelReturns
<1>6. CASE StartModelFails
  BY <1>6 DEF StartModelFails
<1>7. CASE RunServerThread \/ Streaming \/ UNCHANGED vars
  BY <1>7 DEF RunServerThread, BuildAndStart, StoreServer, WaitReturns,
     Streaming, Chain, InferenceConsumerChain, EndOfStream, vars
<1>8. CASE \E p \in DOMAIN Tests : Start(p)
  BY <1>8 DEF Start
<1> QED
  BY <1>1, <1>2, <1>3, <1>4, <1>5, <1>6, <1>7, <1>8 DEF Next, TestBody, SetProperty

(* The states of the server's thread and of the global that points to the  *)
(* server keep their types.                                                *)
LEMMA ThreadTypes ==
    TypeOK /\ ServerInv' /\ [Next]_vars =>
        (/\ test_server \in {"none", "NULL", "live", "old"}
         /\ thread \in {"none", "starting", "built", "waiting", "shutdown", "returned"}
         /\ thread # "none" => test_server # "none")'
<1> SUFFICES ASSUME TypeOK, ServerInv', [Next]_vars
             PROVE  /\ test_server' \in {"none", "NULL", "live", "old"}
                    /\ thread' \in {"none", "starting", "built", "waiting", "shutdown",
                                    "returned"}
  BY DEF ServerInv
<1>0. /\ test_server \in {"none", "NULL", "live", "old"}
      /\ thread \in {"none", "starting", "built", "waiting", "shutdown", "returned"}
  BY DEF TypeOK
<1>1. CASE RunServerInBackground \/ Shutdown \/ Join \/ NextTest
  BY <1>0, <1>1 DEF RunServerInBackground, Shutdown, Join, NextTest, Dies
<1>2. CASE RunServerThread \/ \E p \in DOMAIN Tests : Start(p)
  BY <1>0, <1>2 DEF RunServerThread, BuildAndStart, StoreServer, WaitReturns, Start
<1>3. CASE DoCaptureStdout \/ GetCapturedStdout \/ MakeElement \/ LinkPipeline
           \/ UnrefElement \/ TearDownPipeline \/ SetProperty \/ GetProperties
           \/ SetCaps \/ PlayPipeline \/ PopMessage
           \/ CallsThrow \/ ShmOpenFails \/ Streaming \/ UNCHANGED vars
  <2>1. UNCHANGED <<test_server, thread>>
    BY <1>3 DEF DoCaptureStdout, GetCapturedStdout, MakeElement, LinkPipeline, UnrefElement,
         TearDownPipeline, SetProperty, SetServerSocket, SetModelComponent,
         SetModelStatusTimeout, StartModelReturns, DescribeModelReturns, StartModelFails,
         GetProperties, SetCaps, PlayPipeline, PopMessage, CallsThrow, ShmOpenFails,
         Streaming, Chain, InferenceConsumerChain, EndOfStream, Dies, vars
  <2> QED
    BY <1>0, <2>1
<1> QED
  BY <1>1, <1>2, <1>3 DEF Next, TestBody

(* The states of the pipeline, of its stream and of its bus keep their     *)
(* types.                                                                  *)
LEMMA PipelineTypes ==
    TypeOK /\ LineInv /\ PlaceInv /\ [Next]_vars =>
        (/\ pipeline \in {"none", "bare", "NULL", "PLAYING"}
         /\ stream \in {"stopped", "chain", "consumer", "pushed", "EOS"}
         /\ stream # "stopped" => pipeline = "PLAYING"
         /\ bus \in Seq({"ERROR", "EOS"}))'
<1> SUFFICES ASSUME TypeOK, LineInv, PlaceInv, [Next]_vars
             PROVE  /\ pipeline' \in {"none", "bare", "NULL", "PLAYING"}
                    /\ stream' \in {"stopped", "chain", "consumer", "pushed", "EOS"}
                    /\ stream' # "stopped" => pipeline' = "PLAYING"
                    /\ bus' \in Seq({"ERROR", "EOS"})
  OBVIOUS
<1>0. /\ pipeline \in {"none", "bare", "NULL", "PLAYING"}
      /\ stream \in {"stopped", "chain", "consumer", "pushed", "EOS"}
      /\ stream # "stopped" => pipeline = "PLAYING"
      /\ bus \in Seq({"ERROR", "EOS"})
  BY DEF TypeOK
<1>1. CASE DoCaptureStdout \/ GetCapturedStdout \/ RunServerInBackground \/ Shutdown \/ Join
           \/ SetServerSocket \/ SetModelComponent \/ SetModelStatusTimeout \/ GetProperties
           \/ SetCaps \/ CallsThrow \/ ShmOpenFails \/ NextTest \/ RunServerThread
           \/ UNCHANGED vars
           \/ \E ok \in BOOLEAN : StartModelReturns(ok) \/ DescribeModelReturns(ok)
  <2>1. UNCHANGED <<pipeline, stream, bus>>
    BY <1>1 DEF DoCaptureStdout, GetCapturedStdout, RunServerInBackground, Shutdown, Join,
       SetServerSocket, SetModelComponent, SetModelStatusTimeout, GetProperties,
       SetCaps, CallsThrow, ShmOpenFails, NextTest, RunServerThread, BuildAndStart,
       StoreServer, WaitReturns, StartModelReturns, DescribeModelReturns, Dies, vars
  <2> QED
    BY <1>0, <2>1
<1>2. CASE MakeElement \/ LinkPipeline \/ UnrefElement
  <2>1. line \in 1..Len(Body) /\ Running /\ Row.pipe # "PLAYING"
    BY <1>2, AtBody, AtStep, RuleOf DEF MakeElement, LinkPipeline, UnrefElement,
       AfterMake, AfterUnref
  <2>2. stream = "stopped"
    BY <2>1 DEF PlaceInv, PlaceHolds
  <2> QED
    BY <1>0, <1>2, <2>2 DEF MakeElement, LinkPipeline, UnrefElement
<1>3. CASE TearDownPipeline \/ \E p \in DOMAIN Tests : Start(p)
  <2>1. /\ pipeline' = "none" /\ stream' = "stopped" /\ bus' = <<>>
    BY <1>3 DEF TearDownPipeline, Start
  <2>2. <<>> \in Seq({"ERROR", "EOS"})
    OBVIOUS
  <2> QED
    BY <2>1, <2>2
<1>4. CASE PlayPipeline
  BY <1>0, <1>4 DEF PlayPipeline
<1>5. CASE PopMessage
  <2>1. bus # <<>> /\ bus' = Tail(bus) /\ UNCHANGED <<pipeline, stream>>
    BY <1>5 DEF PopMessage
  <2> QED
    BY <1>0, <2>1
<1>6. CASE StartModelFails
  <2>1. bus' = Append(bus, "ERROR") /\ UNCHANGED <<pipeline, stream>>
    BY <1>6 DEF StartModelFails
  <2> QED
    BY <1>0, <2>1
<1>7. CASE Streaming
  <2>1. \/ bus' = bus \/ bus' = Append(bus, "EOS")
    BY <1>7 DEF Streaming, Chain, InferenceConsumerChain, EndOfStream
  <2>2. bus' \in Seq({"ERROR", "EOS"})
    BY <1>0, <2>1
  <2>3. /\ stream # "stopped" /\ pipeline' = pipeline
        /\ stream' \in {"consumer", "pushed", "EOS"}
    BY <1>7 DEF Streaming, Chain, InferenceConsumerChain, EndOfStream
  <2> QED
    BY <1>0, <2>2, <2>3
<1> QED
  BY <1>1, <1>2, <1>3, <1>4, <1>5, <1>6, <1>7 DEF Next, TestBody, SetProperty

(* The time left to StartModel, which goes below zero by less than the     *)
(* five seconds of a poll, keeps its type.                                 *)
LEMMA PollingTypes ==
    TypeOK /\ RecordInv /\ [Next]_vars =>
        (calling \in {"none", "StartModel", "DescribeModel"} /\ left \in -4..600)'
<1> SUFFICES ASSUME TypeOK, RecordInv, [Next]_vars
             PROVE  calling' \in {"none", "StartModel", "DescribeModel"} /\ left' \in -4..600
  OBVIOUS
<1>0. calling \in {"none", "StartModel", "DescribeModel"} /\ left \in -4..600
  BY DEF TypeOK
<1>1. CASE DoCaptureStdout \/ GetCapturedStdout \/ RunServerInBackground \/ Shutdown \/ Join
           \/ MakeElement \/ LinkPipeline \/ UnrefElement \/ TearDownPipeline
           \/ SetModelStatusTimeout \/ GetProperties \/ SetCaps \/ PlayPipeline \/ PopMessage
           \/ CallsThrow \/ ShmOpenFails \/ NextTest \/ RunServerThread \/ Streaming
           \/ UNCHANGED vars
  <2>1. UNCHANGED <<calling, left>>
    BY <1>1 DEF DoCaptureStdout, GetCapturedStdout, RunServerInBackground, Shutdown, Join,
       MakeElement, LinkPipeline, UnrefElement, TearDownPipeline, SetModelStatusTimeout,
       GetProperties, SetCaps, PlayPipeline, PopMessage, CallsThrow, ShmOpenFails, NextTest,
       RunServerThread, BuildAndStart, StoreServer, WaitReturns, Streaming, Chain,
       InferenceConsumerChain, EndOfStream, Dies, vars
  <2> QED
    BY <1>0, <2>1
<1>2. CASE SetServerSocket \/ SetModelComponent \/ StartModelFails
           \/ \E p \in DOMAIN Tests : Start(p)
  BY <1>0, <1>2 DEF SetServerSocket, SetModelComponent, StartModelFails, Start
<1>3. ASSUME NEW ok \in BOOLEAN, StartModelReturns(ok)
      PROVE  calling' = "DescribeModel" /\ left' \in -4..600
  <2>1. element.model_status_timeout \in 0..600
    BY DEF RecordInv, Element
  <2>2. calling' = "DescribeModel" /\ left' = element.model_status_timeout
    BY <1>3 DEF StartModelReturns
  <2> QED
    BY <2>1, <2>2
<1>4. ASSUME NEW ok \in BOOLEAN, DescribeModelReturns(ok)
      PROVE  calling' \in {"none", "StartModel", "DescribeModel"} /\ left' \in -4..600
  <2>1. /\ left > 0 /\ calling' \in {calling, "none"}
        /\ left' = left \/ left' = left - 5
    BY <1>4 DEF DescribeModelReturns
  <2> QED
    BY <1>0, <2>1
<1> QED
  BY <1>1, <1>2, <1>3, <1>4 DEF Next, TestBody, SetProperty

(* What is invariant whether a server was late or not.                     *)
LEMMA BaseInvariant == BaseInv /\ [Next]_vars => BaseInv'
<1> SUFFICES ASSUME BaseInv, [Next]_vars PROVE BaseInv'
  OBVIOUS
<1>1. LineInv' /\ RecordInv'
  BY LineInvariant, RecordInvariant DEF BaseInv
<1>2. ServerInv' /\ FixtureInv' /\ PlaceInv' /\ KeptInv'
  BY <1>1, ServerInvariant, FixtureInvariant, PlaceInvariant, KeptInvariant DEF BaseInv
<1>3. ShmInv'
  BY <1>1, ShmInvariant
<1>4. /\ element.server_socket' \in {Default, 50051, 50052}
      /\ element.model_component' \in {"NULL", "SampleModel"}
      /\ element.model_status_timeout' \in 0..600
  BY <1>1 DEF RecordInv, Element
<1>5. TypeOK'
  BY <1>1, <1>2, <1>4, ControlTypes, BooleanTypes, ThreadTypes, PipelineTypes, PollingTypes
     DEF BaseInv, TypeOK
<1> QED
  BY <1>1, <1>2, <1>3, <1>5 DEF BaseInv

(* It is true before the first program is started.                         *)
LEMMA BaseInitially == Init => BaseInv
<1> SUFFICES ASSUME Init PROVE BaseInv
  OBVIOUS
<1>1. RecordInv /\ ~Running
  BY DEF Init, RecordInv, Element, NewElement, Default, Running
<1>2. LineInv /\ ServerInv /\ FixtureInv /\ PlaceInv /\ KeptInv /\ ShmInv
  BY <1>1 DEF Init, LineInv, ServerInv, FixtureInv, PlaceInv, KeptInv, ShmInv
<1>3. /\ element.server_socket \in {Default, 50051, 50052}
      /\ element.model_component \in {"NULL", "SampleModel"}
      /\ element.model_status_timeout \in 0..600
  BY <1>1 DEF RecordInv, Element
<1>4. <<>> \in Seq({"ERROR", "EOS"})
  OBVIOUS
<1>5. /\ process = "none" /\ exit = "none" /\ test = 1 /\ line = 1
      /\ pipeline = "none" /\ stream = "stopped" /\ bus \in Seq({"ERROR", "EOS"})
      /\ test_server = "none" /\ thread = "none" /\ calling = "none" /\ left = 0
      /\ failed = FALSE /\ capturing = FALSE /\ shm = FALSE /\ early = FALSE /\ slow = FALSE
  BY <1>4 DEF Init
<1>6. {failed, capturing, shm, early, slow} \subseteq BOOLEAN
  BY <1>5
<1>7. TypeOK
  BY <1>3, <1>5, <1>6 DEF TypeOK
<1> QED
  BY <1>1, <1>2, <1>7 DEF BaseInv
=============================================================================
