----------------------------- MODULE TestSuite ------------------------------
(***************************************************************************)
(* The test programs gstlookoutvisiontest and                              *)
(* LookoutVisionInferenceClientTest with the server they test against      *)
(* (TestServer.cc).  A program is a process with the gtest thread, which   *)
(* runs the tests in file order, the thread of the test server, and the    *)
(* streaming thread of the pipeline under test.  The programs are run one  *)
(* after the other, in any order and any number of times, also after one   *)
(* has died; what passes from one to the next is the shared memory segment *)
(* the element under test uses in the SHARED_MEMORY build.                 *)
(*                                                                         *)
(* A test is a sequence of steps; each definition below is the body of the *)
(* TEST_F of that name.  The element is what the tests can see of it: the  *)
(* properties, StartModel, one frame, the messages and the prints.         *)
(***************************************************************************)
EXTENDS Integers, Sequences

CONSTANT SharedMemory   \* the build option
ASSUME TestSuiteAssumption == SharedMemory \in BOOLEAN

VARIABLES
    process,     \* the test program that runs, or "none"
    exit,        \* how the last one ended: "none" yet, "returned", "failed" (it
                 \* returned after an assertion had failed) or "died"
    test, line,  \* the test and its step the gtest thread is at
    failed,      \* an assertion has failed
    capturing,   \* stdout is being captured
    output,      \* what has been captured: the texts the tests look for
    test_server, \* TestServer::test_server: "none" (no TestServer), "NULL",
                 \* "live", or "old", a server that was shut down
    thread,      \* TestServer::server_thread: "none", "starting", "built",
                 \* "waiting" (test_server->Wait()), "shutdown" or "returned"
    service,     \* its address and the status DescribeModel answers
    element,     \* the lookoutvision element's fields, the metadata it adds, whether
                 \* an inferenceconsumer follows it and a leaked message keeps it
    pipeline,    \* where it is: "none", "bare", in a pipeline "NULL" or "PLAYING"
    stream,      \* streaming thread: "stopped", "chain", "consumer", "pushed", "EOS"
    bus,         \* messages on the pipeline's bus
    calling,     \* RPC in progress in set_property: "none", "StartModel", "DescribeModel"
    left,        \* seconds of the timeout left to waitForModelStatusWithTimeout
    shm,         \* SHM_NAME exists, with the mode the client gives it
    \* History of the process, read by the properties only:
    early,       \* StopServer came before the server thread had stored test_server
    slow         \* a model on a RUNNING server was not reached within the timeout

gtest     == <<test, line>>
capture   == <<capturing, output>>
server    == <<test_server, thread, service>>
plugin    == <<element, pipeline, stream, bus>>
polling   == <<calling, left>>
history   == <<early, slow>>
vars == <<process, exit, gtest, failed, capture, server, plugin, polling, shm, history>>

-----------------------------------------------------------------------------
(* The steps of tests. *)

CaptureStdout == [op |-> "CaptureStdout"]
RunServer(a, s) == [op |-> "RunServerInBackground", address |-> a, status |-> s]
CallShutdown == [op |-> "Shutdown"]
CallJoin == [op |-> "join"]
StopServer == <<CallShutdown, CallJoin>>
Make == [op |-> "Make"]
Unref == [op |-> "Unref"]
Link(format, next, expected) ==
    [op |-> "Link", format |-> format, next |-> next, expected |-> expected]
Set(property, value) == [op |-> "Set", property |-> property, value |-> value]
Get(socket, model, timeout) ==
    [op |-> "Get", server_socket |-> socket, model_component |-> model, timeout |-> timeout]
Caps(dims) == [op |-> "Caps", dims |-> dims]
Play == [op |-> "Play"]
Pop(expected) == [op |-> "Pop", expected |-> expected]
Printed(texts) == [op |-> "Printed", texts |-> texts]
MockThrows == [op |-> "MockThrows"]
ShmReadOnly == [op |-> "ShmReadOnly"]
TearDown == [op |-> "TearDown"]

Runs(messageType, texts) == <<Play, Pop(messageType), Printed(texts)>>
OnlyWidth == {"width"}
OnlyHeight == {"height"}

(* The texts that tests look for. *)
Anomaly == {"Is Anomalous?", "Confidence:"}
Received == {"Detect Anomaly Result - Is Anomalous?", "Confidence:"}
CallFailed == {"Inference call failed"}
NotReached == {"Model didn't reach RUNNING state"}
NoDimensions == {"no dimensions"}
Unavailable == {"StartModel returned error 14", "DescribeModel failed with error 14",
                "Model didn't reach RUNNING state"}

(* gstlookoutvisiontest.cc *)

plugin_init_test == <<Make, Unref>>

element_linking_test == <<Link("any", "sink", "linked")>>

pipeline_run_without_server_test ==
    <<CaptureStdout, Link("any", "sink", "linked")>> \o Runs("EOS", CallFailed)

pipeline_run_with_server_test ==
    <<CaptureStdout, RunServer(50051, "RUNNING"), Link("RGB", "sink", "linked"),
      Set("server-socket", 50051), Set("model-component", "SampleModel"),
      Set("model-status-timeout", 180), Get(50051, "SampleModel", 180)>>
    \o Runs("EOS", Anomaly)

pipeline_invalid_input_type_test == <<Link("BGR", "sink", "refused")>>

pipeline_run_without_server_start_model_error_test ==
    <<CaptureStdout, Link("any", "sink", "linked"),
      Set("server-socket", 50051), Set("model-status-timeout", 3),
      Set("model-component", "SampleModel")>>
    \o Runs("ERROR", Unavailable)

pipeline_run_with_server_start_model_failed_test ==
    <<CaptureStdout, RunServer(50051, "FAILED"), Link("any", "sink", "linked"),
      Set("server-socket", 50051), Set("model-status-timeout", 10),
      Set("model-component", "SampleModel")>>
    \o Runs("ERROR", NotReached)

pipeline_run_with_server_start_model_timeout_test ==
    <<CaptureStdout, RunServer(50051, "RUNNING"), Link("any", "sink", "linked"),
      Set("server-socket", 50051), Set("model-status-timeout", 0),
      Set("model-component", "SampleModel")>>
    \o Runs("ERROR", NotReached)

pipeline_update_server_start_model_test ==
    <<CaptureStdout, RunServer(50051, "RUNNING"), Link("any", "sink", "linked"),
      Set("server-socket", 50051), Set("model-component", "SampleModel")>>
    \o StopServer \o <<RunServer(50052, "RUNNING"), Set("server-socket", 50052)>>
    \o Runs("EOS", Anomaly)

pipeline_update_server_start_model_error_test ==
    <<CaptureStdout, RunServer(50051, "RUNNING"), Link("any", "sink", "linked"),
      Set("server-socket", 50051), Set("model-component", "SampleModel"),
      Set("model-status-timeout", 5), Set("server-socket", 50052)>>
    \o Runs("ERROR", Unavailable)

no_width_in_caps_test ==
    <<CaptureStdout, Make, Caps(OnlyHeight), Printed(NoDimensions), Unref>>

no_height_in_caps_test ==
    <<CaptureStdout, Make, Caps(OnlyWidth), Printed(NoDimensions), Unref>>

no_dimensions_in_caps_test ==
    <<CaptureStdout, Make, Caps({}), Printed(NoDimensions), Unref>>

pipeline_read_inference_meta_test ==
    <<CaptureStdout, RunServer(50051, "RUNNING"), Link("any", "consumer", "linked"),
      Set("server-socket", 50051), Set("model-component", "SampleModel")>>
    \o Runs("EOS", Received)

(* LookoutVisionInferenceClientTest.cc *)

grpc_calls_throw_exception_test == <<MockThrows>>

inference_on_large_size_frame_with_shared_memory_test ==
    <<CaptureStdout, RunServer(50051, "RUNNING"), Link("RGB", "sink", "linked"),
      Set("server-socket", 50051), Set("model-component", "SampleModel"),
      Set("model-status-timeout", 180)>>
    \o Runs("EOS", Anomaly)

shm_open_error_test == <<ShmReadOnly>>

(* RUN_ALL_TESTS of both programs. *)
Tests == [
    gstlookoutvisiontest |-> <<
        plugin_init_test, element_linking_test, pipeline_run_without_server_test,
        pipeline_run_with_server_test, pipeline_invalid_input_type_test,
        pipeline_run_without_server_start_model_error_test,
        pipeline_run_with_server_start_model_failed_test,
        pipeline_run_with_server_start_model_timeout_test,
        pipeline_update_server_start_model_test,
        pipeline_update_server_start_model_error_test,
        no_width_in_caps_test, no_height_in_caps_test, no_dimensions_in_caps_test,
        pipeline_read_inference_meta_test>>,
    LookoutVisionInferenceClientTest |->
        <<grpc_calls_throw_exception_test>> \o
        (IF SharedMemory
         THEN <<inference_on_large_size_frame_with_shared_memory_test, shm_open_error_test>>
         ELSE <<>>)]


-----------------------------------------------------------------------------
Default == 0        \* the default server-socket, on which nobody listens

Script == Tests[process][test] \o <<TearDown>> \o StopServer
Op == Script[line]
At(op) == process # "none" /\ calling = "none" /\ line <= Len(Script) /\ Op.op = op

(* ASSERT_*: the rest of the test is skipped; TearDown is not. *)
Assert(holds) ==
    /\ line' = IF holds THEN line + 1 ELSE Len(Tests[process][test]) + 1
    /\ failed' = (failed \/ ~holds)
    /\ UNCHANGED <<process, exit, test>>
Passes == Assert(TRUE)
Stays == UNCHANGED <<process, exit, gtest, failed>>

Dies ==
    /\ process' = "none" /\ exit' = "died"
    /\ UNCHANGED <<gtest, failed, capture, server, plugin, polling, shm>>

Prints(texts) ==
    output' = (IF capturing THEN output \cup texts ELSE output) /\ UNCHANGED capturing

NewElement(next) ==
    [server_socket |-> Default, model_component |-> "NULL", model_status_timeout |-> 180,
     channel |-> "new", meta |-> "none", next |-> next, keeper |-> "none"]

Init ==
    /\ process = "none" /\ exit = "none" /\ test = 1 /\ line = 1 /\ failed = FALSE
    /\ capturing = FALSE /\ output = {}
    /\ test_server = "none" /\ thread = "none"
    /\ service = [address |-> Default, status |-> "RUNNING"]
    /\ element = NewElement("sink") /\ pipeline = "none" /\ stream = "stopped" /\ bus = <<>>
    /\ calling = "none" /\ left = 0
    /\ shm = FALSE /\ early = FALSE /\ slow = FALSE

(* main *)
Start(p) ==
    /\ process = "none"
    /\ process' = p /\ test' = 1 /\ line' = 1 /\ failed' = FALSE
    /\ capturing' = FALSE /\ output' = {}
    /\ test_server' = "none" /\ thread' = "none"
    /\ pipeline' = "none" /\ stream' = "stopped" /\ bus' = <<>>
    /\ calling' = "none" /\ early' = FALSE /\ slow' = FALSE
    /\ UNCHANGED <<exit, service, element, left, shm>>

(* The next test has a fixture of its own; main returns 0 after the last.  *)
NextTest ==
    /\ process # "none" /\ calling = "none" /\ line > Len(Script)
    /\ \/ /\ test < Len(Tests[process])
          /\ test' = test + 1 /\ line' = 1 /\ test_server' = "none"
          /\ UNCHANGED <<process, exit>>
       \/ /\ test = Len(Tests[process])
          /\ process' = "none" /\ exit' = IF failed THEN "failed" ELSE "returned"
          /\ UNCHANGED <<gtest, test_server>>
    /\ UNCHANGED <<failed, capture, thread, service, plugin, polling, shm, history>>

-----------------------------------------------------------------------------
(* The test server. *)

(* Assigning to a std::thread that is joinable ends the process. *)
RunServerInBackground ==
    /\ At("RunServerInBackground")
    /\ IF thread # "none" THEN Dies
       ELSE /\ thread' = "starting"
            /\ service' = [address |-> Op.address, status |-> Op.status]
            /\ test_server' = IF test_server = "none" THEN "NULL" ELSE test_server
            /\ Passes /\ UNCHANGED <<capture, plugin, polling, shm>>
    /\ UNCHANGED history

(* RunServer: the server answers before test_server points to it. *)
BuildAndStart ==
    /\ process # "none" /\ thread = "starting" /\ thread' = "built"
    /\ Stays /\ UNCHANGED <<capture, test_server, service, plugin, polling, shm, history>>

StoreServer ==
    /\ process # "none" /\ thread = "built" /\ thread' = "waiting" /\ test_server' = "live"
    /\ Stays /\ UNCHANGED <<capture, service, plugin, polling, shm, history>>

WaitReturns ==
    /\ process # "none" /\ thread = "shutdown" /\ thread' = "returned"
    /\ Stays /\ UNCHANGED <<capture, test_server, service, plugin, polling, shm, history>>

MutantNoShutdown ==
    /\ At("Shutdown")
    /\ Passes /\ UNCHANGED <<capture, server, plugin, polling, shm, history>>

(* StopServer: test_server->Shutdown() on what test_server points to. *)
Shutdown ==
    /\ At("Shutdown")
    /\ early' = (early \/ thread \in {"starting", "built"})
    /\ \/ test_server = "none" /\ Passes /\ UNCHANGED <<server, capture, plugin, polling, shm>>
       \/ test_server = "NULL" /\ Dies
       \/ /\ test_server \in {"live", "old"}
          /\ test_server' = "old"
          /\ thread' = IF test_server = "live" THEN "shutdown" ELSE thread
          /\ Passes /\ UNCHANGED <<service, capture, plugin, polling, shm>>
    /\ UNCHANGED slow

MutantNoJoin ==
    /\ At("join")
    /\ Passes /\ UNCHANGED <<capture, server, plugin, polling, shm, history>>

Join ==
    /\ At("join")
    /\ \/ test_server = "none" /\ UNCHANGED thread
       \/ test_server # "none" /\ thread = "returned" /\ thread' = "none"
    /\ Passes /\ UNCHANGED <<capture, test_server, service, plugin, polling, shm, history>>

(* What a client gets from InferenceServiceImplementation. An RPC fails if *)
(* nobody listens, and may go on failing while the channel backs off.      *)
Listening(address) == thread \in {"built", "waiting"} /\ service.address = address

Rpc(ok) ==
    IF ok THEN Listening(element.server_socket)
          ELSE ~Listening(element.server_socket) \/ element.channel = "failed"
Channel(ok) == IF ok THEN "ready" ELSE "failed"

-----------------------------------------------------------------------------
(* The steps of the gtest thread. *)

DoCaptureStdout ==
    /\ At("CaptureStdout")
    /\ \/ capturing /\ Dies      \* "Only one stdout capturer can exist at a time"
       \/ /\ ~capturing /\ capturing' = TRUE /\ output' = {}
          /\ Passes /\ UNCHANGED <<server, plugin, polling, shm>>
    /\ UNCHANGED history

GetCapturedStdout ==
    /\ At("Printed")
    /\ capturing' = FALSE /\ output' = {}
    /\ Assert(Op.texts \subseteq output)
    /\ UNCHANGED <<server, plugin, polling, shm, history>>

(* The element opens the segment, with or without a pipeline around it.    *)
MakeElement ==
    /\ At("Make")
    /\ pipeline' = "bare" /\ element' = NewElement("sink")
    /\ shm' = SharedMemory
    /\ Passes /\ UNCHANGED <<capture, server, stream, bus, polling, history>>

(* The element's pads accept RGB only. *)
LinkPipeline ==
    /\ At("Link")
    /\ pipeline' = "NULL" /\ element' = NewElement(Op.next)
    /\ shm' = SharedMemory
    /\ Assert(Op.format \in {"any", "RGB"} <=> Op.expected = "linked")
    /\ UNCHANGED <<capture, server, stream, bus, polling, history>>

(* finalize: the client's destructor unlinks the segment. *)
UnrefElement ==
    /\ At("Unref")
    /\ pipeline' = "none" /\ shm' = FALSE
    /\ Passes /\ UNCHANGED <<capture, server, element, stream, bus, polling, history>>

MutantNoUnlink ==
    /\ At("TearDown")
    /\ bus' = <<>> /\ pipeline' = "none" /\ stream' = "stopped"
    /\ Passes /\ UNCHANGED <<capture, server, element, polling, shm, history>>

MutantOnlyUnref ==
    /\ At("TearDown")
    /\ bus' = <<>> /\ pipeline' = "none"
    /\ shm' = (shm /\ (pipeline \in {"none", "bare"} \/ element.keeper = "message"))
    /\ Passes /\ UNCHANGED <<capture, server, element, stream, polling, history>>

(* The pipeline and its bus go, and the element with them unless a message *)
(* that was never unreffed keeps it: then nobody unlinks its segment.      *)
TearDownPipeline ==
    /\ At("TearDown")
    /\ bus' = <<>> /\ pipeline' = "none" /\ stream' = "stopped"
    /\ shm' = (shm /\ (pipeline \in {"none", "bare"} \/ element.keeper = "message"))
    /\ Passes /\ UNCHANGED <<capture, server, element, polling, history>>

SetServerSocket ==
    /\ At("Set") /\ Op.property = "server-socket"
    /\ element' = [element EXCEPT !.server_socket = Op.value, !.channel = "new"]
    /\ \/ element.model_component = "NULL" /\ Passes /\ UNCHANGED calling
       \/ element.model_component # "NULL" /\ Stays /\ calling' = "StartModel"
    /\ UNCHANGED <<capture, server, pipeline, stream, bus, left, shm, history>>

SetModelComponent ==
    /\ At("Set") /\ Op.property = "model-component"
    /\ calling' = "StartModel"
    /\ Stays /\ UNCHANGED <<capture, server, plugin, left, shm, history>>

SetModelStatusTimeout ==
    /\ At("Set") /\ Op.property = "model-status-timeout"
    /\ element' = [element EXCEPT !.model_status_timeout = Op.value]
    /\ Passes /\ UNCHANGED <<capture, server, pipeline, stream, bus, polling, shm, history>>

(* g_str_equal does not take NULL, which model_component is until a model  *)
(* has been started.                                                       *)
GetProperties ==
    /\ At("Get")
    /\ \/ element.model_component = "NULL" /\ Dies
       \/ /\ element.model_component # "NULL"
          /\ Assert(/\ element.server_socket = Op.server_socket
                    /\ element.model_component = Op.model_component
                    /\ element.model_status_timeout = Op.timeout)
          /\ UNCHANGED <<capture, server, plugin, polling, shm>>
    /\ UNCHANGED history

-----------------------------------------------------------------------------
(* StartModel inside set_property. *)

StartModelReturns(ok) ==
    /\ process # "none" /\ calling = "StartModel" /\ Rpc(ok)
    /\ element' = [element EXCEPT !.channel = Channel(ok)]
    /\ Prints(IF ok THEN {} ELSE {"StartModel returned error 14"})
    /\ calling' = "DescribeModel" /\ left' = element.model_status_timeout
    /\ Stays /\ UNCHANGED <<server, pipeline, stream, bus, shm, history>>

MutantIgnoreStatus(ok) ==
    /\ process # "none" /\ calling = "DescribeModel" /\ left > 0 /\ Rpc(ok)
    /\ Prints(IF ok THEN {} ELSE {"DescribeModel failed with error 14"})
    /\ IF ok
       THEN /\ element' = [element EXCEPT !.channel = "ready", !.model_component = "SampleModel"]
            /\ calling' = "none" /\ Passes /\ UNCHANGED left
       ELSE /\ element' = [element EXCEPT !.channel = Channel(ok)]
            /\ left' = left - 5 /\ Stays /\ UNCHANGED calling
    /\ UNCHANGED <<server, pipeline, stream, bus, shm, history>>

DescribeModelReturns(ok) ==
    /\ process # "none" /\ calling = "DescribeModel" /\ left > 0 /\ Rpc(ok)
    /\ Prints(IF ok THEN {} ELSE {"DescribeModel failed with error 14"})
    /\ IF ok /\ service.status = "RUNNING"
       THEN /\ element' = [element EXCEPT !.channel = "ready", !.model_component = "SampleModel"]
            /\ calling' = "none" /\ Passes /\ UNCHANGED left
       ELSE /\ element' = [element EXCEPT !.channel = Channel(ok)]
            /\ left' = left - 5 /\ Stays /\ UNCHANGED calling
    /\ UNCHANGED <<server, pipeline, stream, bus, shm, history>>

(* GST_ELEMENT_ERROR: the bus of a pipeline in NULL keeps the message. *)
StartModelFails ==
    /\ process # "none" /\ calling = "DescribeModel" /\ left <= 0
    /\ Prints(NotReached)
    /\ bus' = Append(bus, "ERROR")
    /\ calling' = "none"
    /\ slow' = (slow \/ /\ thread \in {"starting", "built", "waiting"}
                        /\ service.status = "RUNNING"
                        /\ service.address = element.server_socket
                        /\ element.model_status_timeout > 0)
    /\ Passes /\ UNCHANGED <<server, element, pipeline, stream, left, shm, early>>

-----------------------------------------------------------------------------
(* The pipeline. *)

(* pad_probe, called through the harness. *)
SetCaps ==
    /\ At("Caps")
    /\ Prints(IF {"width", "height"} \subseteq Op.dims THEN {} ELSE NoDimensions)
    /\ Passes /\ UNCHANGED <<server, plugin, polling, shm, history>>

PlayPipeline ==
    /\ At("Play")
    /\ pipeline' = "PLAYING" /\ stream' = "chain"
    /\ Passes /\ UNCHANGED <<capture, server, element, bus, polling, shm, history>>

(* lookoutvision's chain, for the one frame of the source. *)
Chain(ok) ==
    /\ process # "none" /\ stream = "chain"
    /\ \/ /\ element.model_component = "NULL" /\ ~ok
          /\ element' = [element EXCEPT !.meta = "FAILED"]
       \/ /\ element.model_component # "NULL" /\ Rpc(ok)
          /\ element' = [element EXCEPT !.channel = Channel(ok),
                                        !.meta = IF ok THEN "SUCCESSFUL" ELSE "FAILED"]
    /\ Prints(IF ok THEN Anomaly ELSE CallFailed)
    /\ stream' = IF element.next = "consumer" THEN "consumer" ELSE "pushed"
    /\ Stays /\ UNCHANGED <<server, pipeline, bus, polling, shm, history>>

(* inferenceconsumer's chain. *)
InferenceConsumerChain ==
    /\ process # "none" /\ stream = "consumer"
    /\ Prints(IF element.meta = "SUCCESSFUL"
              THEN Received
              ELSE CallFailed)
    /\ stream' = "pushed"
    /\ Stays /\ UNCHANGED <<server, element, pipeline, bus, polling, shm, history>>

EndOfStream ==
    /\ process # "none" /\ stream = "pushed"
    /\ bus' = Append(bus, "EOS") /\ stream' = "EOS"
    /\ Stays /\ UNCHANGED <<capture, server, element, pipeline, polling, shm, history>>

(* gst_bus_timed_pop_filtered waits for the first message.  FAIL() at an   *)
(* error returns from the test before the message is unreffed; the tests   *)
(* that expect one unref it before they assert.                            *)
PopMessage ==
    /\ At("Pop") /\ bus # <<>>
    /\ bus' = Tail(bus)
    /\ Assert(Head(bus) = Op.expected)
    /\ element' = IF Head(bus) = "ERROR" /\ Op.expected = "EOS"
                  THEN [element EXCEPT !.keeper = "message"]
                  ELSE element
    /\ UNCHANGED <<capture, server, pipeline, stream, polling, shm, history>>

-----------------------------------------------------------------------------
(* Tests of the client alone. *)

(* Exceptions of the stub become results; the client is never deleted.     *)
CallsThrow ==
    /\ At("MockThrows")
    /\ shm' = SharedMemory
    /\ Passes /\ UNCHANGED <<capture, server, plugin, polling, history>>

(* A segment made read-only keeps the element, unless root makes it, from  *)
(* opening it; one that is there already does not become read-only.        *)
ShmOpenFails ==
    /\ At("ShmReadOnly")
    /\ shm' = FALSE
    /\ Assert(~shm)
    /\ UNCHANGED <<capture, server, plugin, polling, history>>

-----------------------------------------------------------------------------
SetProperty ==
    \/ SetServerSocket \/ SetModelComponent \/ SetModelStatusTimeout
    \/ \E ok \in BOOLEAN : StartModelReturns(ok) \/ DescribeModelReturns(ok)
    \/ StartModelFails
TestBody ==
    \/ DoCaptureStdout \/ GetCapturedStdout
    \/ RunServerInBackground \/ Shutdown \/ Join
    \/ MakeElement \/ LinkPipeline \/ UnrefElement \/ TearDownPipeline
    \/ SetProperty \/ GetProperties
    \/ SetCaps \/ PlayPipeline \/ PopMessage
    \/ CallsThrow \/ ShmOpenFails
    \/ NextTest
RunServerThread == BuildAndStart \/ StoreServer \/ WaitReturns
Streaming == (\E ok \in BOOLEAN : Chain(ok)) \/ InferenceConsumerChain \/ EndOfStream

Next == TestBody \/ RunServerThread \/ Streaming \/ \E p \in DOMAIN Tests : Start(p)

Spec == Init /\ [][Next]_vars
(* Each thread is scheduled; nobody has to start a program. *)
FairSpec == Spec /\ WF_vars(TestBody) /\ WF_vars(RunServerThread) /\ WF_vars(Streaming)

-----------------------------------------------------------------------------
(* Properties. *)

(* The variables have their types; frames flow only in a pipeline that     *)
(* plays, and a server thread belongs to a TestServer                      *)
(* (gstlookoutvisiontest.cc:18-29, TestServer.cc:67-92).                   *)
TypeOK ==
    /\ process \in DOMAIN Tests \cup {"none"} /\ exit \in {"none", "returned", "failed", "died"}
    /\ test \in 1..14 /\ line \in 1..20
    /\ {failed, capturing, shm, early, slow} \subseteq BOOLEAN
    /\ test_server \in {"none", "NULL", "live", "old"}
    /\ thread \in {"none", "starting", "built", "waiting", "shutdown", "returned"}
    /\ thread # "none" => test_server # "none"
    /\ element.server_socket \in {Default, 50051, 50052}
    /\ element.model_component \in {"NULL", "SampleModel"}
    /\ element.model_status_timeout \in 0..600
    /\ pipeline \in {"none", "bare", "NULL", "PLAYING"}
    /\ stream \in {"stopped", "chain", "consumer", "pushed", "EOS"}
    /\ stream # "stopped" => pipeline = "PLAYING"
    /\ bus \in Seq({"ERROR", "EOS"})
    /\ calling \in {"none", "StartModel", "DescribeModel"} /\ left \in -4..600

(* Whatever the threads do meanwhile, whatever earlier programs left, and  *)
(* also in the tests after one whose server was late, no assertion fails   *)
(* in a program whose servers were reached within the timeouts: no test    *)
(* meets another one's server, the error comes before the end of the       *)
(* stream, and what a test looks for has been printed before it looks      *)
(* (gstlookoutvisiontest.cc:78-92, 208-227, 354-378).                      *)
AssertionsHold == failed => slow

(* A program dies only because a test stopped its server before the server *)
(* thread had stored test_server, or because a server was late: no thread  *)
(* is left joinable and no capture open (TestServer.cc:79-91).             *)
DiesOnlyOfRaces == process = "none" /\ exit = "died" => early \/ slow

(* A test begins without a server, a message or a capture of an earlier    *)
(* one; the shared memory segment is there only if a program died, from    *)
(* the client that grpc_calls_throw_exception_test never deletes, or from  *)
(* an element that the error message of a failed test keeps                *)
(* (gstlookoutvisiontest.cc:18-29, 84, LookoutVisionInferenceClientTest.cc:*)
(* 45, 98).                                                                *)
NothingLeft == process # "none" /\ line = 1 =>
    /\ thread = "none" /\ bus = <<>> /\ stream = "stopped"
    /\ capturing => slow
    /\ shm => \/ test = 1 /\ exit \in {"failed", "died"}
              \/ process = "LookoutVisionInferenceClientTest" /\ test = 2
              \/ failed

(* Every program ends, unless a server was stopped too early: then join    *)
(* may wait for ever (TestServer.cc:89-92).                                *)
ProgramsEnd == process # "none" ~> process = "none" \/ early
=============================================================================
