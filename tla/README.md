# Verification of the Lookout for Vision GStreamer plugin

TLA+ models of the `lookoutvision` GStreamer element, its inference client and
the `mqttpublisher` sample element, of the metadata that carries results between
elements, and of the repository's own test programs, the TLC configurations that
check them, and TLAPS proofs of their main properties. Paths below are those of the repository;
`client.cc` is `src/lookoutvision-client/LookoutVisionInferenceClient.cc`,
`element.cc` is `src/gst/lookoutvision/gstlookoutvision.cc`, `meta.cc` is
`src/gst/lookoutvisionmeta/gstlookoutvisionmeta.cc`, and `publisher.cc` and
`greengrass.cc` are `gstmqttpublisher.cc` and `GreengrassClient.cc` below
`mqtt-publish-sample/mqttpublisher-gstreamer-plugin/`. Of `src/tst`,
`elementtest.cc` is `gst/lookoutvision/gstlookoutvisiontest.cc`, `clienttest.cc`
is `lookoutvision-client/LookoutVisionInferenceClientTest.cc`, and
`TestServer.cc` and `gstinferenceconsumer.cc` are below `utils/`.

## 1. The system

| Component | State it keeps | Operations | What is hard |
|---|---|---|---|
| Inference client, model start (`client.cc:113-179`) | only the call's own: `start_time`, the polled status | `StartModel`, `waitForModelStatusWithTimeout`, `getModelStatus` | the status polled is old; the timeout is read off the wall clock and only between polls; RPCs fail or lose their reply; no RPC has a deadline |
| Inference client, frame transfer (`client.cc:34-111`, `SHARED_MEMORY` build) | `shm_fd`, `shm_data`, `shm_size`; in the kernel the segment's size, contents and name | `setupSHM`, `DetectAnomalies`, `writeSHM`, destructor | every client in the system uses the one name `SHM_NAME`: opening resizes, destroying unlinks, writing overwrites what another client is using; crashes leave the name behind |
| Inference client, default build | none between calls: the frame is copied into the request | `DetectAnomalies`, `setServerSocket` | the stub is replaced while a call may be using it |
| `lookoutvision` element (`element.cc`) | `model_component`, `server_socket`, `model_status_timeout`, `width`, `height`, the client, the pad probe | `set_property`, `chain`, `pad_probe`, init, finalize | two threads (the application's and the streaming thread) share the fields without a lock; the outcome depends on the order in which properties are set; `pad_probe` can remove itself |
| `GstLookoutVisionMeta` (`src/gst/lookoutvisionmeta/`) | a heap copy of the result per metadata | add, get, init, free, transform | ownership through buffer copies; a buffer that is not writable refuses metadata; reading before any type was registered |
| `mqttpublisher` element and `GreengrassClient` (`mqtt-publish-sample/`) | `publish_topic`; one IPC connection | `chain`, `set_property`, `PublishToIoTMQTT` | a timeout of ten seconds races the answer; the connection is made once and never again; the result of the publish is ignored; `set_property` frees the topic `chain` uses; a buffer without metadata may end the process |
| Test programs and `TestServer` (`src/tst`) | the test at hand, its pipeline and server; `test_server`, `server_thread`; gtest's capture of stdout; between programs the shared memory segment | the tests, their fixtures, `RunServerInBackground`, `StopServer` | a server thread that comes up while the test goes on, and a pointer both use without a lock; a failed assertion skips the rest of a test; a program that dies leaves the segment |
| Edge Agent (external; `Inference.proto`) | the status of each model | `StartModel`, `DescribeModel`, `DetectAnomalies` | changes a model's status on its own and for others |

Interactions: the application sets properties on its own thread; `server-socket`
and `model-component` call the client's `StartModel`, which blocks that thread
while it polls. Upstream pushes caps events (seen by `pad_probe`) and buffers
(`chain`) on the streaming thread; `chain` calls `DetectAnomalies`, attaches the
result to the buffer as metadata and pushes it downstream, where
`mqttpublisher` reads it. With shared memory the frame reaches the agent beside
the RPC, through a segment found by name.

What makes each part correct:

- *Model start*: `SUCCESSFUL` only for a model that ran; the call returns, and
  not much later than its timeout; a model that runs for long is noticed.
- *Frame transfer*: an answer is computed from the frame it is returned for; the
  copy stays within the segment; what a process leaks is bounded by the clients
  it has made.
- *Element*: a freed pointer is used at most by the buffer its replacement
  falls upon; the model in use was started on the
  server in use, or the application was told otherwise; a frame is sent with
  its own dimensions; every buffer leaves with a result.
- *Publisher*: the core gets true verdicts, of each frame at most one, and in
  the order of the frames except for publishes reported failed; `SUCCESSFUL`
  means the core has the message; neither the core nor the connection stops the
  video; a change of the topic harms at most the frame it falls upon.
- *Metadata*: a result has one owner; a reader sees a result of the frame it
  holds, for as long as it looks; results travel with their buffers.
- *Test programs*: an assertion fails only for what it is about, whatever ran
  before and whichever thread is slow; what a test leaves to the next is known; a
  program ends.

## 2. Modules

| Module | Models | Proofs |
|---|---|---|
| `StartModelContract` | the promise of `StartModel`: `SUCCESSFUL` only if the model ran during the call | |
| `StartModel` | `client.cc:113-179` with time | `StartModel_proof` |
| `SharedFrame` | `client.cc:34-53, 61-111` of the `SHARED_MEMORY` build | `SharedFrame_proof` |
| `LookoutVision` | `element.cc:100-249`, `client.cc:55-59` | `LookoutVision_proof` |
| `ResultFeed` | what the core is given for subscribers: true verdicts, of each frame at most one | |
| `MqttPublisher` | `publisher.cc:99-180`, `greengrass.cc:22-65`, and `meta.cc:69-78` as far as `chain` calls it | `MqttPublisher_proof` |
| `AnnotatedBuffers` | what the metadata promises to elements: results are values that travel with a buffer | |
| `ResultMeta` | `meta.cc`, `element.cc:227-248`, `gstinferenceconsumer.cc:110-125`, among the threads of any pipeline | `ResultMeta_proof` |
| `TestSuite` | `elementtest.cc`, `clienttest.cc`, `TestServer.cc`, the chain of `gstinferenceconsumer.cc`, and the element and the client as far as the tests see them (`element.cc:39-50, 76-249`) | `TestOutline_proof`, `TestFixture_proof`, `TestSuite_proof` |
| `MCStartModel`, `MCSharedFrame`, `MCLookoutVision`, `MCMqttPublisher`, `MCResultMeta`, `MCTestSuite` | values and symmetry for TLC | |

The operators called `Mutant...` stand beside the definition they distort; each
is a plausible mistake in the code that one of the properties must notice. No
specification uses them.

### StartModel

One caller and one model. `pc` is the blocking call the client is in
(`StartModel`, `DescribeModel`, `usleep`), `status` is the agent's. An RPC takes
three steps: the call, the agent's handling (`AgentStartModel`,
`AgentDescribeModel`) and the client's receipt (`StartModelReturns`,
`DescribeModelReturns`), with changes of the model's status (`AgentStep`)
anywhere in between. `RpcFails` is a call that fails, before or after the agent
acted; a failed `StartModel` does not keep the client from polling, a failed
`DescribeModel` counts as not running, as in the code. `Tick` passes a second
of real time, the resolution of `std::time`; `ClockStep` sets the wall clock, which the code reads.
`LoopTest` is the head of the loop, met once by each round. The history
variables `firstRun`, `window` and `rpcOk` are read by no action's guard.
Not modelled: a signal that ends `usleep` early (the next poll then comes
sooner, which only shortens the times bounded here).

### SharedFrame

Any number of clients and of kernel objects. `shmName` is the object bound to
the name; `size` and `content` belong to the object and are shared by all who
have it open. The actions follow the calls: `ShmOpen`, `SetupSHM` (`ftruncate`
and `mmap`), `WriteSHM` (the growth in `writeSHM`; in both either call may fail,
which the code does not look at: `Ftruncate`, `Mmap`), `MemcpyBegins` and
`MemcpyEnds`, `AgentInfers`, `RpcFails`, `DetectAnomaliesReturns`, `Destroy`. A
copy takes two steps so that others can come in between; copies that overlap
leave either frame or a mixture (`Junk`), chosen nondeterministically. `Crash`
and `BusError` (SIGBUS, or SIGSEGV at the `MAP_FAILED` of a failed `mmap`) end a
process: its descriptors and mappings go, the name stays, and it may start again.
A client of the model is a process that makes one client after another: `made`
counts them, and `leaked` the mappings that nothing refers to any more, left by
the growth in `writeSHM` or by an `mmap` that fails after it. `Destroy` unmaps
what `shm_data` refers to and no more, as the destructor does (`client.cc:49`);
only the end of the process frees the rest. An object that only leaked mappings
refer to cannot be reached any more and may stand for a new one. `AgentInfers`
answers only from a segment as large as the size in the handle.
Sizes are in pages, because an access beyond an object's end faults by page.
The history variables `overlapped` (two clients have been alive at once) and
`grown` (a client has set out to grow its segment) let the properties say which
of the two it takes for something to go wrong; `shmFailed` holds the clients that
had a call fail, so that a fault can be traced to a call of the same client. What
the model takes from POSIX (external in the map): objects live until closed and unlinked, `ftruncate` drops what is beyond the new end, an access beyond the
end raises SIGBUS. A `shm_open` that fails leaves no client (the constructor
throws) and is no action here; its test is in `TestSuite`.

### LookoutVision

`appPc` is the application thread, `streamPc` the streaming thread.
`set_property` for `model-component` takes three steps (`SetModelComponent`
calls `StartModel`; `StartModelReturns` frees the old string on success;
`Strdup` stores the new one), so that `chain` can come in between; between the
last two `model_component` dangles (`Freed`). `chain` takes four: read the
pointer (`Chain`), copy the string and enter the RPC (`DetectAnomalies`),
return (`DetectAnomaliesReturns`), annotate and push (`Push`). When a string or
stub the streaming thread holds is freed, its `request` shows `Freed`; the C++
program's behaviour is then undefined, and the model goes on with `Freed`
standing for any string and with either outcome of the call. The history
variable `disturbed` tells whether, during the chain in progress, the application
has replaced `model_component` or the stub. A buffer may arrive not writable
(`shared`). `StartModel` is seen through what the module `StartModel` guarantees:
either result, and never `SUCCESSFUL` with a timeout of 0.
`lastStart = "FAILED"` is the posted `GST_ELEMENT_ERROR`. One application
thread is assumed. Left out: `get_property` (see `TestSuite`), and NULL as the value of a
property (the code constructs a `std::string` from it).

### MqttPublisher

`phase` and `appPc` are the process and the application thread, `streamPc` the
streaming thread, which publishes the result of each buffer itself. `chain`
takes three steps after it has read the metadata and the topic (`ChainResult`):
the request is sent (`Activate`), `PublishToIoTMQTT` returns (`PublishReturns`),
and the topic is read once more for the print before the buffer is pushed
(`PrintAndPush`). The core handles a request when it likes, also after the call
has returned: `CoreAccepts` takes the message over, `CoreRefuses` answers with
an error. The ten seconds are not counted: `PublishReturns("FAILED")` is
possible at every moment of the wait, `PublishReturns("SUCCESSFUL")` only with a
positive answer. `Disconnect` gives what waits an error and is final, since only
the constructor connects. `set_property` frees the topic (`SetTopic`) and stores
the new one (`Strdup`), so that `chain` may come in between. The process ends if
the constructor cannot connect (`New`) or if `chain` looks for metadata of a
type no `lookoutvision` element has registered yet (`ChainUnregistered`,
`Register`). `accepted` holds the messages the core has taken over: what it does
with them afterwards (QoS 1 delivery to subscribers, which may duplicate) is
outside this code. `results`, `succeeded`, `failed`, `logged` and
`disturbed` (the frames during whose chain the topic was being set) are history,
read by no guard. Left out: `get_property`, NULL as the topic, and
a second element in the process.

### ResultMeta

A place is a thread of the pipeline in one element at a time; it holds at most
one buffer, and a buffer's reference count is the number of places that hold it.
`heap` is the memory of results, `metas[b]` the pointers in the metadata of a
buffer. `chain` allocates a result (`DetectAnomalies`), offers it to the buffer
(`AddMeta`, which GStreamer refuses if another place holds the buffer), and
deletes its own (`Delete`). `Transform` is an element that replaces its buffer by
a writable copy: GStreamer calls the transform function for each metadata, which
makes another copy of the result. `Unref` drops a reference, and with the last
one the metadata (`gst_lookout_vision_meta_free`). A reader gets one of the
results (`Read`; GStreamer chooses among several) and follows the pointer until
`ReadEnds`; `ReadUnregistered` is finding 6. Places and buffers are used again
and again, so a pipeline of any length is a sequence of these steps. `done` (the
results inferred for the frame) and `teed` are history. GStreamer's part (`New`,
`Tee`, `Queue`, reference counts, writability) is external. Left out: memory that
is exhausted (`new` throws); several tees of one frame at once and then only one
branch that annotates are covered, as `teed` stays set.

`AnnotatedBuffers` has no memory: `notes[b]` are the results a buffer carries,
`pending` what an element is about to attach, `reading` what one looks at. The
mapping reads them through `heap`, so a result that were shared, overwritten or
freed under a reader would show as a step that no abstract action takes.

### TestSuite

The tests are sequences of steps, one definition for each `TEST_F`, which
`Tests` puts in the order of the two programs; `test` and `line` are where the
gtest thread is. `Script` adds the fixture's `TearDown` and `StopServer`, and
`Assert` jumps there when an assertion fails. Beside the gtest thread run the
server's (`BuildAndStart`, `StoreServer`, `WaitReturns`) and the pipeline's
(`Chain`, `InferenceConsumerChain`, `EndOfStream`). `set_property` of the
element blocks the gtest thread in `StartModelReturns` and then once for each poll of
`DescribeModelReturns`, with the timeouts of the source; an RPC succeeds only if
the server listens at the element's address, and may also fail while the channel
backs off after a failure. `output` is what has been captured of the texts the
tests look for. `StopServer` meets `test_server` as the server thread has left
it: null, the running server, or the one shut down before (`"old"`). The C++
program reads and writes this pointer without synchronisation; the model takes
the accesses as atomic. A program that dies, or returns, may be followed by
either program, also one that `failed`; `shm`, whether the segment exists, is what
passes from one to the next. `FAIL()` at an ERROR message returns before
`gst_message_unref` (`elementtest.cc:84, 145, 369, 528`, `clienttest.cc:98`):
`PopMessage` then makes the message the `keeper` of the element, `TearDown` does
not finalize it, and nobody unlinks its segment. `early` and `slow` are history. Assumed: the tests do not run as root
(who may open a read-only segment for writing), nobody else listens on ports
50051 and 50052 or on the default socket, the plugins are found, and the two programs
do not run at the same time.

## 3. What TLC checks

| Run | Checks | States | Shows |
|---|---|---|---|
| `start_model` | `TypeOK`, `Overshoot`, `NoLongRunMissed`, `KeepsContract`, `Returns` | 41,011 | bounds of the wait, refinement of `StartModelContract`, and termination under `FairSpec` |
| `start_model_failed` | `FailedMeansNotRunning` | violated | finding 1 |
| `shared_frame` | `TypeOK`, `SoleResults`, `FaultsTakeBoth`, `LeakBounded` | 1,522,638 | two processes that make and destroy clients, crash and start again at will, with any `ftruncate` or `mmap` failing |
| `shared_frame_overlap` | `ResultIsForThisFrame` | violated | finding 2 |
| `shared_frame_shrink` | `NoBusError` | violated | finding 3 |
| `element` | `TypeOK`, `NoUseAfterFree`, `UnstartedIsReported`, `OnlyStartedModels`, `DimsFresh` | 194,386 | properties set in any order, stopped and while playing |
| `element_tee` | `PushedIsAnnotated` | violated | finding 4 |
| `element_caps` | `DimsMatch` | violated | finding 5 |
| `publisher` | `TypeOK`, `SuccessIsAccepted`, `OvertakenHadFailed`, `PrintedTopicIsUsed`, `LossIsReported`, `KeepsFeed`, `BuffersFlow` | 130,234 | late answers, refusals, a lost connection and a changing topic; refinement of `ResultFeed`; liveness under `FairSpec` |
| `publisher_no_metadata` | `NoMetadataNoHarm` | violated | finding 6 |
| `result_meta` | `TypeOK`, `SoleOwner`, `ReadsAreTrue`, `AnnotatedUnlessTeed`, `ActsByValue` | 23,872 | buffers with results copied, queued, teed and dropped while others read them; refinement of `AnnotatedBuffers` |
| `test_suite` | `TypeOK`, `AssertionsHold`, `DiesOnlyOfRaces`, `NothingLeft`, `ProgramsEnd` | 32,897 | every interleaving of the threads of both test programs, run again and again; liveness under `FairSpec` |

Conditions such as "while no two clients overlap" are antecedents over history
variables, not restrictions of the environment: one run reaches the states on
both sides of them. The states count symmetric ones once, where the
configuration declares symmetry.

**Bounds.** No run has a state constraint; the state spaces are finite because
the code's own limits bound them (`elapsed` by the timeout), with two bounds of
the models' own: `MaxFrames` in `MqttPublisher` and `MaxMade` in `SharedFrame`.

- `StartModel`: interval 2 and latency 1 stand for 5 s and the agent's latency.
  The timeouts 0, 1, 3 and 6 are none, less than an interval, and one between
  and on a multiple of the interval; 6 gives several rounds. A clock step of one second is
  enough to move a test of the timeout across its boundary.
- `SharedFrame`: two clients are what an interference needs; two objects are one
  for each of them, so that two clients can hold different ones while the name
  is bound to either or to none; of the two frames one fits
  the initial segment and one does not. `MaxMade = 2`: a process that has
  destroyed a client that leaked makes another that leaks again. Growing more
  than once, and any number of clients made, is left to the proof of `LeakBounded`.
- `LookoutVision`: two models and servers let a property be changed and changed
  back; two dimensions and caps without any cover every caps change; the
  timeouts are zero and not zero, which is all the element distinguishes.
- `MqttPublisher`: two frames are what an overtaking needs, and let the topic
  change between and during their publishes; a third adds no kind of
  interleaving, since the proofs of order and truth are for any number.
  `CHECK_DEADLOCK FALSE`: the process ends by finalization or a crash.
- `ResultMeta`: two threads let one read or annotate while the other copies or
  drops; three buffers are one for each and a copy; four results are two
  annotations of one buffer and their copies, or one in each buffer and one in
  `chain`; a third frame would only repeat. Every place may be every element, so no order
  of elements is left out. `CHECK_DEADLOCK FALSE`: a segmentation fault ends the
  process. The proofs are for any number of each.
- `TestSuite`: nothing is bounded; the tests, their order and timeouts are the
  source's. `SharedMemory = TRUE` is the build that has all the tests; the proofs
  are for both.
  `CHECK_DEADLOCK FALSE`: a `StopServer` that comes too early may wait for ever.

**Fairness.** `FairSpec` of `StartModel` assumes weak fairness of the
client's steps (a thread that is scheduled), of the agent's answers, and of the
passing of time. It excludes an agent that accepts an RPC and never answers: the
code sets no deadline, so such an agent does block the caller for ever.
Nothing is assumed of the model, which may flap or never start. `FairSpec` of
`MqttPublisher` assumes weak fairness of `Publishing`, the streaming thread's own steps
after it has begun to publish: it is scheduled, the library flushes what it
activates, and `wait_for` ends. Nothing is assumed of the core or the connection.
`FairSpec` of `TestSuite` assumes weak fairness of each of the three threads,
which the operating system schedules; that nobody need start a program again is
left open. A poll of `set_property` that fails counts against the timeout, so no
fairness of the server's answers is needed.

## 4. Findings

1. *A start that succeeded is reported as failed.* The loop sleeps, then tests
   the timeout, then polls (`client.cc:146-154`). A model that becomes RUNNING
   after the agent has answered the last poll, in TLC's trace two seconds before
   the timeout, is not seen, since no poll follows the last sleep; the client
   prints that it did not reach RUNNING within the timeout (`client.cc:135`).
   Every poll of the call was answered.
2. *Results of other frames.* With two clients of the shared memory build alive,
   in two pipelines or twice in one, the agent can read another client's
   frame; after one is destroyed and made again, the other's frames no longer
   reach the agent at all, since the name leads to the new segment.
3. *SIGBUS.* A client that starts while another has grown the segment shrinks it
   (`client.cc:40`), and the other is killed at its next large frame.
4. *Buffers without a result.* `chain` does not make the buffer writable
   (`element.cc:236`): behind a `tee`, buffers are pushed without metadata.
5. *Frozen dimensions.* After caps without width or height the probe is gone
   (`element.cc:107-110`), and later caps are ignored.
6. *A buffer without metadata ends the process.*
   `gst_buffer_get_lookout_vision_meta` (`meta.cc:75`) dereferences the metadata
   type before any is registered, where `chain` expects NULL (`publisher.cc:172-176`).

Observed beside these, and no disagreement with a text of the repository:

- `chain` of the publisher prints "Published to MQTT topic" (`publisher.cc:170-171`)
  whatever `PublishToIoTMQTT` returned. `LossIsReported` shows that the return
  value, which it drops, would tell of every loss.
- A client that has grown its segment leaves the mappings it replaced to the
  process (`client.cc:49, 107`). Pipelines made, fed large frames and destroyed
  again, all in one process, therefore leak without bound; `LeakBounded` says how
  much at most: one mapping for each larger size and client made.
- `FAIL()` at an ERROR message leaks the message, and with it the element and its
  shared memory segment. A test that looks for a segment of another mode, as
  `shm_open_error_test` does (`clienttest.cc:112`), may then find this one; by
  then an assertion has failed anyway. `NothingLeft` counts this case in.
- A test that stops its server before the server thread has stored
  `test_server` (`TestServer.cc:79, 90`) ends the program with a null pointer, or,
  with a `TestServer` that was started before, waits for ever: `DiesOnlyOfRaces` and
  `ProgramsEnd` need `early` for that, and fail without it.
- A server that is not reached within a test's timeout makes an assertion fail;
  in `pipeline_run_with_server_test` `g_str_equal` is called with the NULL of
  `model_component` (`elementtest.cc:133`), and elsewhere the capture that stays open
  ends the program in the next test that captures.
- `main` of the test programs returns 0 whatever the tests found.

## 5. What is proved

TLAPS proves the following for every value of the constants that the modules'
assumptions allow. An assumption of a theorem of its own is part of its statement.

**StartModel** (`StartModelAssumption`: the interval and the latency are
positive). `TypeCorrect`; `OvershootBounded`; `LongRunsNoticed`;
`ImplementsContract`, the refinement of `StartModelContract`. None of the
properties is inductive, since each speaks of a whole call. `IInv` adds, for
each blocking call, what can have gone by before it began, with `waited` for
what it has used of its own allowance: `TimeInv` (a poll begins only before the
timeout is over), `WindowInv` (in `DescribeModel` with another reply than
RUNNING, the model was seen not running less than one latency ago) and `RunInv`
(a RUNNING status that is seen, or that a poll can return, is recorded in `firstRun`).

**SharedFrame** (`SharedFrameAssumption`: sizes are positive, the marks are
distinct). `TypeCorrect`; `SoleClientReadsItsFrame`, which is `SoleResults`, and
`FaultsNeedOverlapAndGrowth`, which is `FaultsTakeBoth`, for any number of
clients, frames and objects; `LeakIsBounded` if the large sizes are finitely
many. Two invariants carry them. `UngrownInv`: until a client grows, every
segment has the default size, which the frames being written fit. `SoleInv`:
until two clients have been alive at once, the name is bound to the object of
the client alive, and the frame is in it from the copy to the end of the call.
Both contain `IsWhole`: for a client none of whose calls failed, `shm_size` is
the object's size and `shm_data` a mapping. `LeakInv`: beside what
the clients destroyed before may have left, each mapping that nothing refers to
belongs to a size `shm_size` has reached. Together with findings 2 and 3 they
draw the line: a fault takes overlap and growth or a failed call of the same
client, a wrong answer overlap alone.

**LookoutVision** (`LookoutVisionAssumption`). `TypeCorrect`,
`UnstartedModelsAreReported`, `InferredModelsWereStarted` and
`DimensionsAreFresh` hold with or without live updates. `StartInv` says what the
outcome of the `StartModel` in progress will be about: a `StartModel` for a
socket is for the model in use, and a stored model was started on the stub in
use. `OnlyOverlapsAreUnsafe` is `NoUseAfterFree`, with properties set at any
moment. It rests on `TypeOK` (`model_component` dangles only between `g_free` and
`g_strdup`, where `chain` begins `disturbed`) and on `StreamInv` (`chain` holds
no pointer of an earlier buffer, and no stub before the call).

**MqttPublisher** (`MqttPublisherAssumption`), for any number of frames, topics
and verdicts. `TypeCorrect`; `SuccessesAreAccepted`; `LateMessagesHadFailed`;
`ImplementsFeed`, the refinement of `ResultFeed`: what the core takes over. The
code asks for `QOS_AT_LEAST_ONCE` (`greengrass.cc:37`), so from the core on a
message may be repeated, which is not this program's.
`FrameInv` says where a message can be (each request belongs to a frame that
reached `chain` and carries that frame's verdict, and no frame's message is both
pending and accepted, or accepted twice), and `CallInv` what the present call
knows (a positive answer means that its message has been accepted; a message
still pending, other than that of the present call, had its call reported FAILED).

`PrintedTopicsAreUsed` rests on `TopicInv` (the messages of a frame all have one
topic, which is the one `chain` will print unless the topic is being set or was
set during that frame's chain),
`LossesAreReported` on `LossInv` (a result whose call has ended is in `succeeded`
or `failed`) together with `SuccessIsAccepted`.

**ResultMeta** (`ResultMetaAssumption`: the marks are distinct), for any number
of threads, buffers, frames and results, heaps without bound included.
`TypeCorrect`; `ResultsHaveOneOwner`, whose invariant `Owned` splits `SoleOwner`
into parts (every pointer is to allocated memory, no two owners have the same
result, none is without one) and adds `ReadsHeld`: a reader's pointer is to
metadata of the buffer it holds. `ReadersSeeTrueResults` and
`UnteedFramesAreAnnotated` rest on `Truth`: the results a buffer carries were
inferred for its frame, all of them are there if the frame was never in two
branches, and a frame held in two places was. `ImplementsValues` is the
refinement of `AnnotatedBuffers`, by one step for each action, where sole
ownership is what keeps a deletion from being seen elsewhere.

**TestSuite** (`TestSuiteAssumption`: `SharedMemory` is TRUE or FALSE), for both
builds. `TypesHold`, `AssertionsAlwaysHold`, `DeathsAreRaces` and `NothingIsLeft`
are its four invariants. The system is finite, and TLC explores the larger build; what the
proofs add is the smaller build and the reason: an argument about each kind of
step instead of an enumeration. It has three parts.

- `TestOutline_proof` is a proof outline of the tests. A row `Knows(...)` says
  what is known before a step while no server was late: the capture and texts
  that are in it, the server and its address, the element and its properties,
  and what is on the bus. `Follows` is the rule of each kind of step, which says
  what row before it and what row after it are allowed; `TestsFit` shows that the
  outlines of all tests keep to the rules. The proofs below never look at a
  particular test, only at the rules: a new test needs an outline and a lemma
  that it fits. The exception is the shared memory, whose segment is traced to
  the tests of the client by name.
- `TestFixture_proof` has what is invariant even after a server was late.
  `LineInv`: the gtest thread is in a test or its fixture, and waits for a
  `StartModel` only in `set_property`. `ServerInv`: `test_server` says where the
  server's thread is. `FixtureInv`: what `TearDown` and `StopServer` have undone,
  whether or not an assertion failed before. `PlaceInv`: the element is where
  the outline says, since no answer of a server changes that. `ShmInv`: a segment
  belongs to the client of the element under test, to a program that died, to
  the client that `grpc_calls_throw_exception_test` never deletes, or to an
  element that a message keeps (`KeptInv`: which takes a failed test). With
  `RecordInv` and `TypeOK` they make `BaseInv`.
- `TestSuite_proof` adds `OutlineInv`: until a server is late, what the row
  claims is the case. It has a part for a `StartModel` in progress
  (`CallHolds`: once nobody answers at the address, the error texts are in the
  capture before the timeout is over) and one for a frame under way
  (`StreamHolds`: what `chain` and the consumer have printed so far). None of the
  four invariants is inductive without it: that an assertion holds depends on
  what was printed several steps, and another thread, earlier. Once a server was
  late the outline claims nothing, which is why `AssertionsHold` speaks of `slow`.

**Only model-checked**: `Returns`, `BuffersFlow` and `ProgramsEnd`, since liveness
under fairness is beyond this prover. Every invariant that a passing run checks
is stated by a theorem. The violated properties, of course, are not provable.

## 6. Not modelled, and what could follow

1. `Pipeline`: source, element and publisher composed over a queue of buffers.
   `ResultMeta` has the sharing of buffers and results, `MqttPublisher` the
   publishing; what the composition would add is the order of buffers, which
   GStreamer keeps.
2. `LookoutVision` with `StartModelContract` composed in, so that what the
   element assumes of `StartModel` is what the client was shown to guarantee.
3. `ProgramsEnd` without the shared memory build: the invariants are proved for
   it, and its programs are a part of those that the run checks for their end.

Hazards without a property, each with its reason in `PROJECT.json`: an RPC
without a deadline and an `activate.wait()` without a limit (a property would
restate what is assumed of the other side), the layout of rows, the text of an
error message, an operation error without a message, connections that are
never closed, and the line that says a failed publish was published.

Not modelled: image data and its layout, message texts, plugin
registration, the boilerplate of `inferenceconsumer`, the sequential test of the
metadata functions (`gstlookoutvisionmetatest.cc`), the gRPC and GStreamer
libraries beyond what the code's calls rely on, build files and recipes.
