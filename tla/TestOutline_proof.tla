------------------------- MODULE TestOutline_proof --------------------------
(***************************************************************************)
(* A proof outline of the tests of TestSuite: for each test, what is known *)
(* before each of its steps, and after the last, as long as no server was  *)
(* late.  Follows is the rule of each step, which links one row to the     *)
(* next, and TestsFit says that every outline keeps to the rules.  That    *)
(* what the outlines claim is the case is the invariant of TestSuite_proof.*)
(***************************************************************************)
EXTENDS TestSuite, TLAPS

(* One row: whether stdout is captured, and texts that are certainly in    *)
(* the capture; where the element is, and whether an inferenceconsumer     *)
(* follows it; the server, up with a status, "down" (not yet joined) or    *)
(* "none", and its address; the properties; whether model_component is     *)
(* NULL, or "reached" on the server in use, or "stale"; and whether the    *)
(* bus has "no" message but the end of the stream, an "ERROR" first, or    *)
(* had its first one "popped".                                             *)
Knows(on, seen, pipe, next, srv, addr, sock, timeout, model, msg) ==
    [capture |-> on, seen |-> seen, pipe |-> pipe, next |-> next,
     srv |-> srv, addr |-> addr, sock |-> sock, timeout |-> timeout, model |-> model,
     msg |-> msg]

Fresh == Knows("off", {}, "none", "sink", "none", Default, Default, 180, "NULL", "no")
Capturing == Knows("on", {}, "none", "sink", "none", Default, Default, 180, "NULL", "no")
Consumed == {"Is Anomalous?", "Detect Anomaly Result - Is Anomalous?", "Confidence:"}

plugin_init_outline ==
    <<Fresh, Knows("off", {}, "bare", "sink", "none", Default, Default, 180, "NULL", "no"),
      Fresh>>

element_linking_outline ==
    <<Fresh, Knows("off", {}, "NULL", "sink", "none", Default, Default, 180, "NULL", "no")>>

pipeline_run_without_server_outline ==
    <<Fresh, Capturing, Knows("on", {}, "NULL", "sink", "none", Default, Default, 180, "NULL", "no"),
      Knows("on", {}, "PLAYING", "sink", "none", Default, Default, 180, "NULL", "no"),
      Knows("on", CallFailed, "PLAYING", "sink", "none", Default, Default, 180, "NULL", "popped"),
      Knows("off", {}, "PLAYING", "sink", "none", Default, Default, 180, "NULL", "popped")>>

pipeline_run_with_server_outline ==
    <<Fresh, Capturing, Knows("on", {}, "none", "sink", "RUNNING", 50051, Default, 180, "NULL", "no"),
      Knows("on", {}, "NULL", "sink", "RUNNING", 50051, Default, 180, "NULL", "no"),
      Knows("on", {}, "NULL", "sink", "RUNNING", 50051, 50051, 180, "NULL", "no"),
      Knows("on", {}, "NULL", "sink", "RUNNING", 50051, 50051, 180, "reached", "no"),
      Knows("on", {}, "NULL", "sink", "RUNNING", 50051, 50051, 180, "reached", "no"),
      Knows("on", {}, "NULL", "sink", "RUNNING", 50051, 50051, 180, "reached", "no"),
      Knows("on", {}, "PLAYING", "sink", "RUNNING", 50051, 50051, 180, "reached", "no"),
      Knows("on", Anomaly, "PLAYING", "sink", "RUNNING", 50051, 50051, 180, "reached", "popped"),
      Knows("off", {}, "PLAYING", "sink", "RUNNING", 50051, 50051, 180, "reached", "popped")>>

pipeline_invalid_input_type_outline ==
    <<Fresh, Knows("off", {}, "NULL", "sink", "none", Default, Default, 180, "NULL", "no")>>

pipeline_run_without_server_start_model_error_outline ==
    <<Fresh, Capturing, Knows("on", {}, "NULL", "sink", "none", Default, Default, 180, "NULL", "no"),
      Knows("on", {}, "NULL", "sink", "none", Default, 50051, 180, "NULL", "no"),
      Knows("on", {}, "NULL", "sink", "none", Default, 50051, 3, "NULL", "no"),
      Knows("on", Unavailable, "NULL", "sink", "none", Default, 50051, 3, "NULL", "ERROR"),
      Knows("on", Unavailable, "PLAYING", "sink", "none", Default, 50051, 3, "NULL", "ERROR"),
      Knows("on", Unavailable, "PLAYING", "sink", "none", Default, 50051, 3, "NULL", "popped"),
      Knows("off", {}, "PLAYING", "sink", "none", Default, 50051, 3, "NULL", "popped")>>

pipeline_run_with_server_start_model_failed_outline ==
    <<Fresh, Capturing, Knows("on", {}, "none", "sink", "FAILED", 50051, Default, 180, "NULL", "no"),
      Knows("on", {}, "NULL", "sink", "FAILED", 50051, Default, 180, "NULL", "no"),
      Knows("on", {}, "NULL", "sink", "FAILED", 50051, 50051, 180, "NULL", "no"),
      Knows("on", {}, "NULL", "sink", "FAILED", 50051, 50051, 10, "NULL", "no"),
      Knows("on", NotReached, "NULL", "sink", "FAILED", 50051, 50051, 10, "NULL", "ERROR"),
      Knows("on", NotReached, "PLAYING", "sink", "FAILED", 50051, 50051, 10, "NULL", "ERROR"),
      Knows("on", NotReached, "PLAYING", "sink", "FAILED", 50051, 50051, 10, "NULL", "popped"),
      Knows("off", {}, "PLAYING", "sink", "FAILED", 50051, 50051, 10, "NULL", "popped")>>

pipeline_run_with_server_start_model_timeout_outline ==
    <<Fresh, Capturing, Knows("on", {}, "none", "sink", "RUNNING", 50051, Default, 180, "NULL", "no"),
      Knows("on", {}, "NULL", "sink", "RUNNING", 50051, Default, 180, "NULL", "no"),
      Knows("on", {}, "NULL", "sink", "RUNNING", 50051, 50051, 180, "NULL", "no"),
      Knows("on", {}, "NULL", "sink", "RUNNING", 50051, 50051, 0, "NULL", "no"),
      Knows("on", NotReached, "NULL", "sink", "RUNNING", 50051, 50051, 0, "NULL", "ERROR"),
      Knows("on", NotReached, "PLAYING", "sink", "RUNNING", 50051, 50051, 0, "NULL", "ERROR"),
      Knows("on", NotReached, "PLAYING", "sink", "RUNNING", 50051, 50051, 0, "NULL", "popped"),
      Knows("off", {}, "PLAYING", "sink", "RUNNING", 50051, 50051, 0, "NULL", "popped")>>

pipeline_update_server_start_model_outline ==
    <<Fresh, Capturing, Knows("on", {}, "none", "sink", "RUNNING", 50051, Default, 180, "NULL", "no"),
      Knows("on", {}, "NULL", "sink", "RUNNING", 50051, Default, 180, "NULL", "no"),
      Knows("on", {}, "NULL", "sink", "RUNNING", 50051, 50051, 180, "NULL", "no"),
      Knows("on", {}, "NULL", "sink", "RUNNING", 50051, 50051, 180, "reached", "no"),
      Knows("on", {}, "NULL", "sink", "down", 50051, 50051, 180, "stale", "no"),
      Knows("on", {}, "NULL", "sink", "none", 50051, 50051, 180, "stale", "no"),
      Knows("on", {}, "NULL", "sink", "RUNNING", 50052, 50051, 180, "stale", "no"),
      Knows("on", {}, "NULL", "sink", "RUNNING", 50052, 50052, 180, "reached", "no"),
      Knows("on", {}, "PLAYING", "sink", "RUNNING", 50052, 50052, 180, "reached", "no"),
      Knows("on", Anomaly, "PLAYING", "sink", "RUNNING", 50052, 50052, 180, "reached", "popped"),
      Knows("off", {}, "PLAYING", "sink", "RUNNING", 50052, 50052, 180, "reached", "popped")>>

pipeline_update_server_start_model_error_outline ==
    <<Fresh, Capturing, Knows("on", {}, "none", "sink", "RUNNING", 50051, Default, 180, "NULL", "no"),
      Knows("on", {}, "NULL", "sink", "RUNNING", 50051, Default, 180, "NULL", "no"),
      Knows("on", {}, "NULL", "sink", "RUNNING", 50051, 50051, 180, "NULL", "no"),
      Knows("on", {}, "NULL", "sink", "RUNNING", 50051, 50051, 180, "reached", "no"),
      Knows("on", {}, "NULL", "sink", "RUNNING", 50051, 50051, 5, "reached", "no"),
      Knows("on", Unavailable, "NULL", "sink", "RUNNING", 50051, 50052, 5, "stale", "ERROR"),
      Knows("on", Unavailable, "PLAYING", "sink", "RUNNING", 50051, 50052, 5, "stale", "ERROR"),
      Knows("on", Unavailable, "PLAYING", "sink", "RUNNING", 50051, 50052, 5, "stale", "popped"),
      Knows("off", {}, "PLAYING", "sink", "RUNNING", 50051, 50052, 5, "stale", "popped")>>

in_caps_outline ==
    <<Fresh, Capturing, Knows("on", {}, "bare", "sink", "none", Default, Default, 180, "NULL", "no"),
      Knows("on", NoDimensions, "bare", "sink", "none", Default, Default, 180, "NULL", "no"),
      Knows("off", {}, "bare", "sink", "none", Default, Default, 180, "NULL", "no"),
      Fresh>>

pipeline_read_inference_meta_outline ==
    <<Fresh, Capturing, Knows("on", {}, "none", "sink", "RUNNING", 50051, Default, 180, "NULL", "no"),
      Knows("on", {}, "NULL", "consumer", "RUNNING", 50051, Default, 180, "NULL", "no"),
      Knows("on", {}, "NULL", "consumer", "RUNNING", 50051, 50051, 180, "NULL", "no"),
      Knows("on", {}, "NULL", "consumer", "RUNNING", 50051, 50051, 180, "reached", "no"),
      Knows("on", {}, "PLAYING", "consumer", "RUNNING", 50051, 50051, 180, "reached", "no"),
      Knows("on", Consumed, "PLAYING", "consumer", "RUNNING", 50051, 50051, 180, "reached", "popped"),
      Knows("off", {}, "PLAYING", "consumer", "RUNNING", 50051, 50051, 180, "reached", "popped")>>

grpc_calls_throw_exception_outline ==
    <<Fresh, Fresh>>

inference_on_large_size_frame_with_shared_memory_outline ==
    <<Fresh, Capturing, Knows("on", {}, "none", "sink", "RUNNING", 50051, Default, 180, "NULL", "no"),
      Knows("on", {}, "NULL", "sink", "RUNNING", 50051, Default, 180, "NULL", "no"),
      Knows("on", {}, "NULL", "sink", "RUNNING", 50051, 50051, 180, "NULL", "no"),
      Knows("on", {}, "NULL", "sink", "RUNNING", 50051, 50051, 180, "reached", "no"),
      Knows("on", {}, "NULL", "sink", "RUNNING", 50051, 50051, 180, "reached", "no"),
      Knows("on", {}, "PLAYING", "sink", "RUNNING", 50051, 50051, 180, "reached", "no"),
      Knows("on", Anomaly, "PLAYING", "sink", "RUNNING", 50051, 50051, 180, "reached", "popped"),
      Knows("off", {}, "PLAYING", "sink", "RUNNING", 50051, 50051, 180, "reached", "popped")>>

shm_open_error_outline ==
    <<Fresh, Fresh>>

Outlines == [
    gstlookoutvisiontest |-> <<
        plugin_init_outline, element_linking_outline, pipeline_run_without_server_outline,
        pipeline_run_with_server_outline, pipeline_invalid_input_type_outline,
        pipeline_run_without_server_start_model_error_outline,
        pipeline_run_with_server_start_model_failed_outline,
        pipeline_run_with_server_start_model_timeout_outline,
        pipeline_update_server_start_model_outline,
        pipeline_update_server_start_model_error_outline,
        in_caps_outline, in_caps_outline, in_caps_outline,
        pipeline_read_inference_meta_outline>>,
    LookoutVisionInferenceClientTest |-> <<
        grpc_calls_throw_exception_outline,
        inference_on_large_size_frame_with_shared_memory_outline, shm_open_error_outline>>]

-----------------------------------------------------------------------------
(* The rules of the steps: what must be known before one (k), and what is  *)
(* known after it (m).                                                     *)

(* What a step does not name, it leaves alone. *)
Keeps(k, m, changed) ==
    /\ "capture" \in changed \/ m.capture = k.capture
    /\ "capture" \in changed \/ "seen" \in changed \/ m.seen = k.seen
    /\ "pipe" \in changed \/ m.pipe = k.pipe
    /\ "element" \in changed \/ m.next = k.next
    /\ "server" \in changed \/ m.srv = k.srv
    /\ "server" \in changed \/ m.addr = k.addr
    /\ "element" \in changed \/ "sock" \in changed \/ m.sock = k.sock
    /\ "element" \in changed \/ "timeout" \in changed \/ m.timeout = k.timeout
    /\ "element" \in changed \/ "model" \in changed \/ m.model = k.model
    /\ "msg" \in changed \/ m.msg = k.msg

AfterCaptureStdout(k, m) ==
    /\ k.capture = "off" /\ k.pipe = "none"
    /\ m.capture = "on" /\ m.seen = {} /\ Keeps(k, m, {"capture"})

AfterPrinted(k, texts, m) ==
    /\ k.capture = "on" /\ texts \subseteq k.seen
    /\ m.capture = "off" /\ m.seen = {} /\ Keeps(k, m, {"capture"})

AfterRunServer(k, address, status, m) ==
    /\ k.srv = "none" /\ k.pipe # "PLAYING" /\ k.model # "reached"
    /\ status \in {"RUNNING", "FAILED"} /\ address \in {50051, 50052}
    /\ m.srv = status /\ m.addr = address /\ Keeps(k, m, {"server"})

AfterShutdown(k, m) ==
    /\ k.pipe # "PLAYING"
    /\ m.srv = "down" /\ m.model # "reached"
    /\ m.model = "NULL" <=> k.model = "NULL"
    /\ Keeps(k, m, {"server", "model"})

AfterJoin(k, m) ==
    /\ k.srv = "down" /\ m.srv = "none" /\ k.model # "reached"
    /\ Keeps(k, m, {"server"})

AfterMake(k, next, pipe, m) ==
    /\ k.pipe = "none" /\ m.pipe = pipe /\ (pipe = "bare" => k.seen = {})
    /\ m.next = next /\ m.sock = Default /\ m.timeout = 180 /\ m.model = "NULL"
    /\ Keeps(k, m, {"pipe", "element"})

AfterUnref(k, m) ==
    /\ k.pipe = "bare" /\ m.pipe = "none" /\ Keeps(k, m, {"pipe"})

(* StartModel, called for the server at sock: it reaches the model, or     *)
(* puts an error on the bus after the prints of the calls that failed.     *)
Nobody(k, sock) == k.srv = "none" \/ k.addr # sock
Reaches(k, sock) == k.srv = "RUNNING" /\ k.addr = sock /\ k.timeout > 0
FailurePrints(k, sock) ==
    NotReached
    \cup (IF Nobody(k, sock) THEN {"StartModel returned error 14"} ELSE {})
    \cup (IF Nobody(k, sock) /\ k.timeout > 0 THEN {"DescribeModel failed with error 14"}
          ELSE {})

AfterStartModel(k, sock, m) ==
    /\ k.capture = "on" /\ k.pipe = "NULL" /\ k.srv # "down" /\ k.msg # "popped"
    /\ m.sock = sock /\ Keeps(k, m, {"seen", "sock", "model", "msg"})
    /\ \/ /\ Reaches(k, sock)
          /\ m.model = "reached" /\ m.seen = k.seen /\ m.msg = k.msg
       \/ /\ ~Reaches(k, sock)
          /\ m.model # "reached" /\ (m.model = "NULL" <=> k.model = "NULL")
          /\ m.seen \subseteq k.seen \cup FailurePrints(k, sock) /\ m.msg = "ERROR"

AfterServerSocket(k, sock, m) ==
    /\ sock \in {50051, 50052}
    /\ \/ /\ k.model = "NULL" /\ k.pipe = "NULL"
          /\ m.sock = sock /\ Keeps(k, m, {"sock"})
       \/ k.model # "NULL" /\ AfterStartModel(k, sock, m)

AfterTimeout(k, timeout, m) ==
    /\ k.pipe = "NULL" /\ timeout \in 0..600
    /\ m.timeout = timeout /\ Keeps(k, m, {"timeout"})

AfterGet(k, sock, model, timeout, m) ==
    /\ k.pipe = "NULL" /\ k.model # "NULL"
    /\ sock = k.sock /\ model = "SampleModel" /\ timeout = k.timeout
    /\ Keeps(k, m, {})

AfterCaps(k, dims, m) ==
    /\ k.pipe = "bare" /\ k.capture = "on"
    /\ m.seen \subseteq k.seen
          \cup (IF {"width", "height"} \subseteq dims THEN {} ELSE NoDimensions)
    /\ Keeps(k, m, {"seen"})

AfterPlay(k, m) ==
    /\ k.pipe = "NULL" /\ m.pipe = "PLAYING" /\ Keeps(k, m, {"pipe"})

(* What the frame makes the elements print. *)
ChainPrints(k) ==
    IF k.model = "NULL" THEN CallFailed
    ELSE IF k.model = "reached" THEN Anomaly ELSE {}
ConsumerPrints(k) ==
    IF k.next = "consumer" /\ k.model = "reached"
    THEN Received ELSE {}

AfterPop(k, expected, m) ==
    /\ k.pipe = "PLAYING" /\ k.capture = "on"
    /\ m.msg = "popped" /\ Keeps(k, m, {"seen", "msg"})
    /\ \/ /\ expected = "EOS" /\ k.msg = "no"
          /\ m.seen \subseteq k.seen \cup ChainPrints(k) \cup ConsumerPrints(k)
       \/ expected = "ERROR" /\ k.msg = "ERROR" /\ m.seen = k.seen

(* CallsThrow and ShmOpenFails are about the segment only, see ShmInv.     *)
AfterClientAlone(k, m) == k.pipe = "none" /\ Keeps(k, m, {})

Follows(k, step, m) ==
    \/ step.op = "CaptureStdout" /\ AfterCaptureStdout(k, m)
    \/ step.op = "Printed" /\ AfterPrinted(k, step.texts, m)
    \/ step.op = "RunServerInBackground" /\ AfterRunServer(k, step.address, step.status, m)
    \/ step.op = "Shutdown" /\ AfterShutdown(k, m)
    \/ step.op = "join" /\ AfterJoin(k, m)
    \/ step.op = "Make" /\ AfterMake(k, "sink", "bare", m)
    \/ /\ step.op = "Link" /\ (step.format \in {"any", "RGB"} <=> step.expected = "linked")
       /\ step.next \in {"sink", "consumer"} /\ AfterMake(k, step.next, "NULL", m)
    \/ step.op = "Unref" /\ AfterUnref(k, m)
    \/ /\ step.op = "Set" /\ step.property = "server-socket"
       /\ AfterServerSocket(k, step.value, m)
    \/ /\ step.op = "Set" /\ step.property = "model-component"
       /\ AfterStartModel(k, k.sock, m)
    \/ /\ step.op = "Set" /\ step.property = "model-status-timeout"
       /\ AfterTimeout(k, step.value, m)
    \/ step.op = "Get" /\ AfterGet(k, step.server_socket, step.model_component, step.timeout, m)
    \/ step.op = "Caps" /\ AfterCaps(k, step.dims, m)
    \/ step.op = "Play" /\ AfterPlay(k, m)
    \/ step.op = "Pop" /\ AfterPop(k, step.expected, m)
    \/ step.op \in {"MockThrows", "ShmReadOnly"} /\ AfterClientAlone(k, m)

(* The outline o fits the test; after the last step nothing is captured    *)
(* and the element is gone or in a pipeline, which TearDown takes down.    *)
Fits(body, o) ==
    /\ Len(body) \in 1..12 /\ Len(o) = Len(body) + 1
    /\ o[1] = Fresh
    /\ \A l \in 1..Len(body) : Follows(o[l], body[l], o[l + 1])
    /\ o[Len(o)].capture = "off" /\ o[Len(o)].pipe # "bare"

(* A test is a sequence. *)
IsSteps(body) == \E S : body \in Seq(S)

(* ... in most of which the client is not tested alone. *)
ClientAlone == {"MockThrows", "ShmReadOnly"}
WithElement(body) == \A l \in 1..Len(body) : body[l].op \notin ClientAlone

-----------------------------------------------------------------------------
(* The rules on the rows of the outlines. *)

(* Stdout is captured from the start of a test on. *)
LEMMA CaptureRule == Follows(Fresh, CaptureStdout, Capturing)
<1>1. AfterCaptureStdout(Fresh, Capturing)
  BY DEF AfterCaptureStdout, Keeps, Knows, Fresh, Capturing
<1> QED
  BY <1>1 DEF Follows, CaptureStdout

(* The test finds texts that are certainly in the capture. *)
LEMMA PrintedRule ==
    ASSUME NEW s, NEW t, t \subseteq s, NEW p, NEW n, NEW v, NEW a, NEW so, NEW ti, NEW mo, NEW g
    PROVE  Follows(Knows("on", s, p, n, v, a, so, ti, mo, g), Printed(t),
                   Knows("off", {}, p, n, v, a, so, ti, mo, g))
<1>1. AfterPrinted(Knows("on", s, p, n, v, a, so, ti, mo, g), t,
                   Knows("off", {}, p, n, v, a, so, ti, mo, g))
  BY DEF AfterPrinted, Keeps, Knows
<1> QED
  BY <1>1 DEF Follows, Printed

(* A server is started where there is none. *)
LEMMA RunServerRule ==
    ASSUME NEW c, NEW s, NEW p, p # "PLAYING", NEW n, NEW a0, NEW so, NEW ti,
           NEW mo, mo # "reached", NEW g,
           NEW a \in {50051, 50052}, NEW st \in {"RUNNING", "FAILED"}
    PROVE  Follows(Knows(c, s, p, n, "none", a0, so, ti, mo, g), RunServer(a, st),
                   Knows(c, s, p, n, st, a, so, ti, mo, g))
<1>1. AfterRunServer(Knows(c, s, p, n, "none", a0, so, ti, mo, g), a, st,
                     Knows(c, s, p, n, st, a, so, ti, mo, g))
  BY DEF AfterRunServer, Keeps, Knows
<1> QED
  BY <1>1 DEF Follows, RunServer

(* A model reached on the server that is shut down is stale. *)
LEMMA ShutdownRule ==
    ASSUME NEW c, NEW s, NEW n, NEW v, NEW a, NEW so, NEW ti, NEW g
    PROVE  Follows(Knows(c, s, "NULL", n, v, a, so, ti, "reached", g), CallShutdown,
                   Knows(c, s, "NULL", n, "down", a, so, ti, "stale", g))
<1>1. AfterShutdown(Knows(c, s, "NULL", n, v, a, so, ti, "reached", g),
                    Knows(c, s, "NULL", n, "down", a, so, ti, "stale", g))
  BY DEF AfterShutdown, Keeps, Knows
<1> QED
  BY <1>1 DEF Follows, CallShutdown

(* After the join there is no server. *)
LEMMA JoinRule ==
    ASSUME NEW c, NEW s, NEW p, NEW n, NEW a, NEW so, NEW ti, NEW mo, mo # "reached", NEW g
    PROVE  Follows(Knows(c, s, p, n, "down", a, so, ti, mo, g), CallJoin,
                   Knows(c, s, p, n, "none", a, so, ti, mo, g))
<1>1. AfterJoin(Knows(c, s, p, n, "down", a, so, ti, mo, g),
                Knows(c, s, p, n, "none", a, so, ti, mo, g))
  BY DEF AfterJoin, Keeps, Knows
<1> QED
  BY <1>1 DEF Follows, CallJoin

(* A bare element has the default properties. *)
LEMMA MakeRule ==
    ASSUME NEW c, NEW n, NEW v, NEW a, NEW so, NEW ti, NEW mo, NEW g
    PROVE  Follows(Knows(c, {}, "none", n, v, a, so, ti, mo, g), Make,
                   Knows(c, {}, "bare", "sink", v, a, Default, 180, "NULL", g))
<1>1. AfterMake(Knows(c, {}, "none", n, v, a, so, ti, mo, g), "sink", "bare",
                Knows(c, {}, "bare", "sink", v, a, Default, 180, "NULL", g))
  BY DEF AfterMake, Keeps, Knows
<1> QED
  BY <1>1 DEF Follows, Make

(* A new pipeline has an element with the default properties. *)
LEMMA LinkRule ==
    ASSUME NEW c, NEW s, NEW n, NEW v, NEW a, NEW so, NEW ti, NEW mo, NEW g,
           NEW f, NEW e, f \in {"any", "RGB"} <=> e = "linked", NEW x \in {"sink", "consumer"}
    PROVE  Follows(Knows(c, s, "none", n, v, a, so, ti, mo, g), Link(f, x, e),
                   Knows(c, s, "NULL", x, v, a, Default, 180, "NULL", g))
<1>1. AfterMake(Knows(c, s, "none", n, v, a, so, ti, mo, g), x, "NULL",
                Knows(c, s, "NULL", x, v, a, Default, 180, "NULL", g))
  BY DEF AfterMake, Keeps, Knows
<1> QED
  BY <1>1 DEF Follows, Link

(* A bare element is gone after the unref. *)
LEMMA UnrefRule ==
    ASSUME NEW c, NEW s, NEW n, NEW v, NEW a, NEW so, NEW ti, NEW mo, NEW g
    PROVE  Follows(Knows(c, s, "bare", n, v, a, so, ti, mo, g), Unref,
                   Knows(c, s, "none", n, v, a, so, ti, mo, g))
<1>1. AfterUnref(Knows(c, s, "bare", n, v, a, so, ti, mo, g),
                 Knows(c, s, "none", n, v, a, so, ti, mo, g))
  BY DEF AfterUnref, Keeps, Knows
<1> QED
  BY <1>1 DEF Follows, Unref

(* Without a model, server-socket is only stored. *)
LEMMA ServerSocketRule ==
    ASSUME NEW c, NEW s, NEW n, NEW v, NEW a, NEW so, NEW ti, NEW g,
           NEW w \in {50051, 50052}
    PROVE  Follows(Knows(c, s, "NULL", n, v, a, so, ti, "NULL", g), Set("server-socket", w),
                   Knows(c, s, "NULL", n, v, a, w, ti, "NULL", g))
<1>1. AfterServerSocket(Knows(c, s, "NULL", n, v, a, so, ti, "NULL", g), w,
                        Knows(c, s, "NULL", n, v, a, w, ti, "NULL", g))
  BY DEF AfterServerSocket, Keeps, Knows
<1> QED
  BY <1>1 DEF Follows, Set

(* StartModel reaches the model on a server that answers RUNNING. *)
LEMMA ReachedRules ==
    ASSUME NEW s, NEW n, NEW so, NEW w \in {50051, 50052}, NEW ti, ti > 0, NEW mo,
           NEW g, g # "popped",
           NEW m, m = Knows("on", s, "NULL", n, "RUNNING", w, w, ti, "reached", g)
    PROVE  /\ Follows(Knows("on", s, "NULL", n, "RUNNING", w, w, ti, mo, g),
                      Set("model-component", "SampleModel"), m)
           /\ Follows(Knows("on", s, "NULL", n, "RUNNING", w, so, ti, "stale", g),
                      Set("server-socket", w), m)
<1>1. AfterStartModel(Knows("on", s, "NULL", n, "RUNNING", w, w, ti, mo, g), w, m)
  BY DEF AfterStartModel, Keeps, Knows, Reaches
<1>2. Knows("on", s, "NULL", n, "RUNNING", w, w, ti, mo, g).sock = w
  BY DEF Knows
<1>3. AfterServerSocket(Knows("on", s, "NULL", n, "RUNNING", w, so, ti, "stale", g), w, m)
  <2>1. AfterStartModel(Knows("on", s, "NULL", n, "RUNNING", w, so, ti, "stale", g), w, m)
    BY DEF AfterStartModel, Keeps, Knows, Reaches
  <2> QED
    BY <2>1 DEF AfterServerSocket, Knows
<1>4. Follows(Knows("on", s, "NULL", n, "RUNNING", w, w, ti, mo, g),
              Set("model-component", "SampleModel"), m)
  BY <1>1, <1>2 DEF Follows, Set
<1> QED
  BY <1>3, <1>4 DEF Follows, Set

(* model-status-timeout is only stored. *)
LEMMA TimeoutRule ==
    ASSUME NEW c, NEW s, NEW n, NEW v, NEW a, NEW so, NEW ti, NEW mo, NEW g, NEW w \in 0..600
    PROVE  Follows(Knows(c, s, "NULL", n, v, a, so, ti, mo, g), Set("model-status-timeout", w),
                   Knows(c, s, "NULL", n, v, a, so, w, mo, g))
<1>1. AfterTimeout(Knows(c, s, "NULL", n, v, a, so, ti, mo, g), w,
                   Knows(c, s, "NULL", n, v, a, so, w, mo, g))
  BY DEF AfterTimeout, Keeps, Knows
<1> QED
  BY <1>1 DEF Follows, Set

(* The test gets the properties it has set. *)
LEMMA GetRule ==
    ASSUME NEW c, NEW s, NEW n, NEW v, NEW a, NEW so, NEW ti, NEW mo, mo # "NULL", NEW g,
           NEW k, k = Knows(c, s, "NULL", n, v, a, so, ti, mo, g)
    PROVE  Follows(k, Get(so, "SampleModel", ti), k)
<1>1. AfterGet(k, so, "SampleModel", ti, k)
  BY DEF AfterGet, Keeps, Knows
<1> QED
  BY <1>1 DEF Follows, Get

(* Caps without width or height are reported. *)
LEMMA CapsRule ==
    ASSUME NEW s, NEW n, NEW v, NEW a, NEW so, NEW ti, NEW mo, NEW g,
           NEW d, ~({"width", "height"} \subseteq d)
    PROVE  Follows(Knows("on", s, "bare", n, v, a, so, ti, mo, g), Caps(d),
                   Knows("on", NoDimensions, "bare", n, v, a, so, ti, mo, g))
<1>1. AfterCaps(Knows("on", s, "bare", n, v, a, so, ti, mo, g), d,
                Knows("on", NoDimensions, "bare", n, v, a, so, ti, mo, g))
  BY DEF AfterCaps, Keeps, Knows
<1> QED
  BY <1>1 DEF Follows, Caps

(* The pipeline plays. *)
LEMMA PlayRule ==
    ASSUME NEW c, NEW s, NEW n, NEW v, NEW a, NEW so, NEW ti, NEW mo, NEW g
    PROVE  Follows(Knows(c, s, "NULL", n, v, a, so, ti, mo, g), Play,
                   Knows(c, s, "PLAYING", n, v, a, so, ti, mo, g))
<1>1. AfterPlay(Knows(c, s, "NULL", n, v, a, so, ti, mo, g),
                Knows(c, s, "PLAYING", n, v, a, so, ti, mo, g))
  BY DEF AfterPlay, Keeps, Knows
<1> QED
  BY <1>1 DEF Follows, Play

(* The error is the first message on the bus. *)
LEMMA PopErrorRule ==
    ASSUME NEW s, NEW n, NEW v, NEW a, NEW so, NEW ti, NEW mo
    PROVE  Follows(Knows("on", s, "PLAYING", n, v, a, so, ti, mo, "ERROR"), Pop("ERROR"),
                   Knows("on", s, "PLAYING", n, v, a, so, ti, mo, "popped"))
<1>1. AfterPop(Knows("on", s, "PLAYING", n, v, a, so, ti, mo, "ERROR"), "ERROR",
               Knows("on", s, "PLAYING", n, v, a, so, ti, mo, "popped"))
  BY DEF AfterPop, Keeps, Knows
<1> QED
  BY <1>1 DEF Follows, Pop

(* Without a model, the call for the frame has failed before the end. *)
LEMMA PopEosFailedRule ==
    ASSUME NEW n, NEW v, NEW a, NEW so, NEW ti
    PROVE  Follows(Knows("on", {}, "PLAYING", n, v, a, so, ti, "NULL", "no"), Pop("EOS"),
                   Knows("on", CallFailed, "PLAYING", n, v, a, so, ti, "NULL", "popped"))
<1>1. AfterPop(Knows("on", {}, "PLAYING", n, v, a, so, ti, "NULL", "no"), "EOS",
               Knows("on", CallFailed, "PLAYING", n, v, a, so, ti, "NULL", "popped"))
  BY DEF AfterPop, Keeps, Knows, ChainPrints
<1> QED
  BY <1>1 DEF Follows, Pop

(* With the model reached, the result has been printed before the end. *)
LEMMA PopEosAnomalyRule ==
    ASSUME NEW n, NEW v, NEW a, NEW so, NEW ti
    PROVE  Follows(Knows("on", {}, "PLAYING", n, v, a, so, ti, "reached", "no"), Pop("EOS"),
                   Knows("on", Anomaly, "PLAYING", n, v, a, so, ti, "reached", "popped"))
<1>1. AfterPop(Knows("on", {}, "PLAYING", n, v, a, so, ti, "reached", "no"), "EOS",
               Knows("on", Anomaly, "PLAYING", n, v, a, so, ti, "reached", "popped"))
  BY DEF AfterPop, Keeps, Knows, ChainPrints
<1> QED
  BY <1>1 DEF Follows, Pop

(* ... and received by an inferenceconsumer. *)
LEMMA PopEosConsumedRule ==
    ASSUME NEW v, NEW a, NEW so, NEW ti
    PROVE  Follows(Knows("on", {}, "PLAYING", "consumer", v, a, so, ti, "reached", "no"), Pop("EOS"),
                   Knows("on", Consumed, "PLAYING", "consumer", v, a, so, ti, "reached", "popped"))
<1>1. AfterPop(Knows("on", {}, "PLAYING", "consumer", v, a, so, ti, "reached", "no"), "EOS",
               Knows("on", Consumed, "PLAYING", "consumer", v, a, so, ti, "reached", "popped"))
  BY DEF AfterPop, Keeps, Knows, ChainPrints, ConsumerPrints, Consumed, Received, Anomaly
<1> QED
  BY <1>1 DEF Follows, Pop

(* The tests of the client alone know nothing of an element. *)
LEMMA ClientAloneRules ==
    Follows(Fresh, MockThrows, Fresh) /\ Follows(Fresh, ShmReadOnly, Fresh)
<1>1. AfterClientAlone(Fresh, Fresh)
  BY DEF AfterClientAlone, Keeps, Knows, Fresh
<1> QED
  BY <1>1 DEF Follows, MockThrows, ShmReadOnly

(* StartModel for a server that nobody is at, that answers FAILED, or that *)
(* may not be waited for.                                                  *)
LEMMA UnavailableRules ==
    ASSUME NEW n, NEW v, v # "down", NEW a, NEW so, NEW ti, ti > 0,
           NEW w \in {50051, 50052}
    PROVE  /\ v = "none" \/ a # so =>
                Follows(Knows("on", {}, "NULL", n, v, a, so, ti, "NULL", "no"),
                        Set("model-component", "SampleModel"),
                        Knows("on", Unavailable, "NULL", n, v, a, so, ti, "NULL", "ERROR"))
           /\ v = "none" \/ a # w =>
                Follows(Knows("on", {}, "NULL", n, v, a, so, ti, "reached", "no"),
                        Set("server-socket", w),
                        Knows("on", Unavailable, "NULL", n, v, a, w, ti, "stale", "ERROR"))
<1>1. ASSUME v = "none" \/ a # so
      PROVE  AfterStartModel(Knows("on", {}, "NULL", n, v, a, so, ti, "NULL", "no"), so,
                  Knows("on", Unavailable, "NULL", n, v, a, so, ti, "NULL", "ERROR"))
  BY <1>1 DEF AfterStartModel, Keeps, Knows, Reaches, Nobody, FailurePrints, Unavailable, NotReached
<1>2. Knows("on", {}, "NULL", n, v, a, so, ti, "NULL", "no").sock = so
  BY DEF Knows
<1>3. ASSUME v = "none" \/ a # w
      PROVE  AfterStartModel(Knows("on", {}, "NULL", n, v, a, so, ti, "reached", "no"), w,
                  Knows("on", Unavailable, "NULL", n, v, a, w, ti, "stale", "ERROR"))
  BY <1>3 DEF AfterStartModel, Keeps, Knows, Reaches, Nobody, FailurePrints, Unavailable, NotReached
<1>4. Knows("on", {}, "NULL", n, v, a, so, ti, "reached", "no").model = "reached"
  BY DEF Knows
<1>5. ASSUME v = "none" \/ a # w
      PROVE  AfterServerSocket(Knows("on", {}, "NULL", n, v, a, so, ti, "reached", "no"), w,
                  Knows("on", Unavailable, "NULL", n, v, a, w, ti, "stale", "ERROR"))
  BY <1>3, <1>4, <1>5 DEF AfterServerSocket
<1> QED
  BY <1>1, <1>2, <1>5 DEF Follows, Set

(* StartModel for a model that is FAILED, or that may not be waited for.  *)
LEMMA NotReachedRule ==
    ASSUME NEW n, NEW v, v # "down", NEW a, NEW so, NEW ti, v # "RUNNING" \/ ~(ti > 0)
    PROVE  Follows(Knows("on", {}, "NULL", n, v, a, so, ti, "NULL", "no"),
                   Set("model-component", "SampleModel"),
                   Knows("on", NotReached, "NULL", n, v, a, so, ti, "NULL", "ERROR"))
<1>1. AfterStartModel(Knows("on", {}, "NULL", n, v, a, so, ti, "NULL", "no"), so,
                      Knows("on", NotReached, "NULL", n, v, a, so, ti, "NULL", "ERROR"))
  BY DEF AfterStartModel, Keeps, Knows, Reaches, FailurePrints
<1>2. Knows("on", {}, "NULL", n, v, a, so, ti, "NULL", "no").sock = so
  BY DEF Knows
<1> QED
  BY <1>1, <1>2 DEF Follows, Set

(* What an inferenceconsumer prints is in the capture. *)
LEMMA PrintedReceivedRule ==
    ASSUME NEW p, NEW n, NEW v, NEW a, NEW so, NEW ti, NEW mo, NEW g
    PROVE  Follows(Knows("on", Consumed, p, n, v, a, so, ti, mo, g), Printed(Received),
                   Knows("off", {}, p, n, v, a, so, ti, mo, g))
<1>1. Received \subseteq Consumed
  BY DEF Received, Consumed
<1> QED
  BY <1>1, PrintedRule

-----------------------------------------------------------------------------
(* The outlines. *)

(* The outline of plugin_init_test fits it. *)
LEMMA PluginInitTestFits ==
    Fits(plugin_init_test, plugin_init_outline)
    /\ IsSteps(plugin_init_test) /\ WithElement(plugin_init_test)
<1> DEFINE t == plugin_init_test
           o == plugin_init_outline
<1>1. /\ Len(t) = 2
      /\ t[1] = Make
      /\ t[2] = Unref
  BY DEF plugin_init_test
<1>2. Follows(o[1], t[1], o[2])
  BY <1>1, MakeRule DEF plugin_init_outline, Fresh, Capturing, Default
<1>3. Follows(o[2], t[2], o[3])
  BY <1>1, UnrefRule DEF plugin_init_outline, Fresh, Capturing, Default
<1>4. Len(o) = 3 /\ o[1] = Fresh /\ o[3].capture = "off" /\ o[3].pipe # "bare"
  BY DEF plugin_init_outline, Knows, Fresh
<1>5. \A l \in 1..2 : Follows(o[l], t[l], o[l + 1])
  BY <1>2, <1>3
<1>6. IsSteps(t)
  <2> DEFINE S == {Make, Unref}
  <2>1. t \in Seq(S)
    BY DEF plugin_init_test
  <2> QED
    BY <2>1 DEF IsSteps
<1>7. WithElement(t)
  BY <1>1 DEF WithElement, ClientAlone,
     Make, Unref
<1> HIDE DEF t, o
<1> QED
  BY <1>1, <1>4, <1>5, <1>6, <1>7 DEF Fits, t, o

(* The outline of element_linking_test fits it. *)
LEMMA ElementLinkingTestFits ==
    Fits(element_linking_test, element_linking_outline)
    /\ IsSteps(element_linking_test) /\ WithElement(element_linking_test)
<1> DEFINE t == element_linking_test
           o == element_linking_outline
<1>1. /\ Len(t) = 1
      /\ t[1] = Link("any", "sink", "linked")
  BY DEF element_linking_test
<1>2. Follows(o[1], t[1], o[2])
  BY <1>1, LinkRule DEF element_linking_outline, Fresh, Capturing, Default
<1>3. Len(o) = 2 /\ o[1] = Fresh /\ o[2].capture = "off" /\ o[2].pipe # "bare"
  BY DEF element_linking_outline, Knows, Fresh
<1>4. \A l \in 1..1 : Follows(o[l], t[l], o[l + 1])
  BY <1>2
<1>5. IsSteps(t)
  <2> DEFINE S == {Link("any", "sink", "linked")}
  <2>1. t \in Seq(S)
    BY DEF element_linking_test
  <2> QED
    BY <2>1 DEF IsSteps
<1>6. WithElement(t)
  BY <1>1 DEF WithElement, ClientAlone,
     Link
<1> HIDE DEF t, o
<1> QED
  BY <1>1, <1>3, <1>4, <1>5, <1>6 DEF Fits, t, o

(* The outline of pipeline_run_without_server_test fits it. *)
LEMMA PipelineRunWithoutServerTestFits ==
    Fits(pipeline_run_without_server_test, pipeline_run_without_server_outline)
    /\ IsSteps(pipeline_run_without_server_test) /\ WithElement(pipeline_run_without_server_test)
<1> DEFINE t == pipeline_run_without_server_test
           o == pipeline_run_without_server_outline
<1>1. /\ Len(t) = 5
      /\ t[1] = CaptureStdout
      /\ t[2] = Link("any", "sink", "linked")
      /\ t[3] = Play
      /\ t[4] = Pop("EOS")
      /\ t[5] = Printed(CallFailed)
  BY DEF pipeline_run_without_server_test, Runs
<1>2. Follows(o[1], t[1], o[2])
  BY <1>1, CaptureRule DEF pipeline_run_without_server_outline, Fresh, Capturing, Default
<1>3. Follows(o[2], t[2], o[3])
  BY <1>1, LinkRule DEF pipeline_run_without_server_outline, Fresh, Capturing, Default
<1>4. Follows(o[3], t[3], o[4])
  BY <1>1, PlayRule DEF pipeline_run_without_server_outline, Fresh, Capturing, Default
<1>5. Follows(o[4], t[4], o[5])
  BY <1>1, PopEosFailedRule DEF pipeline_run_without_server_outline, Fresh, Capturing, Default
<1>6. Follows(o[5], t[5], o[6])
  BY <1>1, PrintedRule DEF pipeline_run_without_server_outline, Fresh, Capturing, Default
<1>7. Len(o) = 6 /\ o[1] = Fresh /\ o[6].capture = "off" /\ o[6].pipe # "bare"
  BY DEF pipeline_run_without_server_outline, Knows, Fresh
<1>8. \A l \in 1..5 : Follows(o[l], t[l], o[l + 1])
  BY <1>2, <1>3, <1>4, <1>5, <1>6
<1>9. IsSteps(t)
  <2> DEFINE S == {CaptureStdout, Link("any", "sink", "linked"), Play, Pop("EOS"),
               Printed(CallFailed)}
  <2>1. t \in Seq(S)
    BY DEF pipeline_run_without_server_test, Runs
  <2> QED
    BY <2>1 DEF IsSteps
<1>10. WithElement(t)
  BY <1>1 DEF WithElement, ClientAlone,
     CaptureStdout, Link, Play, Pop, Printed
<1> HIDE DEF t, o
<1> QED
  BY <1>1, <1>7, <1>8, <1>9, <1>10 DEF Fits, t, o

(* The outline of pipeline_run_with_server_test fits it. *)
LEMMA PipelineRunWithServerTestFits ==
    Fits(pipeline_run_with_server_test, pipeline_run_with_server_outline)
    /\ IsSteps(pipeline_run_with_server_test) /\ WithElement(pipeline_run_with_server_test)
<1> DEFINE t == pipeline_run_with_server_test
           o == pipeline_run_with_server_outline
<1>1. /\ Len(t) = 10
      /\ t[1] = CaptureStdout
      /\ t[2] = RunServer(50051, "RUNNING")
      /\ t[3] = Link("RGB", "sink", "linked")
      /\ t[4] = Set("server-socket", 50051)
      /\ t[5] = Set("model-component", "SampleModel")
      /\ t[6] = Set("model-status-timeout", 180)
      /\ t[7] = Get(50051, "SampleModel", 180)
      /\ t[8] = Play
      /\ t[9] = Pop("EOS")
      /\ t[10] = Printed(Anomaly)
  BY DEF pipeline_run_with_server_test, Runs
<1>2. Follows(o[1], t[1], o[2])
  BY <1>1, CaptureRule DEF pipeline_run_with_server_outline, Fresh, Capturing, Default
<1>3. Follows(o[2], t[2], o[3])
  BY <1>1, RunServerRule DEF pipeline_run_with_server_outline, Fresh, Capturing, Default
<1>4. Follows(o[3], t[3], o[4])
  BY <1>1, LinkRule DEF pipeline_run_with_server_outline, Fresh, Capturing, Default
<1>5. Follows(o[4], t[4], o[5])
  BY <1>1, ServerSocketRule DEF pipeline_run_with_server_outline, Fresh, Capturing, Default
<1>6. Follows(o[5], t[5], o[6])
  BY <1>1, ReachedRules DEF pipeline_run_with_server_outline, Fresh, Capturing, Default
<1>7. Follows(o[6], t[6], o[7])
  BY <1>1, TimeoutRule DEF pipeline_run_with_server_outline, Fresh, Capturing, Default
<1>8. Follows(o[7], t[7], o[8])
  BY <1>1, GetRule DEF pipeline_run_with_server_outline, Fresh, Capturing, Default
<1>9. Follows(o[8], t[8], o[9])
  BY <1>1, PlayRule DEF pipeline_run_with_server_outline, Fresh, Capturing, Default
<1>10. Follows(o[9], t[9], o[10])
  BY <1>1, PopEosAnomalyRule DEF pipeline_run_with_server_outline, Fresh, Capturing, Default
<1>11. Follows(o[10], t[10], o[11])
  BY <1>1, PrintedRule DEF pipeline_run_with_server_outline, Fresh, Capturing, Default
<1>12. Len(o) = 11 /\ o[1] = Fresh /\ o[11].capture = "off" /\ o[11].pipe # "bare"
  BY DEF pipeline_run_with_server_outline, Knows, Fresh
<1>13. \A l \in 1..10 : Follows(o[l], t[l], o[l + 1])
  BY <1>2, <1>3, <1>4, <1>5, <1>6, <1>7, <1>8, <1>9, <1>10, <1>11
<1>14. IsSteps(t)
  <2> DEFINE S == {CaptureStdout, RunServer(50051, "RUNNING"),
               Link("RGB", "sink", "linked"), Set("server-socket", 50051),
               Set("model-component", "SampleModel"), Set("model-status-timeout", 180),
               Get(50051, "SampleModel", 180), Play, Pop("EOS"), Printed(Anomaly)}
  <2>1. t \in Seq(S)
    BY DEF pipeline_run_with_server_test, Runs
  <2> QED
    BY <2>1 DEF IsSteps
<1>15. WithElement(t)
  BY <1>1 DEF WithElement, ClientAlone,
     CaptureStdout, RunServer, Link, Set, Get, Play, Pop, Printed
<1> HIDE DEF t, o
<1> QED
  BY <1>1, <1>12, <1>13, <1>14, <1>15 DEF Fits, t, o

(* The outline of pipeline_invalid_input_type_test fits it. *)
LEMMA PipelineInvalidInputTypeTestFits ==
    Fits(pipeline_invalid_input_type_test, pipeline_invalid_input_type_outline)
    /\ IsSteps(pipeline_invalid_input_type_test) /\ WithElement(pipeline_invalid_input_type_test)
<1> DEFINE t == pipeline_invalid_input_type_test
           o == pipeline_invalid_input_type_outline
<1>1. /\ Len(t) = 1
      /\ t[1] = Link("BGR", "sink", "refused")
  BY DEF pipeline_invalid_input_type_test
<1>2. Follows(o[1], t[1], o[2])
  BY <1>1, LinkRule DEF pipeline_invalid_input_type_outline, Fresh, Capturing, Default
<1>3. Len(o) = 2 /\ o[1] = Fresh /\ o[2].capture = "off" /\ o[2].pipe # "bare"
  BY DEF pipeline_invalid_input_type_outline, Knows, Fresh
<1>4. \A l \in 1..1 : Follows(o[l], t[l], o[l + 1])
  BY <1>2
<1>5. IsSteps(t)
  <2> DEFINE S == {Link("BGR", "sink", "refused")}
  <2>1. t \in Seq(S)
    BY DEF pipeline_invalid_input_type_test
  <2> QED
    BY <2>1 DEF IsSteps
<1>6. WithElement(t)
  BY <1>1 DEF WithElement, ClientAlone,
     Link
<1> HIDE DEF t, o
<1> QED
  BY <1>1, <1>3, <1>4, <1>5, <1>6 DEF Fits, t, o

(* The outline of pipeline_run_without_server_start_model_error_test fits it. *)
LEMMA PipelineRunWithoutServerStartModelErrorTestFits ==
    Fits(pipeline_run_without_server_start_model_error_test, pipeline_run_without_server_start_model_error_outline)
    /\ IsSteps(pipeline_run_without_server_start_model_error_test) /\ WithElement(pipeline_run_without_server_start_model_error_test)
<1> DEFINE t == pipeline_run_without_server_start_model_error_test
           o == pipeline_run_without_server_start_model_error_outline
<1>1. /\ Len(t) = 8
      /\ t[1] = CaptureStdout
      /\ t[2] = Link("any", "sink", "linked")
      /\ t[3] = Set("server-socket", 50051)
      /\ t[4] = Set("model-status-timeout", 3)
      /\ t[5] = Set("model-component", "SampleModel")
      /\ t[6] = Play
      /\ t[7] = Pop("ERROR")
      /\ t[8] = Printed(Unavailable)
  BY DEF pipeline_run_without_server_start_model_error_test, Runs
<1>2. Follows(o[1], t[1], o[2])
  BY <1>1, CaptureRule DEF pipeline_run_without_server_start_model_error_outline, Fresh, Capturing, Default
<1>3. Follows(o[2], t[2], o[3])
  BY <1>1, LinkRule DEF pipeline_run_without_server_start_model_error_outline, Fresh, Capturing, Default
<1>4. Follows(o[3], t[3], o[4])
  BY <1>1, ServerSocketRule DEF pipeline_run_without_server_start_model_error_outline, Fresh, Capturing, Default
<1>5. Follows(o[4], t[4], o[5])
  BY <1>1, TimeoutRule DEF pipeline_run_without_server_start_model_error_outline, Fresh, Capturing, Default
<1>6. Follows(o[5], t[5], o[6])
  BY <1>1, UnavailableRules DEF pipeline_run_without_server_start_model_error_outline, Fresh, Capturing, Default
<1>7. Follows(o[6], t[6], o[7])
  BY <1>1, PlayRule DEF pipeline_run_without_server_start_model_error_outline, Fresh, Capturing, Default
<1>8. Follows(o[7], t[7], o[8])
  BY <1>1, PopErrorRule DEF pipeline_run_without_server_start_model_error_outline, Fresh, Capturing, Default
<1>9. Follows(o[8], t[8], o[9])
  BY <1>1, PrintedRule DEF pipeline_run_without_server_start_model_error_outline, Fresh, Capturing, Default
<1>10. Len(o) = 9 /\ o[1] = Fresh /\ o[9].capture = "off" /\ o[9].pipe # "bare"
  BY DEF pipeline_run_without_server_start_model_error_outline, Knows, Fresh
<1>11. \A l \in 1..8 : Follows(o[l], t[l], o[l + 1])
  BY <1>2, <1>3, <1>4, <1>5, <1>6, <1>7, <1>8, <1>9
<1>12. IsSteps(t)
  <2> DEFINE S == {CaptureStdout, Link("any", "sink", "linked"),
               Set("server-socket", 50051), Set("model-status-timeout", 3),
               Set("model-component", "SampleModel"), Play, Pop("ERROR"),
               Printed(Unavailable)}
  <2>1. t \in Seq(S)
    BY DEF pipeline_run_without_server_start_model_error_test, Runs
  <2> QED
    BY <2>1 DEF IsSteps
<1>13. WithElement(t)
  BY <1>1 DEF WithElement, ClientAlone,
     CaptureStdout, Link, Set, Play, Pop, Printed
<1> HIDE DEF t, o
<1> QED
  BY <1>1, <1>10, <1>11, <1>12, <1>13 DEF Fits, t, o

(* The outline of pipeline_run_with_server_start_model_failed_test fits it. *)
LEMMA PipelineRunWithServerStartModelFailedTestFits ==
    Fits(pipeline_run_with_server_start_model_failed_test, pipeline_run_with_server_start_model_failed_outline)
    /\ IsSteps(pipeline_run_with_server_start_model_failed_test) /\ WithElement(pipeline_run_with_server_start_model_failed_test)
<1> DEFINE t == pipeline_run_with_server_start_model_failed_test
           o == pipeline_run_with_server_start_model_failed_outline
<1>1. /\ Len(t) = 9
      /\ t[1] = CaptureStdout
      /\ t[2] = RunServer(50051, "FAILED")
      /\ t[3] = Link("any", "sink", "linked")
      /\ t[4] = Set("server-socket", 50051)
      /\ t[5] = Set("model-status-timeout", 10)
      /\ t[6] = Set("model-component", "SampleModel")
      /\ t[7] = Play
      /\ t[8] = Pop("ERROR")
      /\ t[9] = Printed(NotReached)
  BY DEF pipeline_run_with_server_start_model_failed_test, Runs
<1>2. Follows(o[1], t[1], o[2])
  BY <1>1, CaptureRule DEF pipeline_run_with_server_start_model_failed_outline, Fresh, Capturing, Default
<1>3. Follows(o[2], t[2], o[3])
  BY <1>1, RunServerRule DEF pipeline_run_with_server_start_model_failed_outline, Fresh, Capturing, Default
<1>4. Follows(o[3], t[3], o[4])
  BY <1>1, LinkRule DEF pipeline_run_with_server_start_model_failed_outline, Fresh, Capturing, Default
<1>5. Follows(o[4], t[4], o[5])
  BY <1>1, ServerSocketRule DEF pipeline_run_with_server_start_model_failed_outline, Fresh, Capturing, Default
<1>6. Follows(o[5], t[5], o[6])
  BY <1>1, TimeoutRule DEF pipeline_run_with_server_start_model_failed_outline, Fresh, Capturing, Default
<1>7. Follows(o[6], t[6], o[7])
  BY <1>1, NotReachedRule DEF pipeline_run_with_server_start_model_failed_outline, Fresh, Capturing, Default
<1>8. Follows(o[7], t[7], o[8])
  BY <1>1, PlayRule DEF pipeline_run_with_server_start_model_failed_outline, Fresh, Capturing, Default
<1>9. Follows(o[8], t[8], o[9])
  BY <1>1, PopErrorRule DEF pipeline_run_with_server_start_model_failed_outline, Fresh, Capturing, Default
<1>10. Follows(o[9], t[9], o[10])
  BY <1>1, PrintedRule DEF pipeline_run_with_server_start_model_failed_outline, Fresh, Capturing, Default
<1>11. Len(o) = 10 /\ o[1] = Fresh /\ o[10].capture = "off" /\ o[10].pipe # "bare"
  BY DEF pipeline_run_with_server_start_model_failed_outline, Knows, Fresh
<1>12. \A l \in 1..9 : Follows(o[l], t[l], o[l + 1])
  BY <1>2, <1>3, <1>4, <1>5, <1>6, <1>7, <1>8, <1>9, <1>10
<1>13. IsSteps(t)
  <2> DEFINE S == {CaptureStdout, RunServer(50051, "FAILED"), Link("any", "sink", "linked"),
               Set("server-socket", 50051), Set("model-status-timeout", 10),
               Set("model-component", "SampleModel"), Play, Pop("ERROR"),
               Printed(NotReached)}
  <2>1. t \in Seq(S)
    BY DEF pipeline_run_with_server_start_model_failed_test, Runs
  <2> QED
    BY <2>1 DEF IsSteps
<1>14. WithElement(t)
  BY <1>1 DEF WithElement, ClientAlone,
     CaptureStdout, RunServer, Link, Set, Play, Pop, Printed
<1> HIDE DEF t, o
<1> QED
  BY <1>1, <1>11, <1>12, <1>13, <1>14 DEF Fits, t, o

(* The outline of pipeline_run_with_server_start_model_timeout_test fits it. *)
LEMMA PipelineRunWithServerStartModelTimeoutTestFits ==
    Fits(pipeline_run_with_server_start_model_timeout_test, pipeline_run_with_server_start_model_timeout_outline)
    /\ IsSteps(pipeline_run_with_server_start_model_timeout_test) /\ WithElement(pipeline_run_with_server_start_model_timeout_test)
<1> DEFINE t == pipeline_run_with_server_start_model_timeout_test
           o == pipeline_run_with_server_start_model_timeout_outline
<1>1. /\ Len(t) = 9
      /\ t[1] = CaptureStdout
      /\ t[2] = RunServer(50051, "RUNNING")
      /\ t[3] = Link("any", "sink", "linked")
      /\ t[4] = Set("server-socket", 50051)
      /\ t[5] = Set("model-status-timeout", 0)
      /\ t[6] = Set("model-component", "SampleModel")
      /\ t[7] = Play
      /\ t[8] = Pop("ERROR")
      /\ t[9] = Printed(NotReached)
  BY DEF pipeline_run_with_server_start_model_timeout_test, Runs
<1>2. Follows(o[1], t[1], o[2])
  BY <1>1, CaptureRule DEF pipeline_run_with_server_start_model_timeout_outline, Fresh, Capturing, Default
<1>3. Follows(o[2], t[2], o[3])
  BY <1>1, RunServerRule DEF pipeline_run_with_server_start_model_timeout_outline, Fresh, Capturing, Default
<1>4. Follows(o[3], t[3], o[4])
  BY <1>1, LinkRule DEF pipeline_run_with_server_start_model_timeout_outline, Fresh, Capturing, Default
<1>5. Follows(o[4], t[4], o[5])
  BY <1>1, ServerSocketRule DEF pipeline_run_with_server_start_model_timeout_outline, Fresh, Capturing, Default
<1>6. Follows(o[5], t[5], o[6])
  BY <1>1, TimeoutRule DEF pipeline_run_with_server_start_model_timeout_outline, Fresh, Capturing, Default
<1>7. Follows(o[6], t[6], o[7])
  BY <1>1, NotReachedRule DEF pipeline_run_with_server_start_model_timeout_outline, Fresh, Capturing, Default
<1>8. Follows(o[7], t[7], o[8])
  BY <1>1, PlayRule DEF pipeline_run_with_server_start_model_timeout_outline, Fresh, Capturing, Default
<1>9. Follows(o[8], t[8], o[9])
  BY <1>1, PopErrorRule DEF pipeline_run_with_server_start_model_timeout_outline, Fresh, Capturing, Default
<1>10. Follows(o[9], t[9], o[10])
  BY <1>1, PrintedRule DEF pipeline_run_with_server_start_model_timeout_outline, Fresh, Capturing, Default
<1>11. Len(o) = 10 /\ o[1] = Fresh /\ o[10].capture = "off" /\ o[10].pipe # "bare"
  BY DEF pipeline_run_with_server_start_model_timeout_outline, Knows, Fresh
<1>12. \A l \in 1..9 : Follows(o[l], t[l], o[l + 1])
  BY <1>2, <1>3, <1>4, <1>5, <1>6, <1>7, <1>8, <1>9, <1>10
<1>13. IsSteps(t)
  <2> DEFINE S == {CaptureStdout, RunServer(50051, "RUNNING"),
               Link("any", "sink", "linked"), Set("server-socket", 50051),
               Set("model-status-timeout", 0), Set("model-component", "SampleModel"), Play,
               Pop("ERROR"), Printed(NotReached)}
  <2>1. t \in Seq(S)
    BY DEF pipeline_run_with_server_start_model_timeout_test, Runs
  <2> QED
    BY <2>1 DEF IsSteps
<1>14. WithElement(t)
  BY <1>1 DEF WithElement, ClientAlone,
     CaptureStdout, RunServer, Link, Set, Play, Pop, Printed
<1> HIDE DEF t, o
<1> QED
  BY <1>1, <1>11, <1>12, <1>13, <1>14 DEF Fits, t, o

(* The outline of pipeline_update_server_start_model_test fits it. *)
LEMMA PipelineUpdateServerStartModelTestFits ==
    Fits(pipeline_update_server_start_model_test, pipeline_update_server_start_model_outline)
    /\ IsSteps(pipeline_update_server_start_model_test) /\ WithElement(pipeline_update_server_start_model_test)
<1> DEFINE t == pipeline_update_server_start_model_test
           o == pipeline_update_server_start_model_outline
<1>1. /\ Len(t) = 12
      /\ t[1] = CaptureStdout
      /\ t[2] = RunServer(50051, "RUNNING")
      /\ t[3] = Link("any", "sink", "linked")
      /\ t[4] = Set("server-socket", 50051)
      /\ t[5] = Set("model-component", "SampleModel")
      /\ t[6] = CallShutdown
      /\ t[7] = CallJoin
      /\ t[8] = RunServer(50052, "RUNNING")
      /\ t[9] = Set("server-socket", 50052)
      /\ t[10] = Play
      /\ t[11] = Pop("EOS")
      /\ t[12] = Printed(Anomaly)
  BY DEF pipeline_update_server_start_model_test, Runs, StopServer
<1>2. Follows(o[1], t[1], o[2])
  BY <1>1, CaptureRule DEF pipeline_update_server_start_model_outline, Fresh, Capturing, Default
<1>3. Follows(o[2], t[2], o[3])
  BY <1>1, RunServerRule DEF pipeline_update_server_start_model_outline, Fresh, Capturing, Default
<1>4. Follows(o[3], t[3], o[4])
  BY <1>1, LinkRule DEF pipeline_update_server_start_model_outline, Fresh, Capturing, Default
<1>5. Follows(o[4], t[4], o[5])
  BY <1>1, ServerSocketRule DEF pipeline_update_server_start_model_outline, Fresh, Capturing, Default
<1>6. Follows(o[5], t[5], o[6])
  BY <1>1, ReachedRules DEF pipeline_update_server_start_model_outline, Fresh, Capturing, Default
<1>7. Follows(o[6], t[6], o[7])
  BY <1>1, ShutdownRule DEF pipeline_update_server_start_model_outline, Fresh, Capturing, Default
<1>8. Follows(o[7], t[7], o[8])
  BY <1>1, JoinRule DEF pipeline_update_server_start_model_outline, Fresh, Capturing, Default
<1>9. Follows(o[8], t[8], o[9])
  BY <1>1, RunServerRule DEF pipeline_update_server_start_model_outline, Fresh, Capturing, Default
<1>10. Follows(o[9], t[9], o[10])
  BY <1>1, ReachedRules DEF pipeline_update_server_start_model_outline, Fresh, Capturing, Default
<1>11. Follows(o[10], t[10], o[11])
  BY <1>1, PlayRule DEF pipeline_update_server_start_model_outline, Fresh, Capturing, Default
<1>12. Follows(o[11], t[11], o[12])
  BY <1>1, PopEosAnomalyRule DEF pipeline_update_server_start_model_outline, Fresh, Capturing, Default
<1>13. Follows(o[12], t[12], o[13])
  BY <1>1, PrintedRule DEF pipeline_update_server_start_model_outline, Fresh, Capturing, Default
<1>14. Len(o) = 13 /\ o[1] = Fresh /\ o[13].capture = "off" /\ o[13].pipe # "bare"
  BY DEF pipeline_update_server_start_model_outline, Knows, Fresh
<1>15. \A l \in 1..12 : Follows(o[l], t[l], o[l + 1])
  BY <1>2, <1>3, <1>4, <1>5, <1>6, <1>7, <1>8, <1>9, <1>10, <1>11, <1>12, <1>13
<1>16. IsSteps(t)
  <2> DEFINE S == {CaptureStdout, RunServer(50051, "RUNNING"),
               Link("any", "sink", "linked"), Set("server-socket", 50051),
               Set("model-component", "SampleModel"), CallShutdown, CallJoin,
               RunServer(50052, "RUNNING"), Set("server-socket", 50052), Play, Pop("EOS"),
               Printed(Anomaly)}
  <2>1. t \in Seq(S)
    BY DEF pipeline_update_server_start_model_test, Runs, StopServer
  <2> QED
    BY <2>1 DEF IsSteps
<1>17. WithElement(t)
  BY <1>1 DEF WithElement, ClientAlone,
     CaptureStdout, RunServer, Link, Set, CallShutdown, CallJoin, Play, Pop, Printed
<1> HIDE DEF t, o
<1> QED
  BY <1>1, <1>14, <1>15, <1>16, <1>17 DEF Fits, t, o

(* The outline of pipeline_update_server_start_model_error_test fits it. *)
LEMMA PipelineUpdateServerStartModelErrorTestFits ==
    Fits(pipeline_update_server_start_model_error_test, pipeline_update_server_start_model_error_outline)
    /\ IsSteps(pipeline_update_server_start_model_error_test) /\ WithElement(pipeline_update_server_start_model_error_test)
<1> DEFINE t == pipeline_update_server_start_model_error_test
           o == pipeline_update_server_start_model_error_outline
<1>1. /\ Len(t) = 10
      /\ t[1] = CaptureStdout
      /\ t[2] = RunServer(50051, "RUNNING")
      /\ t[3] = Link("any", "sink", "linked")
      /\ t[4] = Set("server-socket", 50051)
      /\ t[5] = Set("model-component", "SampleModel")
      /\ t[6] = Set("model-status-timeout", 5)
      /\ t[7] = Set("server-socket", 50052)
      /\ t[8] = Play
      /\ t[9] = Pop("ERROR")
      /\ t[10] = Printed(Unavailable)
  BY DEF pipeline_update_server_start_model_error_test, Runs
<1>2. Follows(o[1], t[1], o[2])
  BY <1>1, CaptureRule DEF pipeline_update_server_start_model_error_outline, Fresh, Capturing, Default
<1>3. Follows(o[2], t[2], o[3])
  BY <1>1, RunServerRule DEF pipeline_update_server_start_model_error_outline, Fresh, Capturing, Default
<1>4. Follows(o[3], t[3], o[4])
  BY <1>1, LinkRule DEF pipeline_update_server_start_model_error_outline, Fresh, Capturing, Default
<1>5. Follows(o[4], t[4], o[5])
  BY <1>1, ServerSocketRule DEF pipeline_update_server_start_model_error_outline, Fresh, Capturing, Default
<1>6. Follows(o[5], t[5], o[6])
  BY <1>1, ReachedRules DEF pipeline_update_server_start_model_error_outline, Fresh, Capturing, Default
<1>7. Follows(o[6], t[6], o[7])
  BY <1>1, TimeoutRule DEF pipeline_update_server_start_model_error_outline, Fresh, Capturing, Default
<1>8. Follows(o[7], t[7], o[8])
  BY <1>1, UnavailableRules DEF pipeline_update_server_start_model_error_outline, Fresh, Capturing, Default
<1>9. Follows(o[8], t[8], o[9])
  BY <1>1, PlayRule DEF pipeline_update_server_start_model_error_outline, Fresh, Capturing, Default
<1>10. Follows(o[9], t[9], o[10])
  BY <1>1, PopErrorRule DEF pipeline_update_server_start_model_error_outline, Fresh, Capturing, Default
<1>11. Follows(o[10], t[10], o[11])
  BY <1>1, PrintedRule DEF pipeline_update_server_start_model_error_outline, Fresh, Capturing, Default
<1>12. Len(o) = 11 /\ o[1] = Fresh /\ o[11].capture = "off" /\ o[11].pipe # "bare"
  BY DEF pipeline_update_server_start_model_error_outline, Knows, Fresh
<1>13. \A l \in 1..10 : Follows(o[l], t[l], o[l + 1])
  BY <1>2, <1>3, <1>4, <1>5, <1>6, <1>7, <1>8, <1>9, <1>10, <1>11
<1>14. IsSteps(t)
  <2> DEFINE S == {CaptureStdout, RunServer(50051, "RUNNING"),
               Link("any", "sink", "linked"), Set("server-socket", 50051),
               Set("model-component", "SampleModel"), Set("model-status-timeout", 5),
               Set("server-socket", 50052), Play, Pop("ERROR"), Printed(Unavailable)}
  <2>1. t \in Seq(S)
    BY DEF pipeline_update_server_start_model_error_test, Runs
  <2> QED
    BY <2>1 DEF IsSteps
<1>15. WithElement(t)
  BY <1>1 DEF WithElement, ClientAlone,
     CaptureStdout, RunServer, Link, Set, Play, Pop, Printed
<1> HIDE DEF t, o
<1> QED
  BY <1>1, <1>12, <1>13, <1>14, <1>15 DEF Fits, t, o

(* The outline of no_width_in_caps_test fits it. *)
LEMMA NoWidthInCapsTestFits ==
    Fits(no_width_in_caps_test, in_caps_outline)
    /\ IsSteps(no_width_in_caps_test) /\ WithElement(no_width_in_caps_test)
<1> DEFINE t == no_width_in_caps_test
           o == in_caps_outline
<1>1. /\ Len(t) = 5
      /\ t[1] = CaptureStdout
      /\ t[2] = Make
      /\ t[3] = Caps(OnlyHeight)
      /\ t[4] = Printed(NoDimensions)
      /\ t[5] = Unref
  BY DEF no_width_in_caps_test
<1>2. Follows(o[1], t[1], o[2])
  BY <1>1, CaptureRule DEF in_caps_outline, Fresh, Capturing, Default
<1>3. Follows(o[2], t[2], o[3])
  BY <1>1, MakeRule DEF in_caps_outline, Fresh, Capturing, Default
<1>4. Follows(o[3], t[3], o[4])
  BY <1>1, CapsRule DEF in_caps_outline, Fresh, Capturing, Default, OnlyWidth, OnlyHeight
<1>5. Follows(o[4], t[4], o[5])
  BY <1>1, PrintedRule DEF in_caps_outline, Fresh, Capturing, Default
<1>6. Follows(o[5], t[5], o[6])
  BY <1>1, UnrefRule DEF in_caps_outline, Fresh, Capturing, Default
<1>7. Len(o) = 6 /\ o[1] = Fresh /\ o[6].capture = "off" /\ o[6].pipe # "bare"
  BY DEF in_caps_outline, Knows, Fresh
<1>8. \A l \in 1..5 : Follows(o[l], t[l], o[l + 1])
  BY <1>2, <1>3, <1>4, <1>5, <1>6
<1>9. IsSteps(t)
  <2> DEFINE S == {CaptureStdout, Make, Caps(OnlyHeight), Printed(NoDimensions), Unref}
  <2>1. t \in Seq(S)
    BY DEF no_width_in_caps_test
  <2> QED
    BY <2>1 DEF IsSteps
<1>10. WithElement(t)
  BY <1>1 DEF WithElement, ClientAlone,
     CaptureStdout, Make, Caps, Printed, Unref
<1> HIDE DEF t, o
<1> QED
  BY <1>1, <1>7, <1>8, <1>9, <1>10 DEF Fits, t, o

(* The outline of no_height_in_caps_test fits it. *)
LEMMA NoHeightInCapsTestFits ==
    Fits(no_height_in_caps_test, in_caps_outline)
    /\ IsSteps(no_height_in_caps_test) /\ WithElement(no_height_in_caps_test)
<1> DEFINE t == no_height_in_caps_test
           o == in_caps_outline
<1>1. /\ Len(t) = 5
      /\ t[1] = CaptureStdout
      /\ t[2] = Make
      /\ t[3] = Caps(OnlyWidth)
      /\ t[4] = Printed(NoDimensions)
      /\ t[5] = Unref
  BY DEF no_height_in_caps_test
<1>2. Follows(o[1], t[1], o[2])
  BY <1>1, CaptureRule DEF in_caps_outline, Fresh, Capturing, Default
<1>3. Follows(o[2], t[2], o[3])
  BY <1>1, MakeRule DEF in_caps_outline, Fresh, Capturing, Default
<1>4. Follows(o[3], t[3], o[4])
  BY <1>1, CapsRule DEF in_caps_outline, Fresh, Capturing, Default, OnlyWidth, OnlyHeight
<1>5. Follows(o[4], t[4], o[5])
  BY <1>1, PrintedRule DEF in_caps_outline, Fresh, Capturing, Default
<1>6. Follows(o[5], t[5], o[6])
  BY <1>1, UnrefRule DEF in_caps_outline, Fresh, Capturing, Default
<1>7. Len(o) = 6 /\ o[1] = Fresh /\ o[6].capture = "off" /\ o[6].pipe # "bare"
  BY DEF in_caps_outline, Knows, Fresh
<1>8. \A l \in 1..5 : Follows(o[l], t[l], o[l + 1])
  BY <1>2, <1>3, <1>4, <1>5, <1>6
<1>9. IsSteps(t)
  <2> DEFINE S == {CaptureStdout, Make, Caps(OnlyWidth), Printed(NoDimensions), Unref}
  <2>1. t \in Seq(S)
    BY DEF no_height_in_caps_test
  <2> QED
    BY <2>1 DEF IsSteps
<1>10. WithElement(t)
  BY <1>1 DEF WithElement, ClientAlone,
     CaptureStdout, Make, Caps, Printed, Unref
<1> HIDE DEF t, o
<1> QED
  BY <1>1, <1>7, <1>8, <1>9, <1>10 DEF Fits, t, o

(* The outline of no_dimensions_in_caps_test fits it. *)
LEMMA NoDimensionsInCapsTestFits ==
    Fits(no_dimensions_in_caps_test, in_caps_outline)
    /\ IsSteps(no_dimensions_in_caps_test) /\ WithElement(no_dimensions_in_caps_test)
<1> DEFINE t == no_dimensions_in_caps_test
           o == in_caps_outline
<1>1. /\ Len(t) = 5
      /\ t[1] = CaptureStdout
      /\ t[2] = Make
      /\ t[3] = Caps({})
      /\ t[4] = Printed(NoDimensions)
      /\ t[5] = Unref
  BY DEF no_dimensions_in_caps_test
<1>2. Follows(o[1], t[1], o[2])
  BY <1>1, CaptureRule DEF in_caps_outline, Fresh, Capturing, Default
<1>3. Follows(o[2], t[2], o[3])
  BY <1>1, MakeRule DEF in_caps_outline, Fresh, Capturing, Default
<1>4. Follows(o[3], t[3], o[4])
  BY <1>1, CapsRule DEF in_caps_outline, Fresh, Capturing, Default, OnlyWidth, OnlyHeight
<1>5. Follows(o[4], t[4], o[5])
  BY <1>1, PrintedRule DEF in_caps_outline, Fresh, Capturing, Default
<1>6. Follows(o[5], t[5], o[6])
  BY <1>1, UnrefRule DEF in_caps_outline, Fresh, Capturing, Default
<1>7. Len(o) = 6 /\ o[1] = Fresh /\ o[6].capture = "off" /\ o[6].pipe # "bare"
  BY DEF in_caps_outline, Knows, Fresh
<1>8. \A l \in 1..5 : Follows(o[l], t[l], o[l + 1])
  BY <1>2, <1>3, <1>4, <1>5, <1>6
<1>9. IsSteps(t)
  <2> DEFINE S == {CaptureStdout, Make, Caps({}), Printed(NoDimensions), Unref}
  <2>1. t \in Seq(S)
    BY DEF no_dimensions_in_caps_test
  <2> QED
    BY <2>1 DEF IsSteps
<1>10. WithElement(t)
  BY <1>1 DEF WithElement, ClientAlone,
     CaptureStdout, Make, Caps, Printed, Unref
<1> HIDE DEF t, o
<1> QED
  BY <1>1, <1>7, <1>8, <1>9, <1>10 DEF Fits, t, o

(* The outline of pipeline_read_inference_meta_test fits it. *)
LEMMA PipelineReadInferenceMetaTestFits ==
    Fits(pipeline_read_inference_meta_test, pipeline_read_inference_meta_outline)
    /\ IsSteps(pipeline_read_inference_meta_test) /\ WithElement(pipeline_read_inference_meta_test)
<1> DEFINE t == pipeline_read_inference_meta_test
           o == pipeline_read_inference_meta_outline
<1>1. /\ Len(t) = 8
      /\ t[1] = CaptureStdout
      /\ t[2] = RunServer(50051, "RUNNING")
      /\ t[3] = Link("any", "consumer", "linked")
      /\ t[4] = Set("server-socket", 50051)
      /\ t[5] = Set("model-component", "SampleModel")
      /\ t[6] = Play
      /\ t[7] = Pop("EOS")
      /\ t[8] = Printed(Received)
  BY DEF pipeline_read_inference_meta_test, Runs
<1>2. Follows(o[1], t[1], o[2])
  BY <1>1, CaptureRule DEF pipeline_read_inference_meta_outline, Fresh, Capturing, Default
<1>3. Follows(o[2], t[2], o[3])
  BY <1>1, RunServerRule DEF pipeline_read_inference_meta_outline, Fresh, Capturing, Default
<1>4. Follows(o[3], t[3], o[4])
  BY <1>1, LinkRule DEF pipeline_read_inference_meta_outline, Fresh, Capturing, Default
<1>5. Follows(o[4], t[4], o[5])
  BY <1>1, ServerSocketRule DEF pipeline_read_inference_meta_outline, Fresh, Capturing, Default
<1>6. Follows(o[5], t[5], o[6])
  BY <1>1, ReachedRules DEF pipeline_read_inference_meta_outline, Fresh, Capturing, Default
<1>7. Follows(o[6], t[6], o[7])
  BY <1>1, PlayRule DEF pipeline_read_inference_meta_outline, Fresh, Capturing, Default
<1>8. Follows(o[7], t[7], o[8])
  BY <1>1, PopEosConsumedRule DEF pipeline_read_inference_meta_outline, Fresh, Capturing, Default
<1>9. Follows(o[8], t[8], o[9])
  BY <1>1, PrintedReceivedRule DEF pipeline_read_inference_meta_outline, Fresh, Capturing, Default
<1>10. Len(o) = 9 /\ o[1] = Fresh /\ o[9].capture = "off" /\ o[9].pipe # "bare"
  BY DEF pipeline_read_inference_meta_outline, Knows, Fresh
<1>11. \A l \in 1..8 : Follows(o[l], t[l], o[l + 1])
  BY <1>2, <1>3, <1>4, <1>5, <1>6, <1>7, <1>8, <1>9
<1>12. IsSteps(t)
  <2> DEFINE S == {CaptureStdout, RunServer(50051, "RUNNING"),
               Link("any", "consumer", "linked"), Set("server-socket", 50051),
               Set("model-component", "SampleModel"), Play, Pop("EOS"), Printed(Received)}
  <2>1. t \in Seq(S)
    BY DEF pipeline_read_inference_meta_test, Runs
  <2> QED
    BY <2>1 DEF IsSteps
<1>13. WithElement(t)
  BY <1>1 DEF WithElement, ClientAlone,
     CaptureStdout, RunServer, Link, Set, Play, Pop, Printed
<1> HIDE DEF t, o
<1> QED
  BY <1>1, <1>10, <1>11, <1>12, <1>13 DEF Fits, t, o

(* The outline of grpc_calls_throw_exception_test fits it. *)
LEMMA GrpcCallsThrowExceptionTestFits ==
    Fits(grpc_calls_throw_exception_test, grpc_calls_throw_exception_outline)
    /\ IsSteps(grpc_calls_throw_exception_test)
<1> DEFINE t == grpc_calls_throw_exception_test
           o == grpc_calls_throw_exception_outline
<1>1. /\ Len(t) = 1
      /\ t[1] = MockThrows
  BY DEF grpc_calls_throw_exception_test
<1>2. Follows(o[1], t[1], o[2])
  BY <1>1, ClientAloneRules DEF grpc_calls_throw_exception_outline, Fresh, Capturing, Default
<1>3. Len(o) = 2 /\ o[1] = Fresh /\ o[2].capture = "off" /\ o[2].pipe # "bare"
  BY DEF grpc_calls_throw_exception_outline, Knows, Fresh
<1>4. \A l \in 1..1 : Follows(o[l], t[l], o[l + 1])
  BY <1>2
<1>5. IsSteps(t)
  <2> DEFINE S == {MockThrows}
  <2>1. t \in Seq(S)
    BY DEF grpc_calls_throw_exception_test
  <2> QED
    BY <2>1 DEF IsSteps
<1> HIDE DEF t, o
<1> QED
  BY <1>1, <1>3, <1>4, <1>5 DEF Fits, t, o

(* The outline of inference_on_large_size_frame_with_shared_memory_test fits it. *)
LEMMA InferenceOnLargeSizeFrameWithSharedMemoryTestFits ==
    Fits(inference_on_large_size_frame_with_shared_memory_test, inference_on_large_size_frame_with_shared_memory_outline)
    /\ IsSteps(inference_on_large_size_frame_with_shared_memory_test) /\ WithElement(inference_on_large_size_frame_with_shared_memory_test)
<1> DEFINE t == inference_on_large_size_frame_with_shared_memory_test
           o == inference_on_large_size_frame_with_shared_memory_outline
<1>1. /\ Len(t) = 9
      /\ t[1] = CaptureStdout
      /\ t[2] = RunServer(50051, "RUNNING")
      /\ t[3] = Link("RGB", "sink", "linked")
      /\ t[4] = Set("server-socket", 50051)
      /\ t[5] = Set("model-component", "SampleModel")
      /\ t[6] = Set("model-status-timeout", 180)
      /\ t[7] = Play
      /\ t[8] = Pop("EOS")
      /\ t[9] = Printed(Anomaly)
  BY DEF inference_on_large_size_frame_with_shared_memory_test, Runs
<1>2. Follows(o[1], t[1], o[2])
  BY <1>1, CaptureRule DEF inference_on_large_size_frame_with_shared_memory_outline, Fresh, Capturing, Default
<1>3. Follows(o[2], t[2], o[3])
  BY <1>1, RunServerRule DEF inference_on_large_size_frame_with_shared_memory_outline, Fresh, Capturing, Default
<1>4. Follows(o[3], t[3], o[4])
  BY <1>1, LinkRule DEF inference_on_large_size_frame_with_shared_memory_outline, Fresh, Capturing, Default
<1>5. Follows(o[4], t[4], o[5])
  BY <1>1, ServerSocketRule DEF inference_on_large_size_frame_with_shared_memory_outline, Fresh, Capturing, Default
<1>6. Follows(o[5], t[5], o[6])
  BY <1>1, ReachedRules DEF inference_on_large_size_frame_with_shared_memory_outline, Fresh, Capturing, Default
<1>7. Follows(o[6], t[6], o[7])
  BY <1>1, TimeoutRule DEF inference_on_large_size_frame_with_shared_memory_outline, Fresh, Capturing, Default
<1>8. Follows(o[7], t[7], o[8])
  BY <1>1, PlayRule DEF inference_on_large_size_frame_with_shared_memory_outline, Fresh, Capturing, Default
<1>9. Follows(o[8], t[8], o[9])
  BY <1>1, PopEosAnomalyRule DEF inference_on_large_size_frame_with_shared_memory_outline, Fresh, Capturing, Default
<1>10. Follows(o[9], t[9], o[10])
  BY <1>1, PrintedRule DEF inference_on_large_size_frame_with_shared_memory_outline, Fresh, Capturing, Default
<1>11. Len(o) = 10 /\ o[1] = Fresh /\ o[10].capture = "off" /\ o[10].pipe # "bare"
  BY DEF inference_on_large_size_frame_with_shared_memory_outline, Knows, Fresh
<1>12. \A l \in 1..9 : Follows(o[l], t[l], o[l + 1])
  BY <1>2, <1>3, <1>4, <1>5, <1>6, <1>7, <1>8, <1>9, <1>10
<1>13. IsSteps(t)
  <2> DEFINE S == {CaptureStdout, RunServer(50051, "RUNNING"),
               Link("RGB", "sink", "linked"), Set("server-socket", 50051),
               Set("model-component", "SampleModel"), Set("model-status-timeout", 180),
               Play, Pop("EOS"), Printed(Anomaly)}
  <2>1. t \in Seq(S)
    BY DEF inference_on_large_size_frame_with_shared_memory_test, Runs
  <2> QED
    BY <2>1 DEF IsSteps
<1>14. WithElement(t)
  BY <1>1 DEF WithElement, ClientAlone,
     CaptureStdout, RunServer, Link, Set, Play, Pop, Printed
<1> HIDE DEF t, o
<1> QED
  BY <1>1, <1>11, <1>12, <1>13, <1>14 DEF Fits, t, o

(* The outline of shm_open_error_test fits it. *)
LEMMA ShmOpenErrorTestFits ==
    Fits(shm_open_error_test, shm_open_error_outline)
    /\ IsSteps(shm_open_error_test)
<1> DEFINE t == shm_open_error_test
           o == shm_open_error_outline
<1>1. /\ Len(t) = 1
      /\ t[1] = ShmReadOnly
  BY DEF shm_open_error_test
<1>2. Follows(o[1], t[1], o[2])
  BY <1>1, ClientAloneRules DEF shm_open_error_outline, Fresh, Capturing, Default
<1>3. Len(o) = 2 /\ o[1] = Fresh /\ o[2].capture = "off" /\ o[2].pipe # "bare"
  BY DEF shm_open_error_outline, Knows, Fresh
<1>4. \A l \in 1..1 : Follows(o[l], t[l], o[l + 1])
  BY <1>2
<1>5. IsSteps(t)
  <2> DEFINE S == {ShmReadOnly}
  <2>1. t \in Seq(S)
    BY DEF shm_open_error_test
  <2> QED
    BY <2>1 DEF IsSteps
<1> HIDE DEF t, o
<1> QED
  BY <1>1, <1>3, <1>4, <1>5 DEF Fits, t, o

-----------------------------------------------------------------------------
(* What the tests of both programs are, one by one. *)
LEMMA TestsAre ==
    /\ DOMAIN Tests = {"gstlookoutvisiontest", "LookoutVisionInferenceClientTest"}
    /\ Len(Tests.gstlookoutvisiontest) = 14
    /\ Tests.gstlookoutvisiontest[1] = plugin_init_test
    /\ Tests.gstlookoutvisiontest[2] = element_linking_test
    /\ Tests.gstlookoutvisiontest[3] = pipeline_run_without_server_test
    /\ Tests.gstlookoutvisiontest[4] = pipeline_run_with_server_test
    /\ Tests.gstlookoutvisiontest[5] = pipeline_invalid_input_type_test
    /\ Tests.gstlookoutvisiontest[6] = pipeline_run_without_server_start_model_error_test
    /\ Tests.gstlookoutvisiontest[7] = pipeline_run_with_server_start_model_failed_test
    /\ Tests.gstlookoutvisiontest[8] = pipeline_run_with_server_start_model_timeout_test
    /\ Tests.gstlookoutvisiontest[9] = pipeline_update_server_start_model_test
    /\ Tests.gstlookoutvisiontest[10] = pipeline_update_server_start_model_error_test
    /\ Tests.gstlookoutvisiontest[11] = no_width_in_caps_test
    /\ Tests.gstlookoutvisiontest[12] = no_height_in_caps_test
    /\ Tests.gstlookoutvisiontest[13] = no_dimensions_in_caps_test
    /\ Tests.gstlookoutvisiontest[14] = pipeline_read_inference_meta_test
    /\ ~SharedMemory => Len(Tests.LookoutVisionInferenceClientTest) = 1
    /\ Tests.LookoutVisionInferenceClientTest[1] = grpc_calls_throw_exception_test
    /\ SharedMemory =>
         /\ Len(Tests.LookoutVisionInferenceClientTest) = 3
         /\ Tests.LookoutVisionInferenceClientTest[2] =
              inference_on_large_size_frame_with_shared_memory_test
         /\ Tests.LookoutVisionInferenceClientTest[3] = shm_open_error_test
<1>1. DOMAIN Tests = {"gstlookoutvisiontest", "LookoutVisionInferenceClientTest"}
  BY DEF Tests
<1>2. Len(Tests.gstlookoutvisiontest) = 14
  BY DEF Tests
<1>3. Tests.gstlookoutvisiontest[1] = plugin_init_test
  BY DEF Tests
<1>4. Tests.gstlookoutvisiontest[2] = element_linking_test
  BY DEF Tests
<1>5. Tests.gstlookoutvisiontest[3] = pipeline_run_without_server_test
  BY DEF Tests
<1>6. Tests.gstlookoutvisiontest[4] = pipeline_run_with_server_test
  BY DEF Tests
<1>7. Tests.gstlookoutvisiontest[5] = pipeline_invalid_input_type_test
  BY DEF Tests
<1>8. Tests.gstlookoutvisiontest[6] = pipeline_run_without_server_start_model_error_test
  BY DEF Tests
<1>9. Tests.gstlookoutvisiontest[7] = pipeline_run_with_server_start_model_failed_test
  BY DEF Tests
<1>10. Tests.gstlookoutvisiontest[8] = pipeline_run_with_server_start_model_timeout_test
  BY DEF Tests
<1>11. Tests.gstlookoutvisiontest[9] = pipeline_update_server_start_model_test
  BY DEF Tests
<1>12. Tests.gstlookoutvisiontest[10] = pipeline_update_server_start_model_error_test
  BY DEF Tests
<1>13. Tests.gstlookoutvisiontest[11] = no_width_in_caps_test
  BY DEF Tests
<1>14. Tests.gstlookoutvisiontest[12] = no_height_in_caps_test
  BY DEF Tests
<1>15. Tests.gstlookoutvisiontest[13] = no_dimensions_in_caps_test
  BY DEF Tests
<1>16. Tests.gstlookoutvisiontest[14] = pipeline_read_inference_meta_test
  BY DEF Tests
<1>17. CASE SharedMemory
  <2>1. Len(Tests.LookoutVisionInferenceClientTest) = 3
    BY <1>17 DEF Tests
  <2>2. Tests.LookoutVisionInferenceClientTest[1] = grpc_calls_throw_exception_test
    BY <1>17 DEF Tests
  <2>3. Tests.LookoutVisionInferenceClientTest[2] = inference_on_large_size_frame_with_shared_memory_test
    BY <1>17 DEF Tests
  <2>4. Tests.LookoutVisionInferenceClientTest[3] = shm_open_error_test
    BY <1>17 DEF Tests
  <2> QED
    BY <1>17, <2>1, <2>2, <2>3, <2>4, <1>1, <1>2, <1>3, <1>4, <1>5, <1>6, <1>7, <1>8,
       <1>9, <1>10, <1>11, <1>12, <1>13, <1>14, <1>15, <1>16
<1>18. CASE ~SharedMemory
  <2>1. /\ Len(Tests.LookoutVisionInferenceClientTest) = 1
        /\ Tests.LookoutVisionInferenceClientTest[1] = grpc_calls_throw_exception_test
    BY <1>18 DEF Tests
  <2> QED
    BY <1>18, <2>1, <1>1, <1>2, <1>3, <1>4, <1>5, <1>6, <1>7, <1>8, <1>9, <1>10, <1>11,
       <1>12, <1>13, <1>14, <1>15, <1>16
<1> QED
  BY <1>17, <1>18

(* The outlines of both programs, one by one. *)
LEMMA OutlinesAre ==
    /\ Outlines.gstlookoutvisiontest[1] = plugin_init_outline
    /\ Outlines.gstlookoutvisiontest[2] = element_linking_outline
    /\ Outlines.gstlookoutvisiontest[3] = pipeline_run_without_server_outline
    /\ Outlines.gstlookoutvisiontest[4] = pipeline_run_with_server_outline
    /\ Outlines.gstlookoutvisiontest[5] = pipeline_invalid_input_type_outline
    /\ Outlines.gstlookoutvisiontest[6] = pipeline_run_without_server_start_model_error_outline
    /\ Outlines.gstlookoutvisiontest[7] = pipeline_run_with_server_start_model_failed_outline
    /\ Outlines.gstlookoutvisiontest[8] = pipeline_run_with_server_start_model_timeout_outline
    /\ Outlines.gstlookoutvisiontest[9] = pipeline_update_server_start_model_outline
    /\ Outlines.gstlookoutvisiontest[10] = pipeline_update_server_start_model_error_outline
    /\ Outlines.gstlookoutvisiontest[11] = in_caps_outline
    /\ Outlines.gstlookoutvisiontest[12] = in_caps_outline
    /\ Outlines.gstlookoutvisiontest[13] = in_caps_outline
    /\ Outlines.gstlookoutvisiontest[14] = pipeline_read_inference_meta_outline
    /\ Outlines.LookoutVisionInferenceClientTest[1] =
         grpc_calls_throw_exception_outline
    /\ Outlines.LookoutVisionInferenceClientTest[2] =
         inference_on_large_size_frame_with_shared_memory_outline
    /\ Outlines.LookoutVisionInferenceClientTest[3] =
         shm_open_error_outline
<1>1. Outlines.gstlookoutvisiontest[1] = plugin_init_outline
  BY DEF Outlines
<1>2. Outlines.gstlookoutvisiontest[2] = element_linking_outline
  BY DEF Outlines
<1>3. Outlines.gstlookoutvisiontest[3] = pipeline_run_without_server_outline
  BY DEF Outlines
<1>4. Outlines.gstlookoutvisiontest[4] = pipeline_run_with_server_outline
  BY DEF Outlines
<1>5. Outlines.gstlookoutvisiontest[5] = pipeline_invalid_input_type_outline
  BY DEF Outlines
<1>6. Outlines.gstlookoutvisiontest[6] = pipeline_run_without_server_start_model_error_outline
  BY DEF Outlines
<1>7. Outlines.gstlookoutvisiontest[7] = pipeline_run_with_server_start_model_failed_outline
  BY DEF Outlines
<1>8. Outlines.gstlookoutvisiontest[8] = pipeline_run_with_server_start_model_timeout_outline
  BY DEF Outlines
<1>9. Outlines.gstlookoutvisiontest[9] = pipeline_update_server_start_model_outline
  BY DEF Outlines
<1>10. Outlines.gstlookoutvisiontest[10] = pipeline_update_server_start_model_error_outline
  BY DEF Outlines
<1>11. Outlines.gstlookoutvisiontest[11] = in_caps_outline
  BY DEF Outlines
<1>12. Outlines.gstlookoutvisiontest[12] = in_caps_outline
  BY DEF Outlines
<1>13. Outlines.gstlookoutvisiontest[13] = in_caps_outline
  BY DEF Outlines
<1>14. Outlines.gstlookoutvisiontest[14] = pipeline_read_inference_meta_outline
  BY DEF Outlines
<1>15. Outlines.LookoutVisionInferenceClientTest[1] =
         grpc_calls_throw_exception_outline
  BY DEF Outlines
<1>16. Outlines.LookoutVisionInferenceClientTest[2] =
         inference_on_large_size_frame_with_shared_memory_outline
  BY DEF Outlines
<1>17. Outlines.LookoutVisionInferenceClientTest[3] =
         shm_open_error_outline
  BY DEF Outlines
<1> QED
  BY <1>1, <1>2, <1>3, <1>4, <1>5, <1>6, <1>7, <1>8, <1>9, <1>10, <1>11, <1>12, <1>13,
     <1>14, <1>15, <1>16, <1>17

(* Every test has an outline that fits it. *)
LEMMA TestsFit ==
    ASSUME NEW p \in DOMAIN Tests, NEW t \in 1..Len(Tests[p])
    PROVE  /\ Fits(Tests[p][t], Outlines[p][t]) /\ IsSteps(Tests[p][t])
           /\ p = "gstlookoutvisiontest" \/ t = 2 => WithElement(Tests[p][t])
<1>1. CASE p = "gstlookoutvisiontest"
  <2>1. t \in {1, 2, 3, 4, 5, 6, 7, 8, 9, 10, 11, 12, 13, 14}
    <3>1. t \in 1..14
      BY <1>1, TestsAre
    <3> QED
      BY <3>1
  <2>2. Fits(Tests[p][1], Outlines[p][1]) /\ IsSteps(Tests[p][1]) /\ WithElement(Tests[p][1])
    BY <1>1, TestsAre, OutlinesAre,
       PluginInitTestFits
  <2>3. Fits(Tests[p][2], Outlines[p][2]) /\ IsSteps(Tests[p][2]) /\ WithElement(Tests[p][2])
    BY <1>1, TestsAre, OutlinesAre,
       ElementLinkingTestFits
  <2>4. Fits(Tests[p][3], Outlines[p][3]) /\ IsSteps(Tests[p][3]) /\ WithElement(Tests[p][3])
    BY <1>1, TestsAre, OutlinesAre,
       PipelineRunWithoutServerTestFits
  <2>5. Fits(Tests[p][4], Outlines[p][4]) /\ IsSteps(Tests[p][4]) /\ WithElement(Tests[p][4])
    BY <1>1, TestsAre, OutlinesAre,
       PipelineRunWithServerTestFits
  <2>6. Fits(Tests[p][5], Outlines[p][5]) /\ IsSteps(Tests[p][5]) /\ WithElement(Tests[p][5])
    BY <1>1, TestsAre, OutlinesAre,
       PipelineInvalidInputTypeTestFits
  <2>7. Fits(Tests[p][6], Outlines[p][6]) /\ IsSteps(Tests[p][6]) /\ WithElement(Tests[p][6])
    BY <1>1, TestsAre, OutlinesAre,
       PipelineRunWithoutServerStartModelErrorTestFits
  <2>8. Fits(Tests[p][7], Outlines[p][7]) /\ IsSteps(Tests[p][7]) /\ WithElement(Tests[p][7])
    BY <1>1, TestsAre, OutlinesAre,
       PipelineRunWithServerStartModelFailedTestFits
  <2>9. Fits(Tests[p][8], Outlines[p][8]) /\ IsSteps(Tests[p][8]) /\ WithElement(Tests[p][8])
    BY <1>1, TestsAre, OutlinesAre,
       PipelineRunWithServerStartModelTimeoutTestFits
  <2>10. Fits(Tests[p][9], Outlines[p][9]) /\ IsSteps(Tests[p][9]) /\ WithElement(Tests[p][9])
    BY <1>1, TestsAre, OutlinesAre,
       PipelineUpdateServerStartModelTestFits
  <2>11. Fits(Tests[p][10], Outlines[p][10]) /\ IsSteps(Tests[p][10]) /\ WithElement(Tests[p][10])
    BY <1>1, TestsAre, OutlinesAre,
       PipelineUpdateServerStartModelErrorTestFits
  <2>12. Fits(Tests[p][11], Outlines[p][11]) /\ IsSteps(Tests[p][11]) /\ WithElement(Tests[p][11])
    BY <1>1, TestsAre, OutlinesAre,
       NoWidthInCapsTestFits
  <2>13. Fits(Tests[p][12], Outlines[p][12]) /\ IsSteps(Tests[p][12]) /\ WithElement(Tests[p][12])
    BY <1>1, TestsAre, OutlinesAre,
       NoHeightInCapsTestFits
  <2>14. Fits(Tests[p][13], Outlines[p][13]) /\ IsSteps(Tests[p][13]) /\ WithElement(Tests[p][13])
    BY <1>1, TestsAre, OutlinesAre,
       NoDimensionsInCapsTestFits
  <2>15. Fits(Tests[p][14], Outlines[p][14]) /\ IsSteps(Tests[p][14]) /\ WithElement(Tests[p][14])
    BY <1>1, TestsAre, OutlinesAre,
       PipelineReadInferenceMetaTestFits
  <2> QED
    BY <1>1, <2>1, <2>2, <2>3, <2>4, <2>5, <2>6, <2>7, <2>8, <2>9, <2>10, <2>11, <2>12,
       <2>13, <2>14, <2>15
<1>2. CASE p = "LookoutVisionInferenceClientTest"
  <2>1. t = 1 \/ (SharedMemory /\ t \in {2, 3})
    <3>1. ASSUME SharedMemory PROVE t \in 1..3
      BY <1>2, <3>1, TestsAre
    <3>2. ASSUME ~SharedMemory PROVE t \in 1..1
      BY <1>2, <3>2, TestsAre
    <3> QED
      BY <3>1, <3>2
  <2>2. Fits(Tests[p][1], Outlines[p][1]) /\ IsSteps(Tests[p][1])
    BY <1>2, TestsAre, OutlinesAre,
       GrpcCallsThrowExceptionTestFits
  <2>3. ASSUME SharedMemory PROVE Fits(Tests[p][2], Outlines[p][2]) /\ IsSteps(Tests[p][2]) /\ WithElement(Tests[p][2])
    BY <2>3, <1>2, TestsAre, OutlinesAre,
       InferenceOnLargeSizeFrameWithSharedMemoryTestFits
  <2>4. ASSUME SharedMemory PROVE Fits(Tests[p][3], Outlines[p][3]) /\ IsSteps(Tests[p][3])
    BY <2>4, <1>2, TestsAre, OutlinesAre,
       ShmOpenErrorTestFits
  <2> QED
    BY <1>2, <2>1, <2>2, <2>3, <2>4
<1> QED
  BY <1>1, <1>2, TestsAre
=============================================================================
