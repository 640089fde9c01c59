-------------------------- MODULE TestSuite_proof ---------------------------
(***************************************************************************)
(* Theorems about the test programs, for both values of SharedMemory: the  *)
(* types of the variables, that no assertion fails and no program dies     *)
(* unless a server was late or stopped too early, and that nothing is left *)
(* to the next test.  The inductive invariant adds to the one of           *)
(* TestFixture_proof that, as long as no server was late, what the         *)
(* outlines of TestOutline_proof claim before each step is the case.       *)
(***************************************************************************)
EXTENDS TestFixture_proof

(* The claims of a row k. *)
CaptureHolds(k) == (capturing <=> k.capture = "on") /\ k.seen \subseteq output
ServerHolds(k) ==
    /\ k.srv \in {"none", "down", "RUNNING", "FAILED"}
    /\ k.srv = "none" => thread = "none"
    /\ k.srv \in {"RUNNING", "FAILED"} =>
          /\ thread \in {"starting", "built", "waiting"}
          /\ service.address = k.addr /\ service.status = k.srv
ElementHolds(k) == k.pipe \in {"NULL", "PLAYING"} =>
    /\ element.model_status_timeout = k.timeout
    /\ element.next = k.next
    /\ element.model_component = "NULL" <=> k.model = "NULL"
BusHolds(k) ==
    /\ k.msg \in {"no", "ERROR", "popped"}
    /\ k.msg = "no" => bus = <<>> \/ (stream = "EOS" /\ bus = <<"EOS">>)
    /\ k.msg = "ERROR" => bus # <<>> /\ Head(bus) = "ERROR"

(* ... while no StartModel is in progress ... *)
StubHolds(k) == k.pipe \in {"NULL", "PLAYING"} =>
    /\ element.server_socket = k.sock
    /\ k.model = "reached" => Listening(k.sock) /\ element.channel = "ready"
StreamHolds(k) ==
    /\ stream \in {"consumer", "pushed", "EOS"} =>
          /\ capturing => ChainPrints(k) \subseteq output
          /\ k.model = "reached" => element.meta = "SUCCESSFUL"
    /\ stream = "consumer" => k.next = "consumer"
    /\ stream \in {"pushed", "EOS"} /\ capturing => ConsumerPrints(k) \subseteq output

(* ... and while one is, for the server at sock. *)
CallHolds(k, sock) ==
    /\ element.server_socket = sock
    /\ calling = "DescribeModel" =>
          /\ left <= k.timeout
          /\ Nobody(k, sock) => "StartModel returned error 14" \in output
          /\ Nobody(k, sock) /\ left < k.timeout =>
                "DescribeModel failed with error 14" \in output

Holds(k) == CaptureHolds(k) /\ ServerHolds(k) /\ ElementHolds(k) /\ BusHolds(k)

(* Until a server is late, the outline is true. *)
OutlineInv == Running /\ ~slow =>
    /\ line <= Len(Body) => Holds(Row)
    /\ line <= Len(Body) /\ calling = "none" => StubHolds(Row) /\ StreamHolds(Row)
    /\ calling # "none" => AfterStartModel(Row, Sock, NextRow) /\ CallHolds(Row, Sock)
    /\ line > Len(Body) => ~capturing

IInv == BaseInv /\ OutlineInv /\ AssertionsHold /\ DiesOnlyOfRaces

-----------------------------------------------------------------------------
(* What holds until a server is late. *)

USE DEF gtest, capture, server, plugin, polling, history

(* The claims before a step of a test. *)
LEMMA Known ==
    ASSUME BaseInv, OutlineInv, Running, ~slow, line \in 1..Len(Body)
    PROVE  /\ CaptureHolds(Row) /\ PlaceHolds(Row) /\ ServerHolds(Row)
           /\ ElementHolds(Row) /\ BusHolds(Row)
           /\ calling = "none" => StubHolds(Row) /\ StreamHolds(Row)
           /\ calling # "none" => AfterStartModel(Row, Sock, NextRow) /\ CallHolds(Row, Sock)
  BY DEF BaseInv, PlaceInv, OutlineInv, Holds

(* What a step leaves alone is still as claimed. *)
LEMMA CaptureKept ==
    ASSUME CaptureHolds(Row), Row'.capture = Row.capture, Row'.seen = Row.seen,
           UNCHANGED capturing, output \subseteq output'
    PROVE  CaptureHolds(Row)'
  BY DEF CaptureHolds

(* ... of the server ...                                                   *)
LEMMA ServerKept ==
    ASSUME ServerHolds(Row), Row'.srv = Row.srv, Row'.addr = Row.addr,
           UNCHANGED <<thread, service>>
    PROVE  ServerHolds(Row)'
  BY DEF ServerHolds

(* ... of the element ...                                                  *)
LEMMA ElementKept ==
    ASSUME ElementHolds(Row), Row'.pipe \in {"NULL", "PLAYING"} => Row.pipe \in {"NULL", "PLAYING"},
           Row'.next = Row.next, Row'.timeout = Row.timeout,
           Row'.model = "NULL" <=> Row.model = "NULL",
           element'.model_status_timeout = element.model_status_timeout,
           element'.next = element.next, element'.model_component = element.model_component
    PROVE  ElementHolds(Row)'
  BY DEF ElementHolds

(* ... of the bus ...                                                      *)
LEMMA BusKept ==
    ASSUME BusHolds(Row), Row'.msg = Row.msg, UNCHANGED <<stream, bus>>
    PROVE  BusHolds(Row)'
  BY DEF BusHolds

(* ... of the client's stub ...                                            *)
LEMMA StubKept ==
    ASSUME StubHolds(Row), Row'.pipe \in {"NULL", "PLAYING"} => Row.pipe \in {"NULL", "PLAYING"},
           Row'.sock = Row.sock, Row'.model = Row.model, UNCHANGED <<thread, service>>,
           element'.server_socket = element.server_socket, element'.channel = element.channel
    PROVE  StubHolds(Row)'
  BY DEF StubHolds, Listening

(* ... and of the stream, which may print more.                            *)
LEMMA StreamKept ==
    ASSUME StreamHolds(Row), Row'.next = Row.next, Row'.model = Row.model,
           element'.meta = element.meta, UNCHANGED stream,
           capturing' => capturing /\ output \subseteq output'
    PROVE  StreamHolds(Row)'
  BY DEF StreamHolds, ChainPrints, ConsumerPrints

(* Of a stream that has not passed the chain function nothing is claimed.  *)
LEMMA NoStream ==
    ASSUME stream' \in {"stopped", "chain"} PROVE StreamHolds(Row)'
  BY DEF StreamHolds

(* A step of a test leads to the next row, one of the fixture keeps stdout *)
(* from being captured.                                                    *)
LEMMA OutlinePasses ==
    ASSUME LineInv, Running, line \in 1..Len(Body), UNCHANGED <<process, test>>,
           line' = line + 1, calling' = "none",
           ~slow' => /\ CaptureHolds(Row)' /\ ServerHolds(Row)' /\ ElementHolds(Row)'
                     /\ BusHolds(Row)' /\ StubHolds(Row)' /\ StreamHolds(Row)'
    PROVE  OutlineInv'
<1>1. /\ Len(Body) \in 1..12 /\ Body' = Body /\ Row' = NextRow
      /\ line = Len(Body) => NextRow.capture = "off"
  BY AtTest, Moves DEF NextRow
<1>2. ASSUME ~slow', line' > Len(Body) PROVE ~capturing'
  <2>1. line = Len(Body)
    BY <1>1, <1>2
  <2> QED
    BY <1>1, <1>2, <2>1 DEF CaptureHolds
<1> QED
  BY <1>1, <1>2 DEF OutlineInv, Holds

(* After the steps of the test the fixture captures nothing.               *)
LEMMA OutlineAfter ==
    ASSUME LineInv, Running, line > Len(Body), UNCHANGED <<process, test, capturing>>,
           line' \in {line, line + 1}, calling' = "none", slow => slow', OutlineInv
    PROVE  OutlineInv'
<1>1. Len(Body) \in 1..12 /\ Body' = Body /\ line \in 1..(Len(Body) + 4)
  BY AtTest, Moves DEF LineInv
<1>2. line' > Len(Body) /\ ~(line' <= Len(Body))
  BY <1>1, PastTest
<1> QED
  BY <1>1, <1>2, Moves DEF OutlineInv

(* Nothing is claimed once a server was late.                              *)
LEMMA OutlineLate == slow' => OutlineInv'
  BY DEF OutlineInv

(* Nothing is claimed of a program that has ended.                         *)
LEMMA OutlineEnds == process' = "none" => OutlineInv'
  BY DEF OutlineInv, Running

(* The steps of gtest and of the server's test program. *)
LEMMA OutlineOfCapture ==
    BaseInv /\ BaseInv' /\ OutlineInv /\ (DoCaptureStdout \/ GetCapturedStdout) => OutlineInv'
<1> SUFFICES ASSUME BaseInv, BaseInv', OutlineInv, DoCaptureStdout \/ GetCapturedStdout
             PROVE  OutlineInv'
  OBVIOUS
<1>0. LineInv
  BY DEF BaseInv
<1>1. CASE DoCaptureStdout
  <2>1. /\ line \in 1..Len(Body) /\ Running /\ calling = "none" /\ slow' = slow
        /\ AfterCaptureStdout(Row, NextRow)
    BY <1>0, <1>1, AtBody, AtStep, RuleOf DEF DoCaptureStdout
  <2>2. CASE Dies
    BY <2>2, OutlineEnds DEF Dies
  <2>3. CASE ~Dies
    <3>1. /\ UNCHANGED <<process, test, thread, service, element, stream, bus, calling>>
          /\ line' = line + 1 /\ capturing' = TRUE /\ output' = {}
      BY <1>1, <2>3 DEF DoCaptureStdout, Passes, Assert
    <3>2. Row' = NextRow
      BY <3>1, Moves
    <3>3. ASSUME ~slow'
          PROVE  /\ CaptureHolds(Row)' /\ ServerHolds(Row)' /\ ElementHolds(Row)'
                 /\ BusHolds(Row)' /\ StubHolds(Row)' /\ StreamHolds(Row)'
      <4>1. PlaceHolds(Row) /\ ServerHolds(Row) /\ BusHolds(Row)
        BY <2>1, <3>3, Known
      <4>2. /\ NextRow.capture = "on" /\ NextRow.seen = {} /\ Row.pipe = "none"
            /\ NextRow.pipe = "none" /\ NextRow.srv = Row.srv /\ NextRow.addr = Row.addr
            /\ NextRow.msg = Row.msg
        BY <2>1 DEF AfterCaptureStdout, Keeps
      <4>3. CaptureHolds(Row)' /\ ElementHolds(Row)' /\ StubHolds(Row)'
        BY <3>1, <3>2, <4>2 DEF CaptureHolds, ElementHolds, StubHolds
      <4>4. ServerHolds(Row)' /\ BusHolds(Row)'
        BY <3>1, <3>2, <4>1, <4>2, ServerKept, BusKept
      <4>5. StreamHolds(Row)'
        BY <3>1, <4>1, <4>2, NoStream DEF PlaceHolds
      <4> QED
        BY <4>3, <4>4, <4>5
    <3> QED
      BY <1>0, <2>1, <3>1, <3>3, OutlinePasses
  <2> QED
    BY <2>2, <2>3
<1>2. CASE GetCapturedStdout
  <2>1. /\ line \in 1..Len(Body) /\ Running /\ calling = "none"
        /\ AfterPrinted(Row, Op.texts, NextRow)
    BY <1>0, <1>2, AtBody, AtStep, RuleOf DEF GetCapturedStdout
  <2>2. /\ UNCHANGED <<process, test, thread, service, element, stream, bus, calling, slow>>
        /\ capturing' = FALSE /\ output' = {}
        /\ Op.texts \subseteq output => line' = line + 1
    BY <1>2 DEF GetCapturedStdout, Assert
  <2>3. ASSUME ~slow'
        PROVE  /\ CaptureHolds(Row)' /\ ServerHolds(Row)' /\ ElementHolds(Row)'
               /\ BusHolds(Row)' /\ StubHolds(Row)' /\ StreamHolds(Row)' /\ line' = line + 1
    <3>1. /\ CaptureHolds(Row) /\ PlaceHolds(Row) /\ ServerHolds(Row) /\ ElementHolds(Row)
          /\ BusHolds(Row) /\ StubHolds(Row) /\ StreamHolds(Row)
      BY <2>1, <2>2, <2>3, Known
    <3>2. /\ NextRow.capture = "off" /\ NextRow.seen = {} /\ Op.texts \subseteq Row.seen
          /\ NextRow.pipe = Row.pipe /\ NextRow.next = Row.next /\ NextRow.srv = Row.srv
          /\ NextRow.addr = Row.addr /\ NextRow.sock = Row.sock /\ NextRow.model = Row.model
          /\ NextRow.timeout = Row.timeout /\ NextRow.msg = Row.msg
      BY <2>1 DEF AfterPrinted, Keeps
    <3>3. line' = line + 1 /\ Row' = NextRow
      BY <2>2, <3>1, <3>2, Moves DEF CaptureHolds
    <3>4. CaptureHolds(Row)'
      BY <2>2, <3>2, <3>3 DEF CaptureHolds
    <3>5. ServerHolds(Row)' /\ ElementHolds(Row)' /\ BusHolds(Row)'
      BY <2>2, <3>1, <3>2, <3>3, ServerKept, ElementKept, BusKept
    <3>6. StubHolds(Row)' /\ StreamHolds(Row)'
      BY <2>2, <3>1, <3>2, <3>3, StubKept, StreamKept
    <3> QED
      BY <3>3, <3>4, <3>5, <3>6
  <2> QED
    BY <1>0, <2>1, <2>2, <2>3, OutlinePasses, OutlineLate
<1> QED
  BY <1>1, <1>2

(* RunServerInBackground leaves a thread, Shutdown and join none, as the   *)
(* rows say.                                                               *)
LEMMA OutlineOfServer ==
    BaseInv /\ BaseInv' /\ OutlineInv /\ (RunServerInBackground \/ Shutdown \/ Join)
        => OutlineInv'
<1> SUFFICES ASSUME BaseInv, BaseInv', OutlineInv, RunServerInBackground \/ Shutdown \/ Join
             PROVE  OutlineInv'
  OBVIOUS
<1>0. LineInv /\ ServerInv
  BY DEF BaseInv
<1>1. CASE RunServerInBackground
  <2>1. /\ line \in 1..Len(Body) /\ Running /\ calling = "none" /\ slow' = slow
        /\ AfterRunServer(Row, Op.address, Op.status, NextRow)
    BY <1>0, <1>1, AtBody, AtStep, RuleOf DEF RunServerInBackground
  <2>2. CASE Dies
    BY <2>2, OutlineEnds DEF Dies
  <2>3. CASE ~Dies
    <3>1. /\ UNCHANGED <<process, test, capturing, output, element, stream, bus, calling>>
          /\ line' = line + 1 /\ thread' = "starting"
          /\ service' = [address |-> Op.address, status |-> Op.status]
      BY <1>1, <2>3 DEF RunServerInBackground, Passes, Assert
    <3>2. Row' = NextRow
      BY <3>1, Moves
    <3>3. ASSUME ~slow'
          PROVE  /\ CaptureHolds(Row)' /\ ServerHolds(Row)' /\ ElementHolds(Row)'
                 /\ BusHolds(Row)' /\ StubHolds(Row)' /\ StreamHolds(Row)'
      <4>1. /\ CaptureHolds(Row) /\ PlaceHolds(Row) /\ ElementHolds(Row) /\ BusHolds(Row)
            /\ StubHolds(Row)
        BY <2>1, <3>3, Known
      <4>2. /\ NextRow.capture = Row.capture /\ NextRow.seen = Row.seen
            /\ NextRow.pipe = Row.pipe /\ NextRow.next = Row.next /\ Row.pipe # "PLAYING"
            /\ NextRow.sock = Row.sock /\ NextRow.model = Row.model /\ Row.model # "reached"
            /\ NextRow.timeout = Row.timeout /\ NextRow.msg = Row.msg
            /\ NextRow.srv = Op.status /\ NextRow.addr = Op.address
            /\ Op.status \in {"RUNNING", "FAILED"}
        BY <2>1 DEF AfterRunServer, Keeps
      <4>3. CaptureHolds(Row)' /\ ElementHolds(Row)' /\ BusHolds(Row)'
        BY <3>1, <3>2, <4>1, <4>2, CaptureKept, ElementKept, BusKept
      <4>4. ServerHolds(Row)'
        BY <3>1, <3>2, <4>2 DEF ServerHolds
      <4>5. StubHolds(Row)'
        BY <3>1, <3>2, <4>1, <4>2 DEF StubHolds
      <4>6. StreamHolds(Row)'
        BY <3>1, <4>1, <4>2, NoStream DEF PlaceHolds
      <4> QED
        BY <4>3, <4>4, <4>5, <4>6
    <3> QED
      BY <1>0, <2>1, <3>1, <3>3, OutlinePasses
  <2> QED
    BY <2>2, <2>3
<1>2. CASE Shutdown
  <2>1. CASE Dies
    BY <2>1, OutlineEnds DEF Dies
  <2>2. CASE ~Dies
    <3>1. /\ UNCHANGED <<process, test, capturing, output, element, stream, bus, calling>>
          /\ line' = line + 1 /\ slow' = slow /\ Running /\ calling = "none"
      BY <1>0, <1>2, <2>2, AtStep DEF Shutdown, Passes, Assert
    <3>2. CASE line \in 1..Len(Body)
      <4>1. AfterShutdown(Row, NextRow) /\ Row' = NextRow
        BY <1>0, <1>2, <3>1, <3>2, AtStep, RuleOf, Moves DEF Shutdown
      <4>2. /\ NextRow.capture = Row.capture /\ NextRow.seen = Row.seen
            /\ NextRow.pipe = Row.pipe /\ NextRow.next = Row.next /\ Row.pipe # "PLAYING"
            /\ NextRow.sock = Row.sock /\ NextRow.model # "reached"
            /\ (NextRow.model = "NULL" <=> Row.model = "NULL")
            /\ NextRow.timeout = Row.timeout /\ NextRow.msg = Row.msg /\ NextRow.srv = "down"
        BY <4>1 DEF AfterShutdown, Keeps
      <4>3. ASSUME ~slow'
            PROVE  /\ CaptureHolds(Row)' /\ ServerHolds(Row)' /\ ElementHolds(Row)'
                   /\ BusHolds(Row)' /\ StubHolds(Row)' /\ StreamHolds(Row)'
        <5>1. /\ CaptureHolds(Row) /\ PlaceHolds(Row) /\ ElementHolds(Row) /\ BusHolds(Row)
              /\ StubHolds(Row)
          BY <3>1, <3>2, <4>3, Known
        <5>2. CaptureHolds(Row)' /\ ElementHolds(Row)' /\ BusHolds(Row)'
          BY <3>1, <4>1, <4>2, <5>1, CaptureKept, ElementKept, BusKept
        <5>3. ServerHolds(Row)' /\ StubHolds(Row)'
          BY <3>1, <4>1, <4>2, <5>1 DEF ServerHolds, StubHolds
        <5>4. StreamHolds(Row)'
          BY <3>1, <4>2, <5>1, NoStream DEF PlaceHolds
        <5> QED
          BY <5>2, <5>3, <5>4
      <4> QED
        BY <1>0, <3>1, <3>2, <4>3, OutlinePasses
    <3>3. CASE line \notin 1..Len(Body)
      <4>1. line > Len(Body)
        BY <1>0, <1>2, <3>3, AtStep DEF Shutdown
      <4> QED
        BY <1>0, <3>1, <4>1, OutlineAfter
    <3> QED
      BY <3>2, <3>3
  <2> QED
    BY <2>1, <2>2
<1>3. CASE Join
  <2>1. /\ UNCHANGED <<process, test, capturing, output, service, element, stream, bus, calling>>
        /\ line' = line + 1 /\ slow' = slow /\ Running /\ calling = "none"
    BY <1>0, <1>3, AtStep DEF Join, Passes, Assert
  <2>2. thread' = "none"
    BY <1>0, <1>3 DEF Join, ServerInv
  <2>3. CASE line \in 1..Len(Body)
    <3>1. AfterJoin(Row, NextRow) /\ Row' = NextRow
      BY <1>0, <1>3, <2>1, <2>3, AtStep, RuleOf, Moves DEF Join
    <3>2. /\ NextRow.capture = Row.capture /\ NextRow.seen = Row.seen
          /\ NextRow.pipe = Row.pipe /\ NextRow.next = Row.next
          /\ NextRow.sock = Row.sock /\ NextRow.model = Row.model /\ Row.model # "reached"
          /\ NextRow.timeout = Row.timeout /\ NextRow.msg = Row.msg /\ NextRow.srv = "none"
      BY <3>1 DEF AfterJoin, Keeps
    <3>3. ASSUME ~slow'
          PROVE  /\ CaptureHolds(Row)' /\ ServerHolds(Row)' /\ ElementHolds(Row)'
                 /\ BusHolds(Row)' /\ StubHolds(Row)' /\ StreamHolds(Row)'
      <4>1. /\ CaptureHolds(Row) /\ ElementHolds(Row) /\ BusHolds(Row)
            /\ StubHolds(Row) /\ StreamHolds(Row)
        BY <2>1, <2>3, <3>3, Known
      <4>2. CaptureHolds(Row)' /\ ElementHolds(Row)' /\ BusHolds(Row)' /\ StreamHolds(Row)'
        BY <2>1, <3>1, <3>2, <4>1, CaptureKept, ElementKept, BusKept, StreamKept
      <4>3. ServerHolds(Row)' /\ StubHolds(Row)'
        BY <2>1, <2>2, <3>1, <3>2, <4>1 DEF ServerHolds, StubHolds
      <4> QED
        BY <4>2, <4>3
    <3> QED
      BY <1>0, <2>1, <2>3, <3>3, OutlinePasses
  <2>4. CASE line \notin 1..Len(Body)
    <3>1. line > Len(Body)
      BY <1>0, <1>3, <2>4, AtStep DEF Join
    <3> QED
      BY <1>0, <2>1, <3>1, OutlineAfter
  <2> QED
    BY <2>3, <2>4
<1> QED
  BY <1>1, <1>2, <1>3

(* The steps of the element and the pipeline, as the test takes them.      *)
LEMMA OutlineOfElement ==
    BaseInv /\ BaseInv' /\ OutlineInv /\ (MakeElement \/ LinkPipeline \/ UnrefElement)
        => OutlineInv'
<1> SUFFICES ASSUME BaseInv, BaseInv', OutlineInv, MakeElement \/ LinkPipeline \/ UnrefElement
             PROVE  OutlineInv'
  OBVIOUS
<1>0. LineInv
  BY DEF BaseInv
<1>1. ASSUME MakeElement \/ LinkPipeline, NEW next, NEW pipe,
             AfterMake(Row, next, pipe, NextRow), element' = NewElement(next),
             line \in 1..Len(Body), Running, line' = line + 1, calling = "none"
      PROVE  OutlineInv'
  <2>1. /\ UNCHANGED <<process, test, capturing, output, thread, service, stream, bus>>
        /\ UNCHANGED <<calling, slow>>
    BY <1>1 DEF MakeElement, LinkPipeline, Passes, Assert
  <2>2. Row' = NextRow
    BY <1>1, <2>1, Moves
  <2>3. ASSUME ~slow'
        PROVE  /\ CaptureHolds(Row)' /\ ServerHolds(Row)' /\ ElementHolds(Row)'
               /\ BusHolds(Row)' /\ StubHolds(Row)' /\ StreamHolds(Row)'
    <3>1. CaptureHolds(Row) /\ PlaceHolds(Row) /\ ServerHolds(Row) /\ BusHolds(Row)
      BY <1>1, <2>1, <2>3, Known
    <3>2. /\ NextRow.capture = Row.capture /\ NextRow.seen = Row.seen /\ Row.pipe = "none"
          /\ NextRow.srv = Row.srv /\ NextRow.addr = Row.addr /\ NextRow.msg = Row.msg
          /\ NextRow.next = next /\ NextRow.sock = Default
          /\ NextRow.timeout = 180 /\ NextRow.model = "NULL"
      BY <1>1 DEF AfterMake, Keeps
    <3>3. /\ element'.server_socket = Default /\ element'.model_component = "NULL"
          /\ element'.model_status_timeout = 180 /\ element'.next = next
      BY <1>1 DEF NewElement
    <3>4. CaptureHolds(Row)' /\ ServerHolds(Row)' /\ BusHolds(Row)'
      BY <2>1, <2>2, <3>1, <3>2, CaptureKept, ServerKept, BusKept
    <3>5. ElementHolds(Row)' /\ StubHolds(Row)'
      BY <2>2, <3>2, <3>3 DEF ElementHolds, StubHolds
    <3>6. StreamHolds(Row)'
      BY <2>1, <3>1, <3>2, NoStream DEF PlaceHolds
    <3> QED
      BY <3>4, <3>5, <3>6
  <2> QED
    BY <1>0, <1>1, <2>1, <2>3, OutlinePasses
<1>2. CASE MakeElement
  <2>1. /\ line \in 1..Len(Body) /\ Running /\ calling = "none"
        /\ AfterMake(Row, "sink", "bare", NextRow)
    BY <1>0, <1>2, AtBody, AtStep, RuleOf DEF MakeElement
  <2>2. line' = line + 1 /\ element' = NewElement("sink")
    BY <1>2 DEF MakeElement, Passes, Assert
  <2> QED
    BY <1>1, <1>2, <2>1, <2>2
<1>3. CASE LinkPipeline
  <2>1. /\ line \in 1..Len(Body) /\ Running /\ calling = "none"
        /\ AfterMake(Row, Op.next, "NULL", NextRow)
        /\ Op.format \in {"any", "RGB"} <=> Op.expected = "linked"
    BY <1>0, <1>3, AtBody, AtStep, RuleOf DEF LinkPipeline
  <2>2. line' = line + 1 /\ element' = NewElement(Op.next)
    BY <1>3, <2>1 DEF LinkPipeline, Assert
  <2> QED
    BY <1>1, <1>3, <2>1, <2>2
<1>4. CASE UnrefElement
  <2>1. /\ line \in 1..Len(Body) /\ Running /\ calling = "none"
        /\ AfterUnref(Row, NextRow)
    BY <1>0, <1>4, AtBody, AtStep, RuleOf DEF UnrefElement
  <2>2. /\ UNCHANGED <<process, test, capturing, output, thread, service, element, stream, bus>>
        /\ UNCHANGED <<calling, slow>> /\ line' = line + 1
    BY <1>4 DEF UnrefElement, Passes, Assert
  <2>3. Row' = NextRow
    BY <2>2, Moves
  <2>4. ASSUME ~slow'
        PROVE  /\ CaptureHolds(Row)' /\ ServerHolds(Row)' /\ ElementHolds(Row)'
               /\ BusHolds(Row)' /\ StubHolds(Row)' /\ StreamHolds(Row)'
    <3>1. CaptureHolds(Row) /\ PlaceHolds(Row) /\ ServerHolds(Row) /\ BusHolds(Row)
      BY <2>1, <2>2, <2>4, Known
    <3>2. /\ NextRow.capture = Row.capture /\ NextRow.seen = Row.seen /\ Row.pipe = "bare"
          /\ NextRow.srv = Row.srv /\ NextRow.addr = Row.addr /\ NextRow.msg = Row.msg
          /\ NextRow.pipe = "none"
      BY <2>1 DEF AfterUnref, Keeps
    <3>3. CaptureHolds(Row)' /\ ServerHolds(Row)' /\ BusHolds(Row)'
      BY <2>2, <2>3, <3>1, <3>2, CaptureKept, ServerKept, BusKept
    <3>4. ElementHolds(Row)' /\ StubHolds(Row)'
      BY <2>3, <3>2 DEF ElementHolds, StubHolds
    <3>5. StreamHolds(Row)'
      BY <2>2, <3>1, <3>2, NoStream DEF PlaceHolds
    <3> QED
      BY <3>3, <3>4, <3>5
  <2> QED
    BY <1>0, <2>1, <2>2, <2>4, OutlinePasses
<1> QED
  BY <1>2, <1>3, <1>4

(* A timeout, a reading of the properties, the caps of a buffer and        *)
(* PLAYING change just what their rows say.                                *)
LEMMA OutlineOfProperties ==
    BaseInv /\ BaseInv' /\ OutlineInv
    /\ (SetModelStatusTimeout \/ GetProperties \/ SetCaps \/ PlayPipeline) => OutlineInv'
<1> SUFFICES ASSUME BaseInv, BaseInv', OutlineInv,
                    SetModelStatusTimeout \/ GetProperties \/ SetCaps \/ PlayPipeline
             PROVE  OutlineInv'
  OBVIOUS
<1>0. LineInv /\ element \in Element
  BY DEF BaseInv, RecordInv
<1>1. CASE SetModelStatusTimeout
  <2>1. /\ line \in 1..Len(Body) /\ Running /\ calling = "none"
        /\ Op.property = "model-status-timeout" /\ AfterTimeout(Row, Op.value, NextRow)
    BY <1>0, <1>1, AtBody, AtStep, RuleOf DEF SetModelStatusTimeout
  <2>2. /\ UNCHANGED <<process, test, capturing, output, thread, service, stream, bus>>
        /\ UNCHANGED <<calling, slow>> /\ line' = line + 1
        /\ element' = [element EXCEPT !.model_status_timeout = Op.value]
    BY <1>1 DEF SetModelStatusTimeout, Passes, Assert
  <2>3. Row' = NextRow
    BY <2>2, Moves
  <2>4. ASSUME ~slow'
        PROVE  /\ CaptureHolds(Row)' /\ ServerHolds(Row)' /\ ElementHolds(Row)'
               /\ BusHolds(Row)' /\ StubHolds(Row)' /\ StreamHolds(Row)'
    <3>1. /\ CaptureHolds(Row) /\ PlaceHolds(Row) /\ ServerHolds(Row) /\ BusHolds(Row)
          /\ ElementHolds(Row) /\ StubHolds(Row)
      BY <2>1, <2>2, <2>4, Known
    <3>2. /\ NextRow.capture = Row.capture /\ NextRow.seen = Row.seen /\ Row.pipe = "NULL"
          /\ NextRow.srv = Row.srv /\ NextRow.addr = Row.addr /\ NextRow.msg = Row.msg
          /\ NextRow.pipe = Row.pipe /\ NextRow.next = Row.next /\ NextRow.sock = Row.sock
          /\ NextRow.model = Row.model /\ NextRow.timeout = Op.value
      BY <2>1 DEF AfterTimeout, Keeps
    <3>3. /\ element'.server_socket = element.server_socket
          /\ element'.model_component = element.model_component
          /\ element'.channel = element.channel
          /\ element'.model_status_timeout = Op.value /\ element'.next = element.next
      BY <1>0, <2>2 DEF Element
    <3>4. CaptureHolds(Row)' /\ ServerHolds(Row)' /\ BusHolds(Row)'
      BY <2>2, <2>3, <3>1, <3>2, CaptureKept, ServerKept, BusKept
    <3>5. ElementHolds(Row)' /\ StubHolds(Row)'
      BY <2>2, <2>3, <3>1, <3>2, <3>3 DEF ElementHolds, StubHolds, Listening
    <3>6. StreamHolds(Row)'
      BY <2>2, <3>1, <3>2, NoStream DEF PlaceHolds
    <3> QED
      BY <3>4, <3>5, <3>6
  <2> QED
    BY <1>0, <2>1, <2>2, <2>4, OutlinePasses
<1>2. CASE GetProperties
  <2>1. /\ line \in 1..Len(Body) /\ Running /\ calling = "none"
        /\ AfterGet(Row, Op.server_socket, Op.model_component, Op.timeout, NextRow)
    BY <1>0, <1>2, AtBody, AtStep, RuleOf DEF GetProperties
  <2>2. CASE Dies
    BY <2>2, OutlineEnds DEF Dies
  <2>3. CASE ~Dies
    <3>1. /\ UNCHANGED <<process, test, capturing, output, thread, service, element>>
          /\ UNCHANGED <<stream, bus, calling, slow>>
          /\ element.server_socket = Op.server_socket /\
             element.model_component = Op.model_component /\
             element.model_status_timeout = Op.timeout => line' = line + 1
      BY <1>2, <2>3 DEF GetProperties, Assert
    <3>2. ASSUME ~slow'
          PROVE  /\ CaptureHolds(Row)' /\ ServerHolds(Row)' /\ ElementHolds(Row)'
                 /\ BusHolds(Row)' /\ StubHolds(Row)' /\ StreamHolds(Row)' /\ line' = line + 1
      <4>1. /\ CaptureHolds(Row) /\ ServerHolds(Row) /\ BusHolds(Row)
            /\ ElementHolds(Row) /\ StubHolds(Row) /\ StreamHolds(Row)
        BY <2>1, <3>1, <3>2, Known
      <4>2. /\ NextRow.capture = Row.capture /\ NextRow.seen = Row.seen /\ Row.pipe = "NULL"
            /\ NextRow.srv = Row.srv /\ NextRow.addr = Row.addr /\ NextRow.msg = Row.msg
            /\ NextRow.pipe = Row.pipe /\ NextRow.next = Row.next /\ NextRow.sock = Row.sock
            /\ NextRow.model = Row.model /\ NextRow.timeout = Row.timeout
            /\ Op.server_socket = Row.sock /\ Op.model_component = "SampleModel"
            /\ Op.timeout = Row.timeout /\ Row.model # "NULL"
        BY <2>1 DEF AfterGet, Keeps
      <4>3. element.model_component \in {"NULL", "SampleModel"}
        BY <1>0 DEF Element
      <4>4. line' = line + 1
        BY <3>1, <4>1, <4>2, <4>3 DEF ElementHolds, StubHolds
      <4>5. Row' = NextRow
        BY <3>1, <4>4, Moves
      <4>6. CaptureHolds(Row)' /\ ServerHolds(Row)' /\ ElementHolds(Row)' /\ BusHolds(Row)'
        BY <3>1, <4>1, <4>2, <4>5, CaptureKept, ServerKept, ElementKept, BusKept
      <4>7. StubHolds(Row)' /\ StreamHolds(Row)'
        BY <3>1, <4>1, <4>2, <4>5, StubKept, StreamKept
      <4> QED
        BY <4>4, <4>6, <4>7
    <3> QED
      BY <1>0, <2>1, <3>1, <3>2, OutlinePasses, OutlineLate
  <2> QED
    BY <2>2, <2>3
<1>3. CASE SetCaps
  <2>1. /\ line \in 1..Len(Body) /\ Running /\ calling = "none"
        /\ AfterCaps(Row, Op.dims, NextRow)
    BY <1>0, <1>3, AtBody, AtStep, RuleOf DEF SetCaps
  <2> DEFINE texts == IF {"width", "height"} \subseteq Op.dims THEN {} ELSE NoDimensions
  <2>2. /\ UNCHANGED <<process, test, capturing, thread, service, element, stream, bus>>
        /\ UNCHANGED <<calling, slow>> /\ line' = line + 1
        /\ output \subseteq output' /\ (capturing => texts \subseteq output')
    BY <1>3 DEF SetCaps, Passes, Assert, Prints
  <2>3. Row' = NextRow
    BY <2>2, Moves
  <2>4. /\ NextRow.capture = Row.capture /\ Row.pipe = "bare" /\ Row.capture = "on"
        /\ NextRow.srv = Row.srv /\ NextRow.addr = Row.addr /\ NextRow.msg = Row.msg
        /\ NextRow.pipe = Row.pipe /\ NextRow.seen \subseteq Row.seen \cup texts
    BY <2>1 DEF AfterCaps, Keeps
  <2> HIDE DEF texts
  <2>5. ASSUME ~slow'
        PROVE  /\ CaptureHolds(Row)' /\ ServerHolds(Row)' /\ ElementHolds(Row)'
               /\ BusHolds(Row)' /\ StubHolds(Row)' /\ StreamHolds(Row)'
    <3>1. CaptureHolds(Row) /\ PlaceHolds(Row) /\ ServerHolds(Row) /\ BusHolds(Row)
      BY <2>1, <2>2, <2>5, Known
    <3>2. CaptureHolds(Row)'
      BY <2>2, <2>3, <2>4, <3>1 DEF CaptureHolds
    <3>3. ServerHolds(Row)' /\ BusHolds(Row)'
      BY <2>2, <2>3, <2>4, <3>1, ServerKept, BusKept
    <3>4. ElementHolds(Row)' /\ StubHolds(Row)'
      BY <2>3, <2>4 DEF ElementHolds, StubHolds
    <3>5. StreamHolds(Row)'
      BY <2>2, <2>4, <3>1, NoStream DEF PlaceHolds
    <3> QED
      BY <3>2, <3>3, <3>4, <3>5
  <2> QED
    BY <1>0, <2>1, <2>2, <2>5, OutlinePasses
<1>4. CASE PlayPipeline
  <2>1. /\ line \in 1..Len(Body) /\ Running /\ calling = "none" /\ AfterPlay(Row, NextRow)
    BY <1>0, <1>4, AtBody, AtStep, RuleOf DEF PlayPipeline
  <2>2. /\ UNCHANGED <<process, test, capturing, output, thread, service, element, bus>>
        /\ UNCHANGED <<calling, slow>> /\ line' = line + 1 /\ stream' = "chain"
    BY <1>4 DEF PlayPipeline, Passes, Assert
  <2>3. Row' = NextRow
    BY <2>2, Moves
  <2>4. /\ NextRow.capture = Row.capture /\ NextRow.seen = Row.seen /\ Row.pipe = "NULL"
        /\ NextRow.srv = Row.srv /\ NextRow.addr = Row.addr /\ NextRow.msg = Row.msg
        /\ NextRow.next = Row.next /\ NextRow.sock = Row.sock
        /\ NextRow.model = Row.model /\ NextRow.timeout = Row.timeout
    BY <2>1 DEF AfterPlay, Keeps
  <2>5. ASSUME ~slow'
        PROVE  /\ CaptureHolds(Row)' /\ ServerHolds(Row)' /\ ElementHolds(Row)'
               /\ BusHolds(Row)' /\ StubHolds(Row)' /\ StreamHolds(Row)'
    <3>1. /\ CaptureHolds(Row) /\ PlaceHolds(Row) /\ ServerHolds(Row) /\ BusHolds(Row)
          /\ ElementHolds(Row) /\ StubHolds(Row)
      BY <2>1, <2>2, <2>5, Known
    <3>2. CaptureHolds(Row)' /\ ServerHolds(Row)'
      BY <2>2, <2>3, <2>4, <3>1, CaptureKept, ServerKept
    <3>3. stream = "stopped"
      BY <2>4, <3>1 DEF PlaceHolds
    <3>4. BusHolds(Row)'
      BY <2>2, <2>3, <2>4, <3>1, <3>3 DEF BusHolds
    <3>5. ElementHolds(Row)' /\ StubHolds(Row)'
      BY <2>2, <2>3, <2>4, <3>1, ElementKept, StubKept
    <3>6. StreamHolds(Row)'
      BY <2>2, NoStream
    <3> QED
      BY <3>2, <3>4, <3>5, <3>6
  <2> QED
    BY <1>0, <2>1, <2>2, <2>5, OutlinePasses
<1> QED
  BY <1>1, <1>2, <1>3, <1>4

(* gst_bus_timed_pop_filtered takes the message that the row before it     *)
(* announces.                                                              *)
LEMMA OutlineOfPop == BaseInv /\ BaseInv' /\ OutlineInv /\ PopMessage => OutlineInv'
<1> SUFFICES ASSUME BaseInv, BaseInv', OutlineInv, PopMessage PROVE OutlineInv'
  OBVIOUS
<1>0. LineInv /\ element \in Element
  BY DEF BaseInv, RecordInv
<1>1. /\ line \in 1..Len(Body) /\ Running /\ calling = "none"
      /\ AfterPop(Row, Op.expected, NextRow)
  BY <1>0, AtBody, AtStep, RuleOf DEF PopMessage
<1>2. /\ UNCHANGED <<process, test, capturing, output, thread, service, stream>>
      /\ UNCHANGED <<calling, slow>> /\ bus # <<>>
      /\ Head(bus) = Op.expected => line' = line + 1
  BY DEF PopMessage, Assert
<1>4. /\ element'.server_socket = element.server_socket
      /\ element'.channel = element.channel /\ element'.meta = element.meta
      /\ element'.model_status_timeout = element.model_status_timeout
      /\ element'.next = element.next /\ element'.model_component = element.model_component
  BY <1>0 DEF PopMessage, Element
<1>3. ASSUME ~slow'
      PROVE  /\ CaptureHolds(Row)' /\ ServerHolds(Row)' /\ ElementHolds(Row)'
             /\ BusHolds(Row)' /\ StubHolds(Row)' /\ StreamHolds(Row)' /\ line' = line + 1
  <2>1. /\ CaptureHolds(Row) /\ ServerHolds(Row) /\ BusHolds(Row)
        /\ ElementHolds(Row) /\ StubHolds(Row) /\ StreamHolds(Row)
    BY <1>1, <1>2, <1>3, Known
  <2>2. /\ NextRow.capture = Row.capture /\ Row.capture = "on"
        /\ NextRow.srv = Row.srv /\ NextRow.addr = Row.addr /\ NextRow.msg = "popped"
        /\ NextRow.pipe = Row.pipe /\ NextRow.next = Row.next /\ NextRow.sock = Row.sock
        /\ NextRow.model = Row.model /\ NextRow.timeout = Row.timeout
    BY <1>1 DEF AfterPop, Keeps
  <2>3. Head(bus) = Op.expected /\ NextRow.seen \subseteq output
    <3>1. CASE Op.expected = "ERROR" /\ Row.msg = "ERROR" /\ NextRow.seen = Row.seen
      BY <2>1, <3>1 DEF BusHolds, CaptureHolds
    <3>2. CASE /\ Op.expected = "EOS" /\ Row.msg = "no"
               /\ NextRow.seen \subseteq Row.seen \cup ChainPrints(Row) \cup ConsumerPrints(Row)
      <4>1. stream = "EOS" /\ bus = <<"EOS">>
        BY <1>2, <2>1, <3>2 DEF BusHolds
      <4>2. /\ Row.seen \subseteq output /\ ChainPrints(Row) \subseteq output
            /\ ConsumerPrints(Row) \subseteq output
        BY <2>1, <2>2, <4>1 DEF CaptureHolds, StreamHolds
      <4> QED
        BY <3>2, <4>1, <4>2
    <3> QED
      BY <1>1, <3>1, <3>2 DEF AfterPop
  <2>4. line' = line + 1 /\ Row' = NextRow
    BY <1>2, <2>3, Moves
  <2>5. CaptureHolds(Row)' /\ BusHolds(Row)'
    BY <1>2, <2>1, <2>2, <2>3, <2>4 DEF CaptureHolds, BusHolds
  <2>6. ServerHolds(Row)' /\ ElementHolds(Row)'
    BY <1>2, <1>4, <2>1, <2>2, <2>4, ServerKept, ElementKept
  <2>7. StubHolds(Row)' /\ StreamHolds(Row)'
    BY <1>2, <1>4, <2>1, <2>2, <2>4, StubKept, StreamKept
  <2> QED
    BY <2>4, <2>5, <2>6, <2>7
<1> QED
  BY <1>0, <1>1, <1>2, <1>3, OutlinePasses, OutlineLate

(* No segment is left when shm_open_error_test begins, unless a test failed.*)
LEMMA NoSegment == BaseInv /\ At("ShmReadOnly") => ~shm \/ failed
<1> SUFFICES ASSUME BaseInv, At("ShmReadOnly") PROVE ~shm \/ failed
  OBVIOUS
<1>0. LineInv /\ PlaceInv /\ ShmInv
  BY DEF BaseInv
<1>1. /\ line \in 1..Len(Body) /\ Running /\ AfterClientAlone(Row, NextRow)
      /\ process = "LookoutVisionInferenceClientTest" /\ test = 3
  BY <1>0, AtBody, AtStep, RuleOf, FirstSteps
<1>2. pipeline = "none"
  BY <1>0, <1>1 DEF PlaceInv, PlaceHolds, AfterClientAlone
<1> QED
  BY <1>0, <1>1, <1>2 DEF ShmInv

(* The tests of the client alone have no element and no server.            *)
LEMMA OutlineOfClientAlone ==
    BaseInv /\ OutlineInv /\ AssertionsHold /\ (CallsThrow \/ ShmOpenFails) => OutlineInv'
<1> SUFFICES ASSUME BaseInv, OutlineInv, AssertionsHold, CallsThrow \/ ShmOpenFails
             PROVE  OutlineInv'
  OBVIOUS
<1>0. LineInv /\ (failed => slow)
  BY DEF BaseInv, AssertionsHold
<1>1. /\ line \in 1..Len(Body) /\ Running /\ calling = "none"
      /\ AfterClientAlone(Row, NextRow)
  BY <1>0, AtBody, AtStep, RuleOf DEF CallsThrow, ShmOpenFails
<1>2. /\ UNCHANGED <<process, test, capturing, output, thread, service, element, stream, bus>>
      /\ UNCHANGED <<calling, slow>> /\ (~slow => line' = line + 1)
  BY <1>0, NoSegment DEF CallsThrow, ShmOpenFails, Passes, Assert
<1>3. ~slow => Row' = NextRow
  BY <1>2, Moves
<1>4. ASSUME ~slow'
      PROVE  /\ CaptureHolds(Row)' /\ ServerHolds(Row)' /\ ElementHolds(Row)'
             /\ BusHolds(Row)' /\ StubHolds(Row)' /\ StreamHolds(Row)' /\ line' = line + 1
  <2>1. /\ CaptureHolds(Row) /\ ServerHolds(Row) /\ BusHolds(Row)
        /\ ElementHolds(Row) /\ StubHolds(Row) /\ StreamHolds(Row)
    BY <1>1, <1>2, <1>4, Known
  <2>2. /\ NextRow.capture = Row.capture /\ NextRow.seen = Row.seen
        /\ NextRow.srv = Row.srv /\ NextRow.addr = Row.addr /\ NextRow.msg = Row.msg
        /\ NextRow.pipe = Row.pipe /\ NextRow.next = Row.next /\ NextRow.sock = Row.sock
        /\ NextRow.model = Row.model /\ NextRow.timeout = Row.timeout
    BY <1>1 DEF AfterClientAlone, Keeps
  <2>3. line' = line + 1 /\ Row' = NextRow
    BY <1>2, <1>3, <1>4
  <2>4. CaptureHolds(Row)' /\ ServerHolds(Row)' /\ ElementHolds(Row)' /\ BusHolds(Row)'
    BY <1>2, <2>1, <2>2, <2>3, CaptureKept, ServerKept, ElementKept, BusKept
  <2>5. StubHolds(Row)' /\ StreamHolds(Row)'
    BY <1>2, <2>1, <2>2, <2>3, StubKept, StreamKept
  <2> QED
    BY <2>3, <2>4, <2>5
<1> QED
  BY <1>0, <1>1, <1>2, <1>4, OutlinePasses, OutlineLate

(* The fixture drops the pipeline.                                         *)
LEMMA OutlineOfTearDown ==
    BaseInv /\ OutlineInv /\ TearDownPipeline => OutlineInv'
<1> SUFFICES ASSUME BaseInv, OutlineInv, TearDownPipeline PROVE OutlineInv'
  OBVIOUS
<1>0. LineInv
  BY DEF BaseInv
<1>1. /\ line = Len(Body) + 1 /\ Running /\ calling = "none" /\ Len(Body) \in 1..12
  BY <1>0, AtTearDown, AtStep DEF TearDownPipeline
<1>2. /\ UNCHANGED <<process, test, capturing, calling, slow>> /\ line' = line + 1
  BY DEF TearDownPipeline, Passes, Assert
<1>3. line > Len(Body)
  BY <1>1
<1> QED
  BY <1>0, <1>1, <1>2, <1>3, OutlineAfter

(* StartModel inside set_property. *)
LEMMA StartModelBegins ==
    ASSUME BaseInv, OutlineInv, Running, line \in 1..Len(Body),
           UNCHANGED <<process, test, line, capturing, output, thread, service, stream, bus, slow>>,
           calling = "none", calling' = "StartModel",
           ~slow => AfterStartModel(Row, Sock, NextRow),
           element'.server_socket = Sock \/ slow,
           element'.model_status_timeout = element.model_status_timeout,
           element'.next = element.next, element'.model_component = element.model_component
    PROVE  OutlineInv'
<1>1. Row' = Row /\ NextRow' = NextRow /\ Sock' = Sock /\ Body' = Body
  BY Moves
<1>2. ASSUME ~slow'
      PROVE  /\ Holds(Row)' /\ AfterStartModel(Row, Sock, NextRow)' /\ CallHolds(Row, Sock)'
  <2>1. CaptureHolds(Row) /\ ServerHolds(Row) /\ ElementHolds(Row) /\ BusHolds(Row)
    BY <1>2, Known
  <2>2. CaptureHolds(Row)' /\ ServerHolds(Row)'
    BY <1>1, <2>1, CaptureKept, ServerKept
  <2>3. ElementHolds(Row)' /\ BusHolds(Row)'
    BY <1>1, <2>1, ElementKept, BusKept
  <2>4. AfterStartModel(Row, Sock, NextRow)'
    BY <1>1, <1>2
  <2>5. CallHolds(Row, Sock)'
    BY <1>1, <1>2 DEF CallHolds
  <2> QED
    BY <2>2, <2>3, <2>4, <2>5 DEF Holds
<1>3. ~(line' > Len(Body)')
  <2>1. Len(Body) \in 1..12
    BY AtTest DEF BaseInv
  <2> QED
    BY <1>1, <2>1
<1> QED
  BY <1>2, <1>3 DEF OutlineInv

(* Setting server-socket or model-component makes the stub or starts       *)
(* StartModel.                                                             *)
LEMMA OutlineOfSetters ==
    BaseInv /\ BaseInv' /\ OutlineInv /\ (SetServerSocket \/ SetModelComponent) => OutlineInv'
<1> SUFFICES ASSUME BaseInv, BaseInv', OutlineInv, SetServerSocket \/ SetModelComponent
             PROVE  OutlineInv'
  OBVIOUS
<1>0. LineInv /\ element \in Element
  BY DEF BaseInv, RecordInv
<1>1. CASE SetServerSocket
  <2>1. /\ line \in 1..Len(Body) /\ Running /\ calling = "none" /\ Op = Body[line]
        /\ Op.property = "server-socket" /\ AfterServerSocket(Row, Op.value, NextRow)
    BY <1>0, <1>1, AtBody, AtStep, RuleOf DEF SetServerSocket
  <2>2. /\ UNCHANGED <<process, test, capturing, output, thread, service, stream, bus, slow>>
        /\ element' = [element EXCEPT !.server_socket = Op.value, !.channel = "new"]
    BY <1>1 DEF SetServerSocket, Passes, Stays, Assert
  <2>3. /\ element'.server_socket = Op.value
        /\ element'.model_component = element.model_component
        /\ element'.model_status_timeout = element.model_status_timeout
        /\ element'.next = element.next
    BY <1>0, <2>2 DEF Element
  <2>4. Sock = Op.value
    BY <2>1 DEF Sock
  <2>5. CASE element.model_component # "NULL"
    <3>1. line' = line /\ calling' = "StartModel"
      BY <1>1, <2>5 DEF SetServerSocket, Stays
    <3>2. ASSUME ~slow PROVE AfterStartModel(Row, Sock, NextRow)
      <4>1. ElementHolds(Row)
        BY <2>1, <3>2, Known
      <4> QED
        BY <2>1, <2>4, <2>5, <4>1 DEF AfterServerSocket, ElementHolds
    <3> QED
      BY <2>1, <2>2, <2>3, <2>4, <3>1, <3>2, StartModelBegins
  <2>6. CASE element.model_component = "NULL"
    <3>1. line' = line + 1 /\ calling' = calling
      BY <1>1, <2>6 DEF SetServerSocket, Passes, Assert
    <3>2. Row' = NextRow
      BY <2>2, <3>1, Moves
    <3>3. ASSUME ~slow'
          PROVE  /\ CaptureHolds(Row)' /\ ServerHolds(Row)' /\ ElementHolds(Row)'
                 /\ BusHolds(Row)' /\ StubHolds(Row)' /\ StreamHolds(Row)'
      <4>1. /\ CaptureHolds(Row) /\ PlaceHolds(Row) /\ ServerHolds(Row) /\ BusHolds(Row)
            /\ ElementHolds(Row) /\ StubHolds(Row)
        BY <2>1, <2>2, <3>3, Known
      <4>2. Row.pipe = "NULL" /\ Row.model = "NULL"
        BY <2>1, <2>6, <4>1 DEF AfterServerSocket, AfterStartModel, ElementHolds
      <4>3. /\ NextRow.capture = Row.capture /\ NextRow.seen = Row.seen
            /\ NextRow.srv = Row.srv /\ NextRow.addr = Row.addr /\ NextRow.msg = Row.msg
            /\ NextRow.pipe = Row.pipe /\ NextRow.next = Row.next /\ NextRow.sock = Op.value
            /\ NextRow.model = Row.model /\ NextRow.timeout = Row.timeout
        BY <2>1, <4>2 DEF AfterServerSocket, Keeps
      <4>4. CaptureHolds(Row)' /\ ServerHolds(Row)' /\ BusHolds(Row)' /\ ElementHolds(Row)'
        BY <2>2, <2>3, <3>2, <4>1, <4>3, CaptureKept, ServerKept, BusKept, ElementKept
      <4>5. StubHolds(Row)'
        BY <2>3, <3>2, <4>2, <4>3 DEF StubHolds
      <4>6. StreamHolds(Row)'
        BY <2>2, <4>1, <4>2, NoStream DEF PlaceHolds
      <4> QED
        BY <4>4, <4>5, <4>6
    <3> QED
      BY <1>0, <2>1, <2>2, <3>1, <3>3, OutlinePasses
  <2> QED
    BY <2>5, <2>6
<1>2. CASE SetModelComponent
  <2>1. /\ line \in 1..Len(Body) /\ Running /\ calling = "none" /\ Op = Body[line]
        /\ Op.property = "model-component" /\ AfterStartModel(Row, Row.sock, NextRow)
    BY <1>0, <1>2, AtBody, AtStep, RuleOf DEF SetModelComponent
  <2>2. /\ UNCHANGED <<process, test, line, capturing, output, thread, service, element>>
        /\ UNCHANGED <<stream, bus, slow>> /\ calling' = "StartModel"
    BY <1>2 DEF SetModelComponent, Stays
  <2>3. Sock = Row.sock
    BY <2>1 DEF Sock
  <2>4. ASSUME ~slow PROVE element.server_socket = Sock
    BY <2>1, <2>3, <2>4, Known DEF AfterStartModel, StubHolds
  <2> QED
    BY <2>1, <2>2, <2>3, <2>4, StartModelBegins
<1> QED
  BY <1>1, <1>2

(* A call fails when the outline says that nobody listens. *)
LEMMA NobodyListens ==
    ASSUME ServerHolds(Row), AfterStartModel(Row, Sock, NextRow), CallHolds(Row, Sock),
           Nobody(Row, Sock)
    PROVE  ~Rpc(TRUE)
<1>1. ~Listening(element.server_socket)
  BY DEF ServerHolds, AfterStartModel, CallHolds, Nobody, Listening
<1> QED
  BY <1>1 DEF Rpc

(* The model is reached only where the outline says so. *)
LEMMA CallReaches ==
    ASSUME ServerHolds(Row), ElementHolds(Row), AfterStartModel(Row, Sock, NextRow),
           CallHolds(Row, Sock), RecordInv, left \in -4..600,
           calling = "DescribeModel", left > 0, Rpc(TRUE), service.status = "RUNNING"
    PROVE  Reaches(Row, Sock) /\ Listening(Sock)
<1>1. Listening(Sock)
  BY DEF Rpc, CallHolds
<1>2. Row.srv = "RUNNING" /\ Row.addr = Sock
  BY <1>1 DEF Listening, ServerHolds, AfterStartModel
<1>3. element.model_status_timeout \in 0..600
  BY DEF RecordInv, Element
<1>4. Row.timeout = element.model_status_timeout /\ left <= Row.timeout
  BY DEF AfterStartModel, ElementHolds, CallHolds
<1>5. Row.timeout > 0
  BY <1>3, <1>4
<1> QED
  BY <1>1, <1>2, <1>5 DEF Reaches

(* The arithmetic of the polling loop: five seconds off a time that may    *)
(* already be used up.                                                     *)
LEMMA Countdown ==
    ASSUME NEW t \in 0..600, NEW l \in -4..600
    PROVE  /\ t <= t /\ ~(t < t)
           /\ l <= t => l - 5 <= t
           /\ l <= 0 /\ t > 0 => l < t
  OBVIOUS

(* An answer that leaves StartModel in progress. *)
LEMMA StartModelGoesOn ==
    ASSUME BaseInv, OutlineInv, Running, calling # "none", calling' = "DescribeModel",
           UNCHANGED <<process, test, line, capturing, thread, service, stream, bus, slow>>,
           output \subseteq output',
           element'.server_socket = element.server_socket,
           element'.model_status_timeout = element.model_status_timeout,
           element'.next = element.next, element'.model_component = element.model_component,
           ~slow => /\ left' <= Row.timeout
                    /\ Nobody(Row, Sock) => "StartModel returned error 14" \in output'
                    /\ Nobody(Row, Sock) /\ left' < Row.timeout =>
                          "DescribeModel failed with error 14" \in output'
    PROVE  OutlineInv'
<1>1. Row' = Row /\ NextRow' = NextRow /\ Sock' = Sock /\ Body' = Body
  BY Moves
<1>2. Len(Body) \in 1..12 /\ line \in 1..Len(Body)
  BY AtCall DEF BaseInv
<1>3. ASSUME ~slow'
      PROVE  /\ Holds(Row)' /\ AfterStartModel(Row, Sock, NextRow)' /\ CallHolds(Row, Sock)'
  <2>1. /\ CaptureHolds(Row) /\ ServerHolds(Row) /\ ElementHolds(Row) /\ BusHolds(Row)
        /\ AfterStartModel(Row, Sock, NextRow) /\ CallHolds(Row, Sock)
    BY <1>2, <1>3, Known
  <2>2. CaptureHolds(Row)' /\ ServerHolds(Row)'
    BY <1>1, <2>1, CaptureKept, ServerKept
  <2>3. ElementHolds(Row)' /\ BusHolds(Row)'
    BY <1>1, <2>1, ElementKept, BusKept
  <2>4. AfterStartModel(Row, Sock, NextRow)'
    BY <1>1, <2>1
  <2>5. Nobody(Row, Sock)' <=> Nobody(Row, Sock)
    BY <1>1 DEF Nobody
  <2>6. CallHolds(Row, Sock)'
    BY <1>1, <1>3, <2>1, <2>5 DEF CallHolds
  <2> QED
    BY <2>2, <2>3, <2>4, <2>6 DEF Holds
<1>4. ~(line' > Len(Body)')
  <2>1. ~(line > Len(Body))
    BY <1>2, InTest
  <2> QED
    BY <1>1, <2>1
<1> QED
  BY <1>3, <1>4 DEF OutlineInv

(* Answers to StartModel and DescribeModel, with or without a server       *)
(* behind them, keep the claims.                                           *)
LEMMA OutlineOfAnswer ==
    ASSUME BaseInv, BaseInv', OutlineInv, NEW ok \in BOOLEAN,
           StartModelReturns(ok) \/ DescribeModelReturns(ok)
    PROVE  OutlineInv'
<1>0. /\ LineInv /\ RecordInv /\ element \in Element /\ left \in -4..600
      /\ Channel(ok) \in {"ready", "failed"} /\ PlaceInv
  BY DEF BaseInv, RecordInv, TypeOK, Channel
<1>4. element.model_status_timeout \in 0..600
  BY <1>0 DEF Element
<1>1. /\ calling # "none" /\ Running /\ line \in 1..Len(Body)
  BY <1>0, AtCall DEF StartModelReturns, DescribeModelReturns
<1>2. CASE StartModelReturns(ok)
  <2>1. /\ UNCHANGED <<process, test, line, capturing, thread, service, stream, bus, slow>>
        /\ calling' = "DescribeModel" /\ left' = element.model_status_timeout
        /\ element' = [element EXCEPT !.channel = Channel(ok)]
        /\ output \subseteq output' /\ Rpc(ok)
        /\ ~ok /\ capturing => "StartModel returned error 14" \in output'
    BY <1>2 DEF StartModelReturns, Stays, Prints
  <2>2. /\ element'.server_socket = element.server_socket
        /\ element'.model_component = element.model_component
        /\ element'.model_status_timeout = element.model_status_timeout
        /\ element'.next = element.next
    <3>1. PICK c : element' = [element EXCEPT !.channel = c]
      BY <2>1
    <3>2. element \in Element
      BY <1>0
    <3> QED
      BY <3>1, <3>2 DEF Element
  <2>3. ASSUME ~slow
        PROVE  /\ left' <= Row.timeout /\ ~(left' < Row.timeout)
               /\ Nobody(Row, Sock) => "StartModel returned error 14" \in output'
    <3>1. /\ CaptureHolds(Row) /\ ServerHolds(Row) /\ ElementHolds(Row)
          /\ AfterStartModel(Row, Sock, NextRow) /\ CallHolds(Row, Sock)
      BY <1>1, <2>3, Known
    <3>2. Row.timeout = element.model_status_timeout /\ capturing
      BY <3>1 DEF ElementHolds, AfterStartModel, CaptureHolds
    <3>3. Nobody(Row, Sock) => ~ok
      BY <2>1, <3>1, NobodyListens
    <3>4. left' = Row.timeout /\ Row.timeout \in 0..600
      BY <1>4, <2>1, <3>2
    <3>5. ~(left' < Row.timeout) /\ left' <= Row.timeout
      BY <3>4, Countdown
    <3> QED
      BY <2>1, <3>2, <3>3, <3>5
  <2> QED
    BY <1>1, <2>1, <2>2, <2>3, StartModelGoesOn
<1>3. CASE DescribeModelReturns(ok)
  <2>1. /\ UNCHANGED <<process, test, capturing, thread, service, stream, bus, slow>>
        /\ calling = "DescribeModel" /\ left > 0 /\ Rpc(ok) /\ output \subseteq output'
        /\ ~ok /\ capturing => "DescribeModel failed with error 14" \in output'
    BY <1>3 DEF DescribeModelReturns, Stays, Passes, Assert, Prints
  <2>2. CASE ~(ok /\ service.status = "RUNNING")
    <3>1. /\ UNCHANGED <<line, calling>> /\ left' = left - 5
          /\ element' = [element EXCEPT !.channel = Channel(ok)]
      BY <1>3, <2>2 DEF DescribeModelReturns, Stays
    <3>2. /\ element'.server_socket = element.server_socket
          /\ element'.model_component = element.model_component
          /\ element'.model_status_timeout = element.model_status_timeout
          /\ element'.next = element.next
      BY <1>0, <3>1 DEF Element
    <3>3. ASSUME ~slow
          PROVE  /\ left' <= Row.timeout
                 /\ Nobody(Row, Sock) => /\ "StartModel returned error 14" \in output'
                                         /\ "DescribeModel failed with error 14" \in output'
      <4>1. /\ CaptureHolds(Row) /\ ServerHolds(Row) /\ ElementHolds(Row)
            /\ AfterStartModel(Row, Sock, NextRow) /\ CallHolds(Row, Sock)
        BY <1>1, <3>3, Known
      <4>2. Row.timeout = element.model_status_timeout /\ capturing
        BY <4>1 DEF ElementHolds, AfterStartModel, CaptureHolds
      <4>3. left <= Row.timeout /\ Row.timeout \in 0..600
        BY <1>4, <2>1, <4>1, <4>2 DEF CallHolds
      <4>4. left' <= Row.timeout
        BY <1>0, <3>1, <4>3, Countdown
      <4>5. Nobody(Row, Sock) => ~ok
        BY <2>1, <4>1, NobodyListens
      <4>6. Nobody(Row, Sock) => "StartModel returned error 14" \in output
        BY <2>1, <4>1 DEF CallHolds
      <4> QED
        BY <2>1, <4>2, <4>4, <4>5, <4>6
    <3> QED
      BY <1>1, <2>1, <3>1, <3>2, <3>3, StartModelGoesOn
  <2>3. CASE ok /\ service.status = "RUNNING"
    <3>1. /\ line' = line + 1 /\ calling' = "none" /\ output' = output
          /\ element' = [element EXCEPT !.channel = "ready", !.model_component = "SampleModel"]
      BY <1>3, <2>3 DEF DescribeModelReturns, Passes, Assert, Prints
    <3>2. /\ element'.server_socket = element.server_socket
          /\ element'.model_component = "SampleModel" /\ element'.channel = "ready"
          /\ element'.model_status_timeout = element.model_status_timeout
          /\ element'.next = element.next
      BY <1>0, <3>1 DEF Element
    <3>3. Row' = NextRow
      BY <2>1, <3>1, Moves
    <3>4. ASSUME ~slow'
          PROVE  /\ CaptureHolds(Row)' /\ ServerHolds(Row)' /\ ElementHolds(Row)'
                 /\ BusHolds(Row)' /\ StubHolds(Row)' /\ StreamHolds(Row)'
      <4>1. /\ CaptureHolds(Row) /\ PlaceHolds(Row) /\ ServerHolds(Row) /\ ElementHolds(Row)
            /\ BusHolds(Row) /\ AfterStartModel(Row, Sock, NextRow) /\ CallHolds(Row, Sock)
        BY <1>1, <2>1, <3>4, Known
      <4>2. Reaches(Row, Sock) /\ Listening(Sock)
        BY <1>0, <2>1, <2>3, <4>1, CallReaches
      <4>3. /\ NextRow.capture = Row.capture /\ NextRow.seen = Row.seen /\ Row.pipe = "NULL"
            /\ NextRow.srv = Row.srv /\ NextRow.addr = Row.addr /\ NextRow.msg = Row.msg
            /\ NextRow.pipe = Row.pipe /\ NextRow.next = Row.next /\ NextRow.sock = Sock
            /\ NextRow.model = "reached" /\ NextRow.timeout = Row.timeout
        BY <4>1, <4>2 DEF AfterStartModel, Keeps
      <4>4. CaptureHolds(Row)' /\ ServerHolds(Row)' /\ BusHolds(Row)'
        BY <2>1, <3>1, <3>3, <4>1, <4>3, CaptureKept, ServerKept, BusKept
      <4>5. ElementHolds(Row)'
        BY <3>2, <3>3, <4>1, <4>3 DEF ElementHolds
      <4>6. StubHolds(Row)'
        BY <2>1, <3>2, <3>3, <4>1, <4>2, <4>3 DEF StubHolds, Listening, CallHolds
      <4>7. StreamHolds(Row)'
        BY <2>1, <4>1, <4>3, NoStream DEF PlaceHolds
      <4> QED
        BY <4>4, <4>5, <4>6, <4>7
    <3> QED
      BY <1>0, <1>1, <2>1, <3>1, <3>4, OutlinePasses
  <2> QED
    BY <2>2, <2>3
<1> QED
  BY <1>2, <1>3

(* The error of a model that was not reached, with what was printed.       *)
LEMMA OutlineOfFailure ==
    BaseInv /\ BaseInv' /\ OutlineInv /\ StartModelFails => OutlineInv'
<1> SUFFICES ASSUME BaseInv, BaseInv', OutlineInv, StartModelFails PROVE OutlineInv'
  OBVIOUS
<1>0. /\ LineInv /\ element \in Element /\ left \in -4..600 /\ bus \in Seq({"ERROR", "EOS"})
  BY DEF BaseInv, RecordInv, TypeOK
<1>5. element.model_status_timeout \in 0..600
  BY <1>0 DEF Element
<1>1. /\ calling = "DescribeModel" /\ Running /\ line \in 1..Len(Body)
  BY <1>0, AtCall DEF StartModelFails
<1>2. /\ UNCHANGED <<process, test, capturing, thread, service, element, stream>>
      /\ line' = line + 1 /\ calling' = "none" /\ bus' = Append(bus, "ERROR")
      /\ output \subseteq output' /\ left <= 0 /\ (slow => slow')
      /\ capturing => NotReached \subseteq output'
  BY DEF StartModelFails, Passes, Assert, Prints
<1>3. Row' = NextRow
  BY <1>2, Moves
<1>4. ASSUME ~slow'
      PROVE  /\ CaptureHolds(Row)' /\ ServerHolds(Row)' /\ ElementHolds(Row)'
             /\ BusHolds(Row)' /\ StubHolds(Row)' /\ StreamHolds(Row)'
  <2>1. /\ CaptureHolds(Row) /\ PlaceHolds(Row) /\ ServerHolds(Row) /\ ElementHolds(Row)
        /\ BusHolds(Row) /\ AfterStartModel(Row, Sock, NextRow) /\ CallHolds(Row, Sock)
    BY <1>1, <1>2, <1>4, Known
  <2>2. ~Reaches(Row, Sock)
    <3>1. ASSUME Reaches(Row, Sock)
          PROVE  /\ thread \in {"starting", "built", "waiting"}
                 /\ service.status = "RUNNING" /\ service.address = element.server_socket
                 /\ element.model_status_timeout > 0
      BY <2>1, <3>1 DEF Reaches, ServerHolds, ElementHolds, AfterStartModel, CallHolds
    <3> QED
      BY <1>4, <3>1 DEF StartModelFails
  <2>3. /\ NextRow.capture = Row.capture /\ Row.pipe = "NULL" /\ Row.msg # "popped"
        /\ NextRow.srv = Row.srv /\ NextRow.addr = Row.addr /\ NextRow.msg = "ERROR"
        /\ NextRow.pipe = Row.pipe /\ NextRow.next = Row.next /\ NextRow.sock = Sock
        /\ NextRow.model # "reached" /\ (NextRow.model = "NULL" <=> Row.model = "NULL")
        /\ NextRow.timeout = Row.timeout /\ Row.capture = "on"
        /\ NextRow.seen \subseteq Row.seen \cup FailurePrints(Row, Sock)
    BY <2>1, <2>2 DEF AfterStartModel, Keeps
  <2>4. FailurePrints(Row, Sock) \subseteq output'
    <3>1. capturing /\ Row.timeout = element.model_status_timeout
      BY <2>1, <2>3 DEF CaptureHolds, ElementHolds
    <3>2. Row.timeout > 0 => left < Row.timeout
      BY <1>0, <1>2, <1>5, <3>1, Countdown
    <3> QED
      BY <1>1, <1>2, <2>1, <3>1, <3>2 DEF FailurePrints, CallHolds
  <2>5. CaptureHolds(Row)'
    BY <1>2, <1>3, <2>1, <2>3, <2>4 DEF CaptureHolds
  <2>6. ServerHolds(Row)' /\ ElementHolds(Row)'
    BY <1>2, <1>3, <2>1, <2>3, ServerKept, ElementKept
  <2>7. BusHolds(Row)'
    <3>1. stream = "stopped"
      BY <2>1, <2>3 DEF PlaceHolds
    <3>2. bus = <<>> \/ (bus # <<>> /\ Head(bus) = "ERROR")
      BY <2>1, <2>3, <3>1 DEF BusHolds
    <3>3. bus' # <<>> /\ Head(bus') = "ERROR"
      BY <1>0, <1>2, <3>2
    <3> QED
      BY <1>3, <2>3, <3>3 DEF BusHolds
  <2>8. StubHolds(Row)'
    BY <1>2, <1>3, <2>1, <2>3 DEF StubHolds, CallHolds
  <2>9. StreamHolds(Row)'
    BY <1>2, <2>1, <2>3, NoStream DEF PlaceHolds
  <2> QED
    BY <2>5, <2>6, <2>7, <2>8, <2>9
<1> QED
  BY <1>0, <1>1, <1>2, <1>4, OutlinePasses

(* The other two threads, whose steps stay in the row. *)
LEMMA OutlineStays ==
    ASSUME BaseInv, OutlineInv, Running, UNCHANGED <<process, test, line, capturing, calling, slow>>,
           ~slow /\ line \in 1..Len(Body) =>
              /\ Holds(Row)'
              /\ calling = "none" => StubHolds(Row)' /\ StreamHolds(Row)'
              /\ calling # "none" => CallHolds(Row, Sock)'
    PROVE  OutlineInv'
<1>1. Row' = Row /\ NextRow' = NextRow /\ Sock' = Sock /\ Body' = Body /\ Running'
  BY Moves
<1>2. LineInv /\ Len(Body) \in 1..12 /\ line \in 1..(Len(Body) + 4)
  BY AtTest DEF BaseInv, LineInv
<1>3. line \in 1..Len(Body) \/ line > Len(Body)
  BY <1>2
<1>4. CASE line > Len(Body)
  <2>1. calling = "none"
    BY <1>2, <1>4, AtCall, InTest
  <2> QED
    BY <1>2, <1>4, <2>1, OutlineAfter
<1>5. CASE line \in 1..Len(Body)
  <2>1. ~(line > Len(Body))
    BY <1>2, <1>5, InTest
  <2>2. ASSUME ~slow
        PROVE  calling # "none" => AfterStartModel(Row, Sock, NextRow)'
    <3>1. calling # "none" => AfterStartModel(Row, Sock, NextRow)
      BY <1>5, <2>2, Known
    <3> QED
      BY <1>1, <3>1
  <2> QED
    BY <1>1, <1>5, <2>1, <2>2 DEF OutlineInv
<1> QED
  BY <1>3, <1>4, <1>5

(* The server thread may be anywhere between its start and its wait; a     *)
(* server that listened still does.                                        *)
LEMMA OutlineOfServerThread ==
    BaseInv /\ OutlineInv /\ RunServerThread => OutlineInv'
<1> SUFFICES ASSUME BaseInv, OutlineInv, RunServerThread PROVE OutlineInv'
  OBVIOUS
<1>1. /\ UNCHANGED <<process, test, line, capturing, output, calling, slow, left>>
      /\ UNCHANGED <<element, service, stream, bus>> /\ Running
      /\ \/ thread = "starting" /\ thread' = "built"
         \/ thread = "built" /\ thread' = "waiting"
         \/ thread = "shutdown" /\ thread' = "returned"
  BY DEF RunServerThread, BuildAndStart, StoreServer, WaitReturns, Stays, Running
<1>2. Row' = Row /\ Sock' = Sock
  BY <1>1, Moves
<1>3. ASSUME ~slow, line \in 1..Len(Body)
      PROVE  /\ Holds(Row)'
             /\ calling = "none" => StubHolds(Row)' /\ StreamHolds(Row)'
             /\ calling # "none" => CallHolds(Row, Sock)'
  <2>1. /\ CaptureHolds(Row) /\ ServerHolds(Row) /\ ElementHolds(Row) /\ BusHolds(Row)
        /\ calling = "none" => StubHolds(Row) /\ StreamHolds(Row)
        /\ calling # "none" => CallHolds(Row, Sock)
    BY <1>1, <1>3, Known
  <2>2. CaptureHolds(Row)' /\ ElementHolds(Row)' /\ BusHolds(Row)'
    BY <1>1, <1>2, <2>1, CaptureKept, ElementKept, BusKept
  <2>3. ServerHolds(Row)'
    BY <1>1, <1>2, <2>1 DEF ServerHolds
  <2>4. calling = "none" => StubHolds(Row)' /\ StreamHolds(Row)'
    <3>1. ASSUME StubHolds(Row) PROVE StubHolds(Row)'
      BY <1>1, <1>2, <3>1 DEF StubHolds, Listening
    <3> QED
      BY <1>1, <1>2, <2>1, <3>1, StreamKept
  <2>5. calling # "none" => CallHolds(Row, Sock)'
    <3>1. Nobody(Row, Sock)' <=> Nobody(Row, Sock)
      BY <1>2 DEF Nobody
    <3> QED
      BY <1>1, <1>2, <2>1, <3>1 DEF CallHolds
  <2> QED
    BY <2>2, <2>3, <2>4, <2>5 DEF Holds
<1> QED
  BY <1>1, <1>3, OutlineStays

(* Frames flow in a pipeline that plays, and no StartModel is in progress. *)
LEMMA Flowing ==
    ASSUME BaseInv, OutlineInv, Running, ~slow, line \in 1..Len(Body), stream # "stopped"
    PROVE  /\ Row.pipe = "PLAYING" /\ calling = "none"
           /\ CaptureHolds(Row) /\ ServerHolds(Row) /\ ElementHolds(Row) /\ BusHolds(Row)
           /\ StubHolds(Row) /\ StreamHolds(Row)
<1>1. Row.pipe = "PLAYING"
  BY Known DEF PlaceHolds
<1>2. calling = "none"
  BY <1>1, Known DEF AfterStartModel
<1> QED
  BY <1>1, <1>2, Known

(* The chain function prints and writes the metadata that the row of a     *)
(* reached, or of a missing, server claims.                                *)
LEMMA OutlineOfChain ==
    ASSUME BaseInv, BaseInv', OutlineInv, NEW ok \in BOOLEAN, Chain(ok)
    PROVE  OutlineInv'
<1>0. element \in Element
  BY DEF BaseInv, RecordInv
<1> DEFINE texts == IF ok THEN Anomaly ELSE CallFailed
<1>1. /\ UNCHANGED <<process, test, line, capturing, calling, slow, left>>
      /\ UNCHANGED <<thread, service, bus>> /\ Running /\ stream = "chain"
      /\ output \subseteq output' /\ (capturing => texts \subseteq output')
      /\ stream' = IF element.next = "consumer" THEN "consumer" ELSE "pushed"
  BY DEF Chain, Stays, Prints, Running
<1>2. Row' = Row /\ Sock' = Sock
  BY <1>1, Moves
<1>3. ASSUME ~slow, line \in 1..Len(Body)
      PROVE  /\ Holds(Row)' /\ StubHolds(Row)' /\ StreamHolds(Row)' /\ calling = "none"
  <2>1. /\ Row.pipe = "PLAYING" /\ calling = "none"
        /\ CaptureHolds(Row) /\ ServerHolds(Row) /\ ElementHolds(Row) /\ BusHolds(Row)
        /\ StubHolds(Row)
    BY <1>1, <1>3, Flowing
  <2>2. Row.model = "NULL" => ~ok
    BY <2>1 DEF Chain, ElementHolds
  <2>3. Row.model = "reached" => ok
    BY <2>1 DEF Chain, ElementHolds, StubHolds, Rpc
  <2>4. /\ element'.server_socket = element.server_socket
        /\ element'.model_component = element.model_component
        /\ element'.model_status_timeout = element.model_status_timeout
        /\ element'.next = element.next
        /\ Row.model = "reached" => element'.channel = "ready" /\ element'.meta = "SUCCESSFUL"
    <3>1. CASE element.model_component = "NULL"
      <4>1. element' = [element EXCEPT !.meta = "FAILED"] /\ Row.model # "reached"
        BY <2>1, <3>1 DEF Chain, ElementHolds
      <4> QED
        BY <1>0, <4>1 DEF Element
    <3>2. CASE element.model_component # "NULL"
      <4>1. PICK c, v : /\ element' = [element EXCEPT !.channel = c, !.meta = v]
                        /\ ok => c = "ready" /\ v = "SUCCESSFUL"
        BY <3>2 DEF Chain, Channel
      <4> QED
        BY <1>0, <2>3, <4>1 DEF Element
    <3> QED
      BY <3>1, <3>2
  <2>5. CaptureHolds(Row)' /\ ServerHolds(Row)' /\ ElementHolds(Row)'
    BY <1>1, <1>2, <2>1, <2>4, CaptureKept, ServerKept, ElementKept
  <2>6. BusHolds(Row)'
    BY <1>1, <1>2, <2>1 DEF BusHolds
  <2>7. StubHolds(Row)'
    BY <1>1, <1>2, <2>1, <2>4 DEF StubHolds, Listening
  <2>8. StreamHolds(Row)'
    <3>1. capturing => ChainPrints(Row) \subseteq output'
      BY <1>1, <2>2, <2>3 DEF ChainPrints
    <3>2. element.next = Row.next
      BY <2>1 DEF ElementHolds
    <3>3. Row.next # "consumer" => ConsumerPrints(Row) = {}
      BY DEF ConsumerPrints
    <3>4. /\ stream' \in {"consumer", "pushed"} /\ (stream' = "consumer" <=> Row.next = "consumer")
      BY <1>1, <3>2
    <3> HIDE DEF texts
    <3>5. ChainPrints(Row)' = ChainPrints(Row) /\ ConsumerPrints(Row)' = ConsumerPrints(Row)
      BY <1>2 DEF ChainPrints, ConsumerPrints
    <3> QED
      BY <1>1, <1>2, <2>4, <3>1, <3>3, <3>4, <3>5 DEF StreamHolds
  <2> QED
    BY <2>1, <2>5, <2>6, <2>7, <2>8 DEF Holds
<1> QED
  BY <1>1, <1>3, OutlineStays

(* The consumer prints what the metadata says.                             *)
LEMMA OutlineOfConsumer ==
    BaseInv /\ OutlineInv /\ InferenceConsumerChain => OutlineInv'
<1> SUFFICES ASSUME BaseInv, OutlineInv, InferenceConsumerChain PROVE OutlineInv'
  OBVIOUS
<1>1. /\ UNCHANGED <<process, test, line, capturing, calling, slow, left>>
      /\ UNCHANGED <<thread, service, bus, element>> /\ Running /\ stream = "consumer"
      /\ output \subseteq output' /\ stream' = "pushed"
      /\ capturing /\ element.meta = "SUCCESSFUL" => Received \subseteq output'
  BY DEF InferenceConsumerChain, Stays, Prints, Running
<1>2. Row' = Row /\ Sock' = Sock
  BY <1>1, Moves
<1>3. ASSUME ~slow, line \in 1..Len(Body)
      PROVE  /\ Holds(Row)' /\ StubHolds(Row)' /\ StreamHolds(Row)' /\ calling = "none"
  <2>1. /\ Row.pipe = "PLAYING" /\ calling = "none"
        /\ CaptureHolds(Row) /\ ServerHolds(Row) /\ ElementHolds(Row) /\ BusHolds(Row)
        /\ StubHolds(Row) /\ StreamHolds(Row)
    BY <1>1, <1>3, Flowing
  <2>2. CaptureHolds(Row)' /\ ServerHolds(Row)' /\ ElementHolds(Row)'
    BY <1>1, <1>2, <2>1, CaptureKept, ServerKept, ElementKept
  <2>3. BusHolds(Row)' /\ StubHolds(Row)'
    BY <1>1, <1>2, <2>1, StubKept DEF BusHolds
  <2>4. StreamHolds(Row)'
    <3>1. /\ capturing => ChainPrints(Row) \subseteq output
          /\ Row.model = "reached" => element.meta = "SUCCESSFUL"
      BY <1>1, <2>1 DEF StreamHolds
    <3>2. capturing => ConsumerPrints(Row) \subseteq output'
      BY <1>1, <3>1 DEF ConsumerPrints
    <3>3. ChainPrints(Row)' = ChainPrints(Row) /\ ConsumerPrints(Row)' = ConsumerPrints(Row)
      BY <1>2 DEF ChainPrints, ConsumerPrints
    <3> QED
      BY <1>1, <1>2, <3>1, <3>2, <3>3 DEF StreamHolds
  <2> QED
    BY <2>1, <2>2, <2>3, <2>4 DEF Holds
<1> QED
  BY <1>1, <1>3, OutlineStays

(* The end of the stream posts the message the row claims.                 *)
LEMMA OutlineOfEndOfStream ==
    BaseInv /\ OutlineInv /\ EndOfStream => OutlineInv'
<1> SUFFICES ASSUME BaseInv, OutlineInv, EndOfStream PROVE OutlineInv'
  OBVIOUS
<1>0. bus \in Seq({"ERROR", "EOS"})
  BY DEF BaseInv, TypeOK
<1>1. /\ UNCHANGED <<process, test, line, capturing, calling, slow, left>>
      /\ UNCHANGED <<thread, service, output, element>> /\ Running /\ stream = "pushed"
      /\ bus' = Append(bus, "EOS") /\ stream' = "EOS"
  BY DEF EndOfStream, Stays, Running
<1>2. Row' = Row /\ Sock' = Sock
  BY <1>1, Moves
<1>3. ASSUME ~slow, line \in 1..Len(Body)
      PROVE  /\ Holds(Row)' /\ StubHolds(Row)' /\ StreamHolds(Row)' /\ calling = "none"
  <2>1. /\ Row.pipe = "PLAYING" /\ calling = "none"
        /\ CaptureHolds(Row) /\ ServerHolds(Row) /\ ElementHolds(Row) /\ BusHolds(Row)
        /\ StubHolds(Row) /\ StreamHolds(Row)
    BY <1>1, <1>3, Flowing
  <2>2. CaptureHolds(Row)' /\ ServerHolds(Row)' /\ ElementHolds(Row)' /\ StubHolds(Row)'
    BY <1>1, <1>2, <2>1, CaptureKept, ServerKept, ElementKept, StubKept
  <2>3. BusHolds(Row)'
    <3>1. bus = <<>> => bus' = <<"EOS">>
      BY <1>1
    <3>2. bus # <<>> /\ Head(bus) = "ERROR" => bus' # <<>> /\ Head(bus') = "ERROR"
      BY <1>0, <1>1
    <3> QED
      BY <1>1, <1>2, <2>1, <3>1, <3>2 DEF BusHolds
  <2>4. StreamHolds(Row)'
    <3>1. ChainPrints(Row)' = ChainPrints(Row) /\ ConsumerPrints(Row)' = ConsumerPrints(Row)
      BY <1>2 DEF ChainPrints, ConsumerPrints
    <3> QED
      BY <1>1, <1>2, <2>1, <3>1 DEF StreamHolds
  <2> QED
    BY <2>1, <2>2, <2>3, <2>4 DEF Holds
<1> QED
  BY <1>1, <1>3, OutlineStays

(* A test begins with nothing known. *)
LEMMA OutlineBegins ==
    ASSUME BaseInv', line' = 1, Running', ~capturing', calling' = "none"
    PROVE  OutlineInv'
<1>1. /\ LineInv' /\ thread' = "none" /\ stream' = "stopped" /\ bus' = <<>>
  BY DEF BaseInv, FixtureInv
<1>2. Row' = Fresh /\ Len(Body)' \in 1..12
  BY <1>1, FirstRow
<1>3. /\ Row'.capture = "off" /\ Row'.seen = {} /\ Row'.pipe = "none" /\ Row'.srv = "none"
      /\ Row'.msg = "no"
  BY <1>2 DEF Fresh, Knows
<1>4. Holds(Row)' /\ StubHolds(Row)'
  BY <1>1, <1>3 DEF Holds, CaptureHolds, ServerHolds, ElementHolds, BusHolds, StubHolds
<1>5. StreamHolds(Row)'
  BY <1>1, NoStream
<1> QED
  BY <1>4, <1>5 DEF OutlineInv

(* The outline is invariant: one case per action of the test programs.     *)
LEMMA OutlineInvariant ==
    BaseInv /\ BaseInv' /\ OutlineInv /\ AssertionsHold /\ [Next]_vars => OutlineInv'
<1> SUFFICES ASSUME BaseInv, BaseInv', OutlineInv, AssertionsHold, [Next]_vars
             PROVE  OutlineInv'
  OBVIOUS
<1>1. CASE NextTest
  <2>1. CASE process' = "none"
    BY <2>1, OutlineEnds
  <2>2. CASE process' # "none"
    <3>1. /\ UNCHANGED <<process, test>> \/ test' = test + 1
          /\ line' = 1 /\ calling' = "none" /\ UNCHANGED <<capturing, slow>> /\ Running
          /\ Len(Script) = Len(Body) + 3 /\ line > Len(Script) /\ Len(Body) \in 1..12
          /\ line \in 1..(Len(Body) + 4)
      BY <1>1, <2>2, ScriptIs, AtTest DEF NextTest, BaseInv, LineInv, Running
    <3>2. line > Len(Body)
      BY <3>1
    <3>3. ASSUME ~slow' PROVE ~capturing'
      BY <3>1, <3>2, <3>3 DEF OutlineInv
    <3> QED
      BY <2>2, <3>1, <3>3, OutlineBegins, OutlineLate DEF Running
  <2> QED
    BY <2>1, <2>2
<1>2. CASE \E p \in DOMAIN Tests : Start(p)
  <2>1. line' = 1 /\ capturing' = FALSE /\ calling' = "none" /\ process' \in DOMAIN Tests
    BY <1>2 DEF Start
  <2>2. process' # "none"
    BY <2>1, TestsAre
  <2> QED
    BY <2>1, <2>2, OutlineBegins DEF Running
<1>3. CASE UNCHANGED vars
  <2>1. Row' = Row /\ NextRow' = NextRow /\ Sock' = Sock /\ Body' = Body /\ (Running' <=> Running)
    BY <1>3, Moves DEF vars
  <2> QED
    BY <1>3, <2>1 DEF vars, OutlineInv, Holds, CaptureHolds, ServerHolds, ElementHolds, BusHolds,
       StubHolds, StreamHolds, CallHolds, Listening, ChainPrints, ConsumerPrints, Nobody
<1>4. CASE SetProperty
  BY <1>4, OutlineOfSetters, OutlineOfProperties, OutlineOfAnswer, OutlineOfFailure
     DEF SetProperty
<1>5. CASE Streaming
  BY <1>5, OutlineOfChain, OutlineOfConsumer, OutlineOfEndOfStream DEF Streaming
<1> QED
  BY <1>1, <1>2, <1>3, <1>4, <1>5, OutlineOfCapture, OutlineOfServer, OutlineOfElement,
     OutlineOfProperties, OutlineOfPop, OutlineOfClientAlone, OutlineOfTearDown,
     OutlineOfServerThread DEF Next, TestBody

(* The assertions and the deaths of each step. *)
LEMMA Assertions ==
    BaseInv /\ OutlineInv /\ AssertionsHold /\ [Next]_vars => AssertionsHold'
<1> SUFFICES ASSUME BaseInv, OutlineInv, AssertionsHold, [Next]_vars, failed' PROVE slow'
  BY DEF AssertionsHold
<1>0. /\ LineInv /\ element \in Element /\ (failed => slow)
      /\ failed \in BOOLEAN /\ slow \in BOOLEAN
  BY DEF BaseInv, RecordInv, AssertionsHold, TypeOK
<1>1. CASE GetCapturedStdout
  <2>1. /\ line \in 1..Len(Body) /\ Running /\ AfterPrinted(Row, Op.texts, NextRow)
    BY <1>0, <1>1, AtBody, AtStep, RuleOf DEF GetCapturedStdout
  <2>2. slow' = slow /\ (failed' => failed \/ ~(Op.texts \subseteq output))
    BY <1>1 DEF GetCapturedStdout, Assert
  <2>3. ~slow => Op.texts \subseteq output
    BY <2>1, Known DEF CaptureHolds, AfterPrinted
  <2> QED
    BY <1>0, <2>2, <2>3
<1>2. CASE LinkPipeline
  <2>1. Op.format \in {"any", "RGB"} <=> Op.expected = "linked"
    BY <1>0, <1>2, AtBody, RuleOf DEF LinkPipeline
  <2> QED
    BY <1>0, <1>2, <2>1 DEF LinkPipeline, Assert
<1>3. CASE GetProperties
  <2>1. /\ line \in 1..Len(Body) /\ Running /\ calling = "none"
        /\ AfterGet(Row, Op.server_socket, Op.model_component, Op.timeout, NextRow)
    BY <1>0, <1>3, AtBody, AtStep, RuleOf DEF GetProperties
  <2>2. /\ slow' = slow
        /\ failed' => failed \/ ~(/\ element.server_socket = Op.server_socket
                                  /\ element.model_component = Op.model_component
                                  /\ element.model_status_timeout = Op.timeout)
    BY <1>3 DEF GetProperties, Assert, Dies
  <2>3. ASSUME ~slow
        PROVE  /\ element.server_socket = Op.server_socket
               /\ element.model_component = Op.model_component
               /\ element.model_status_timeout = Op.timeout
    <3>1. ElementHolds(Row) /\ StubHolds(Row)
      BY <2>1, <2>3, Known
    <3>2. element.model_component \in {"NULL", "SampleModel"}
      BY <1>0 DEF Element
    <3> QED
      BY <2>1, <3>1, <3>2 DEF AfterGet, ElementHolds, StubHolds
  <2> QED
    BY <1>0, <2>2, <2>3
<1>4. CASE PopMessage
  <2>1. /\ line \in 1..Len(Body) /\ Running /\ AfterPop(Row, Op.expected, NextRow)
    BY <1>0, <1>4, AtBody, AtStep, RuleOf DEF PopMessage
  <2>2. slow' = slow /\ bus # <<>> /\ (failed' => failed \/ Head(bus) # Op.expected)
    BY <1>4 DEF PopMessage, Assert
  <2>3. ASSUME ~slow PROVE Head(bus) = Op.expected
    <3>1. BusHolds(Row)
      BY <2>1, <2>3, Known
    <3> QED
      BY <2>1, <2>2, <3>1 DEF AfterPop, BusHolds
  <2> QED
    BY <1>0, <2>2, <2>3
<1>5. CASE ShmOpenFails
  BY <1>0, <1>5, NoSegment DEF ShmOpenFails, Assert
<1>6. CASE DoCaptureStdout \/ RunServerInBackground \/ Shutdown \/ Join \/ MakeElement
           \/ UnrefElement \/ TearDownPipeline \/ SetProperty \/ SetCaps \/ PlayPipeline
           \/ CallsThrow \/ NextTest \/ RunServerThread \/ Streaming \/ UNCHANGED vars
  <2>1. (failed' => failed) /\ (slow => slow')
    <3>1. CASE SetProperty
      BY <1>0, <3>1 DEF SetProperty, SetServerSocket, SetModelComponent, SetModelStatusTimeout,
         StartModelReturns, DescribeModelReturns, StartModelFails, Passes, Assert, Stays
    <3>2. CASE RunServerThread \/ Streaming \/ UNCHANGED vars
      BY <1>0, <3>2 DEF RunServerThread, BuildAndStart, StoreServer, WaitReturns,
         Streaming, Chain, InferenceConsumerChain, EndOfStream, Stays, vars
    <3> QED
      BY <1>0, <1>6, <3>1, <3>2 DEF DoCaptureStdout, RunServerInBackground, Shutdown, Join, MakeElement,
         UnrefElement, TearDownPipeline, SetCaps, PlayPipeline, CallsThrow, NextTest,
         Dies, Passes, Assert
  <2> QED
    BY <1>0, <2>1
<1>7. CASE \E p \in DOMAIN Tests : Start(p)
  BY <1>7 DEF Start
<1> QED
  BY <1>1, <1>2, <1>3, <1>4, <1>5, <1>6, <1>7 DEF Next, TestBody

(* A program dies of a second capture, of a joinable thread, of a property *)
(* that is not set or of a server not yet stored: the outline excludes all *)
(* but the last until a server was late.                                   *)
LEMMA Deaths ==
    BaseInv /\ OutlineInv /\ DiesOnlyOfRaces /\ [Next]_vars => DiesOnlyOfRaces'
<1> SUFFICES ASSUME BaseInv, OutlineInv, DiesOnlyOfRaces, [Next]_vars,
                    process' = "none", exit' = "died"
             PROVE  early' \/ slow'
  BY DEF DiesOnlyOfRaces
<1>0. LineInv /\ ServerInv
  BY DEF BaseInv
<1>1. CASE DoCaptureStdout
  <2>1. line \in 1..Len(Body) /\ Running /\ AfterCaptureStdout(Row, NextRow)
    BY <1>0, <1>1, AtBody, AtStep, RuleOf DEF DoCaptureStdout
  <2>2. capturing /\ slow' = slow
    BY <1>1, <2>1 DEF DoCaptureStdout, Passes, Assert, Running
  <2>3. ~slow => ~capturing
    BY <2>1, Known DEF CaptureHolds, AfterCaptureStdout
  <2> QED
    BY <2>2, <2>3
<1>2. CASE RunServerInBackground
  <2>1. /\ line \in 1..Len(Body) /\ Running
        /\ AfterRunServer(Row, Op.address, Op.status, NextRow)
    BY <1>0, <1>2, AtBody, AtStep, RuleOf DEF RunServerInBackground
  <2>2. thread # "none" /\ slow' = slow
    BY <1>2, <2>1 DEF RunServerInBackground, Passes, Assert, Running
  <2>3. ~slow => thread = "none"
    BY <2>1, Known DEF ServerHolds, AfterRunServer
  <2> QED
    BY <2>2, <2>3
<1>3. CASE Shutdown
  <2>1. Running
    BY <1>0, <1>3, AtStep DEF Shutdown
  <2>2. test_server = "NULL"
    BY <1>3, <2>1 DEF Shutdown, Passes, Assert, Running
  <2> QED
    BY <1>0, <1>3, <2>2 DEF Shutdown, ServerInv
<1>4. CASE GetProperties
  <2>1. /\ line \in 1..Len(Body) /\ Running
        /\ AfterGet(Row, Op.server_socket, Op.model_component, Op.timeout, NextRow)
    BY <1>0, <1>4, AtBody, AtStep, RuleOf DEF GetProperties
  <2>2. element.model_component = "NULL" /\ slow' = slow
    BY <1>4, <2>1 DEF GetProperties, Assert, Running
  <2>3. ~slow => element.model_component # "NULL"
    BY <2>1, Known DEF ElementHolds, AfterGet
  <2> QED
    BY <2>2, <2>3
<1>5. CASE NextTest
  BY <1>5 DEF NextTest
<1>6. CASE GetCapturedStdout \/ Join \/ MakeElement \/ LinkPipeline
           \/ UnrefElement \/ TearDownPipeline \/ SetProperty \/ SetCaps \/ PlayPipeline
           \/ PopMessage \/ CallsThrow \/ ShmOpenFails \/ RunServerThread \/ Streaming
  <2>1. process' = process /\ process # "none"
    <3>1. CASE SetProperty
      BY <3>1 DEF SetProperty, SetServerSocket, SetModelComponent, SetModelStatusTimeout,
         StartModelReturns, DescribeModelReturns, StartModelFails, Passes, Assert, Stays, At
    <3>2. CASE RunServerThread \/ Streaming
      BY <3>2 DEF RunServerThread, BuildAndStart, StoreServer, WaitReturns,
         Streaming, Chain, InferenceConsumerChain, EndOfStream, Stays
    <3> QED
      BY <1>6, <3>1, <3>2 DEF GetCapturedStdout, Join, MakeElement, LinkPipeline, UnrefElement,
         TearDownPipeline, SetCaps, PlayPipeline, PopMessage, CallsThrow, ShmOpenFails,
         Passes, Assert, At
  <2> QED
    BY <2>1
<1>7. CASE \E p \in DOMAIN Tests : Start(p)
  BY <1>7, TestsAre DEF Start
<1>8. CASE UNCHANGED vars
  BY <1>8 DEF vars, DiesOnlyOfRaces
<1> QED
  BY <1>1, <1>2, <1>3, <1>4, <1>5, <1>6, <1>7, <1>8 DEF Next, TestBody

-----------------------------------------------------------------------------
(* The theorems. *)

(* The inductive invariant: it holds at first and every step keeps it.     *)
LEMMA Invariance == Spec => []IInv
<1>1. Init => IInv
  <2> SUFFICES ASSUME Init PROVE IInv
    OBVIOUS
  <2>1. OutlineInv /\ AssertionsHold /\ DiesOnlyOfRaces
    BY DEF Init, OutlineInv, Running, AssertionsHold, DiesOnlyOfRaces
  <2> QED
    BY <2>1, BaseInitially DEF IInv
<1>2. IInv /\ [Next]_vars => IInv'
  <2> SUFFICES ASSUME IInv, [Next]_vars PROVE IInv'
    OBVIOUS
  <2>1. BaseInv /\ OutlineInv /\ AssertionsHold /\ DiesOnlyOfRaces
    BY DEF IInv
  <2>2. BaseInv'
    BY <2>1, BaseInvariant
  <2>3. OutlineInv'
    BY <2>1, <2>2, OutlineInvariant
  <2> QED
    BY <2>1, <2>2, <2>3, Assertions, Deaths DEF IInv
<1> QED
  BY <1>1, <1>2, PTL DEF Spec

(* Whatever the threads of the test programs do, in both builds, the       *)
(* variables have their types: frames flow only in a pipeline that plays,  *)
(* and a server thread belongs to a TestServer                             *)
(* (gstlookoutvisiontest.cc:18-29, TestServer.cc:67-92).                   *)
THEOREM TypesHold == Spec => []TypeOK
<1>1. IInv => TypeOK
  BY DEF IInv, BaseInv
<1> QED
  BY <1>1, Invariance, PTL

(* No assertion of any test fails in a program that reached its models     *)
(* within the timeouts: whatever the threads do meanwhile and whatever     *)
(* earlier programs left, what a test looks for has been printed, and the  *)
(* message it waits for is the first (gstlookoutvisiontest.cc:78-92,       *)
(* 208-227, 354-378).                                                      *)
THEOREM AssertionsAlwaysHold == Spec => []AssertionsHold
<1>1. IInv => AssertionsHold
  BY DEF IInv
<1> QED
  BY <1>1, Invariance, PTL

(* A program dies only of a server that was stopped before its thread had  *)
(* stored test_server, or of one that was late (TestServer.cc:79-91).      *)
THEOREM DeathsAreRaces == Spec => []DiesOnlyOfRaces
<1>1. IInv => DiesOnlyOfRaces
  BY DEF IInv
<1> QED
  BY <1>1, Invariance, PTL

(* Every test begins without a server, a message, a frame or a capture of  *)
(* an earlier one; it finds the segment of another client only if a program*)
(* died before it, a test failed before it, whose error message keeps the  *)
(* element, or the test before it is the one that never deletes its client *)
(* (gstlookoutvisiontest.cc:18-29, 84, LookoutVisionInferenceClientTest.cc:*)
(* 45, 98).                                                                *)
THEOREM NothingIsLeft == Spec => []NothingLeft
<1>1. IInv => NothingLeft
  <2> SUFFICES ASSUME IInv, process # "none", line = 1 PROVE
                 /\ thread = "none" /\ bus = <<>> /\ stream = "stopped"
                 /\ capturing => slow
                 /\ shm => \/ test = 1 /\ exit \in {"failed", "died"}
                           \/ process = "LookoutVisionInferenceClientTest" /\ test = 2
                           \/ failed
    BY DEF NothingLeft
  <2>1. BaseInv /\ OutlineInv /\ LineInv /\ FixtureInv /\ PlaceInv /\ ShmInv /\ Running
    BY DEF IInv, BaseInv, Running
  <2>2. Len(Body) \in 1..12 /\ Row = Fresh
    BY <2>1, AtTest DEF Row
  <2>3. line \in 1..Len(Body) /\ line <= Len(Body)
    <3>1. ASSUME NEW n \in 1..12 PROVE 1 \in 1..n /\ 1 <= n
      OBVIOUS
    <3> QED
      BY <2>2, <3>1
  <2>4. ~slow => ~capturing
    BY <2>1, <2>2, <2>3, Known DEF CaptureHolds, Fresh, Knows
  <2>5. pipeline = "none"
    BY <2>1, <2>2, <2>3 DEF PlaceInv, PlaceHolds, Fresh, Knows
  <2>6. shm => \/ test = 1 /\ exit \in {"failed", "died"}
               \/ process = "LookoutVisionInferenceClientTest" /\ test = 2
               \/ failed
    BY <2>1, <2>5 DEF ShmInv
  <2> QED
    BY <2>1, <2>4, <2>6 DEF FixtureInv
<1> QED
  BY <1>1, Invariance, PTL
=============================================================================
