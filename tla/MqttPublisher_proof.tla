-------------------------- MODULE MqttPublisher_proof --------------------------
(***************************************************************************)
(* Proofs about MqttPublisher, for all topics and verdicts and any number  *)
(* of buffers.                                                             *)
(*                                                                         *)
(* A message can be in four places: being published, with the core but     *)
(* unhandled, accepted, or gone.  FrameInv says that it is in one of them  *)
(* at a time and what it tells is true; CallInv ties these places to what  *)
(* PublishToIoTMQTT has returned or still may return.                      *)
(***************************************************************************)
EXTENDS MqttPublisher, SequenceTheorems, TLAPS

(* Every message is about a frame that had this result.                    *)
IsTrue(m) == m.frame <= frame /\ [frame |-> m.frame, verdict |-> m.verdict] \in results

FrameInv ==
    /\ \A r \in results : r.frame <= frame
    /\ \A r, q \in results : r.frame = q.frame => r = q
    /\ message # NULL => message.frame = frame /\ IsTrue(message)
    /\ \A m \in pending : IsTrue(m) /\ ~IsAccepted(m.frame)
    /\ \A m, q \in pending : m.frame = q.frame => m = q
    /\ \A i \in DOMAIN accepted : IsTrue(accepted[i])
    /\ \A i, j \in DOMAIN accepted : accepted[i].frame = accepted[j].frame => i = j

(* A message still with the core is that of the call in progress, or of a  *)
(* call that has returned FAILED.                                          *)
CallInv ==
    /\ streamPc = "Activate" =>
          ~IsAccepted(frame) /\ \A m \in pending : m.frame # frame
    /\ streamPc = "GetResult" /\ response = "ok" => IsAccepted(frame)
    /\ \A m \in pending : m.frame \in failed \/ (streamPc = "GetResult" /\ m.frame = frame)

IInv == TypeOK /\ FrameInv /\ CallInv /\ SuccessIsAccepted /\ OvertakenHadFailed

(* Unless a call is disturbed, the topic stays as it was read.             *)
SafeInv ==
    /\ message # NULL /\ frame \notin disturbed =>
          appPc = "idle" /\ message.topic = publish_topic
    /\ \A l \in logged : l.frame \in disturbed \/ l.topic # Freed

-----------------------------------------------------------------------------
(* The initial states have their types.                                    *)
LEMMA TypeInit == Init => TypeOK
<1> SUFFICES ASSUME Init PROVE TypeOK
  OBVIOUS
<1>1. accepted \in Seq(Message)
  BY EmptySeq DEF Init
<1> QED
  BY <1>1, MqttPublisherAssumption DEF Init, TypeOK

(* Every step of the threads, the core and the connection keeps the types. *)
LEMMA TypeStep == TypeOK /\ [Next]_vars => TypeOK'
<1> SUFFICES ASSUME TypeOK, [Next]_vars PROVE TypeOK'
  OBVIOUS
<1> USE MqttPublisherAssumption DEF TypeOK, streamVars, coreVars, historyVars
<1>1. CASE New
  BY <1>1 DEF New
<1>2. CASE SetTopic
  BY <1>2 DEF SetTopic
<1>3. CASE \E t \in Topics : Strdup(t)
  BY <1>3 DEF Strdup
<1>4. CASE Play \/ Stop \/ Finalize \/ Register
  <2>1. CASE Play
    BY <2>1 DEF Play
  <2>2. CASE Stop
    BY <2>2 DEF Stop
  <2>3. CASE Finalize
    BY <2>3 DEF Finalize
  <2>4. CASE Register
    BY <2>4 DEF Register
  <2> QED
    BY <1>4, <2>1, <2>2, <2>3, <2>4
<1>5. CASE ChainUnregistered \/ ChainNoResult
  <2>1. CASE ChainUnregistered
    BY <2>1 DEF ChainUnregistered, NextFrame
  <2>2. CASE ChainNoResult
    BY <2>2 DEF ChainNoResult, NextFrame, appVars
  <2> QED
    BY <1>5, <2>1, <2>2
<1>6. ASSUME NEW v \in Verdicts, ChainResult(v) PROVE TypeOK'
  <2>1. message' \in Message /\ message' # NULL
    BY <1>6 DEF ChainResult, NextFrame, Message
  <2> QED
    BY <1>6, <2>1 DEF ChainResult, NextFrame, appVars
<1>7. CASE Activate
  BY <1>7 DEF Activate, appVars
<1>8. ASSUME NEW s \in Status, PublishReturns(s) PROVE TypeOK'
  BY <1>8 DEF PublishReturns, Returns, Message, appVars
<1>9. CASE PrintAndPush
  BY <1>9 DEF PrintAndPush, Message, appVars
<1>10. ASSUME NEW m \in pending, CoreAccepts(m) PROVE TypeOK'
  BY <1>10, AppendProperties DEF CoreAccepts, Answer, appVars
<1>11. ASSUME NEW m \in pending, CoreRefuses(m) PROVE TypeOK'
  BY <1>11 DEF CoreRefuses, Answer, appVars
<1>12. CASE Disconnect
  BY <1>12 DEF Disconnect, appVars
<1>13. CASE UNCHANGED vars
  BY <1>13 DEF vars, appVars
<1> QED
  BY <1>1, <1>2, <1>3, <1>4, <1>5, <1>6, <1>7, <1>8, <1>9, <1>10, <1>11, <1>12, <1>13
     DEF Next, Publishing

(* The variables keep their types.                                         *)
THEOREM TypeCorrect == Spec => []TypeOK
  BY TypeInit, TypeStep, PTL DEF Spec

-----------------------------------------------------------------------------
LEMMA AcceptedTyped == TypeOK => \A i \in DOMAIN accepted : accepted[i] \in Message
  BY LenProperties DEF TypeOK

(* What accepting a message does to the sequence of those accepted.        *)
LEMMA AcceptExtends ==
  ASSUME TypeOK, NEW m \in pending, CoreAccepts(m)
  PROVE  /\ DOMAIN accepted = 1 .. Len(accepted) /\ Len(accepted) \in Nat
         /\ DOMAIN accepted' = 1 .. Len(accepted) + 1
         /\ \A i \in DOMAIN accepted : accepted'[i] = accepted[i]
         /\ accepted'[Len(accepted) + 1] = m
<1>1. accepted \in Seq(Message) /\ accepted' = Append(accepted, m) /\ m \in Message
  BY DEF TypeOK, CoreAccepts
<1> QED
  BY <1>1, AppendProperties, LenProperties

LEMMA AcceptAdds ==
  ASSUME TypeOK, NEW m \in pending, CoreAccepts(m), NEW f
  PROVE  IsAccepted(f)' <=> IsAccepted(f) \/ f = m.frame
<1>1. \A i : i \in DOMAIN accepted' <=> i \in DOMAIN accepted \/ i = Len(accepted) + 1
  BY AcceptExtends
<1>2. Len(accepted) + 1 \in DOMAIN accepted'
  BY AcceptExtends
<1> QED
  BY <1>1, <1>2, AcceptExtends DEF IsAccepted

(* Every step leaves each message in one place, and true.                  *)
LEMMA FrameStep == IInv /\ [Next]_vars => FrameInv'
<1> SUFFICES ASSUME IInv, [Next]_vars PROVE FrameInv'
  OBVIOUS
<1> USE DEF IInv
<1>1. CASE UNCHANGED <<frame, message, results, pending, accepted>>
  BY <1>1 DEF FrameInv, IsTrue, IsAccepted
<1>2. CASE ChainUnregistered \/ ChainNoResult
  <2>1. frame \in Nat /\ frame' = frame + 1 /\ message = NULL
        /\ UNCHANGED <<message, results, pending, accepted>>
    BY <1>2 DEF ChainUnregistered, ChainNoResult, NextFrame, TypeOK, streamVars,
                coreVars, historyVars
  <2>2. ASSUME NEW r \in results PROVE r.frame <= frame'
    BY <2>1, <2>2 DEF FrameInv, TypeOK
  <2>3. ASSUME NEW m \in Message, IsTrue(m) PROVE IsTrue(m)'
    BY <2>1, <2>3 DEF IsTrue, Message
  <2>4. \A i \in DOMAIN accepted : accepted[i] \in Message
    BY AcceptedTyped
  <2> QED
    BY <2>1, <2>2, <2>3, <2>4 DEF FrameInv, TypeOK, IsAccepted
<1>3. ASSUME NEW v \in Verdicts, ChainResult(v) PROVE FrameInv'
  <2> DEFINE r == [frame |-> frame + 1, verdict |-> v]
  <2>1. /\ frame \in Nat /\ frame' = frame + 1
        /\ message'.frame = frame' /\ message'.verdict = v
        /\ results' = results \cup {r}
        /\ UNCHANGED <<pending, accepted>>
    BY <1>3 DEF ChainResult, NextFrame, TypeOK, coreVars
  <2>2. ASSUME NEW q \in results PROVE q.frame <= frame' /\ q.frame # r.frame
    BY <2>1, <2>2 DEF FrameInv, TypeOK
  <2>3. ASSUME NEW m \in Message, IsTrue(m) PROVE IsTrue(m)'
    BY <2>1, <2>3 DEF IsTrue, Message
  <2>4. \A i \in DOMAIN accepted : accepted[i] \in Message
    BY AcceptedTyped
  <2>5. IsTrue(message)'
    BY <2>1 DEF IsTrue
  <2>6. (\A q \in results : q.frame <= frame)' /\ (\A p, q \in results : p.frame = q.frame => p = q)'
    BY <2>1, <2>2 DEF FrameInv
  <2> QED
    BY <2>1, <2>3, <2>4, <2>5, <2>6 DEF FrameInv, TypeOK, IsAccepted
<1>4. CASE Activate
  <2>1. /\ UNCHANGED <<frame, message, results, accepted>>
        /\ pending' \subseteq pending \cup {message}
        /\ message # NULL
        /\ ~IsAccepted(frame) /\ \A m \in pending : m.frame # frame
    BY <1>4 DEF Activate, CallInv, TypeOK, historyVars
  <2> QED
    BY <2>1 DEF FrameInv, IsTrue, IsAccepted
<1>5. CASE PrintAndPush
  BY <1>5 DEF PrintAndPush, FrameInv, IsTrue, IsAccepted, coreVars
<1>6. ASSUME NEW m \in pending, CoreAccepts(m) PROVE FrameInv'
  <2>1. UNCHANGED <<frame, message, results>> /\ pending' = pending \ {m}
    BY <1>6 DEF CoreAccepts, historyVars
  <2>2. \A q \in pending' : ~IsAccepted(q.frame)'
    BY <1>6, <2>1, AcceptAdds DEF FrameInv
  <2>3. \A i \in DOMAIN accepted' : IsTrue(accepted[i])'
    <3>1. ASSUME NEW q, IsTrue(q) PROVE IsTrue(q)'
      BY <2>1, <3>1 DEF IsTrue
    <3>2. \A i \in DOMAIN accepted' : IsTrue(accepted'[i])
      BY <1>6, AcceptExtends DEF FrameInv
    <3> QED
      BY <2>1, <3>2 DEF IsTrue
  <2>4. ASSUME NEW i \in DOMAIN accepted', NEW j \in DOMAIN accepted',
               accepted'[i].frame = accepted'[j].frame
        PROVE  i = j
    <3>1. \A k \in DOMAIN accepted : accepted[k].frame # m.frame
      BY DEF FrameInv, IsAccepted
    <3> QED
      BY <1>6, <2>4, <3>1, AcceptExtends DEF FrameInv
  <2> QED
    BY <2>1, <2>2, <2>3, <2>4 DEF FrameInv, IsTrue
<1>7. ASSUME NEW m \in pending, CoreRefuses(m) PROVE FrameInv'
  BY <1>7 DEF CoreRefuses, FrameInv, IsTrue, IsAccepted, historyVars
<1>8. ASSUME NEW s \in Status, PublishReturns(s) PROVE FrameInv'
  BY <1>1, <1>8 DEF PublishReturns, Returns, coreVars
<1> QED
  BY <1>1, <1>2, <1>3, <1>4, <1>5, <1>6, <1>7, <1>8
     DEF Next, Publishing, vars, streamVars, coreVars, historyVars, New, SetTopic, Strdup,
         Play, Stop, Finalize, Register, Disconnect

-----------------------------------------------------------------------------
(* Every step keeps the places of messages in line with the calls.         *)
LEMMA CallStep == IInv /\ [Next]_vars => CallInv' /\ SuccessIsAccepted'
<1> SUFFICES ASSUME IInv, [Next]_vars PROVE CallInv' /\ SuccessIsAccepted'
  OBVIOUS
<1> USE DEF IInv
<1>1. CASE UNCHANGED <<streamVars, pending, accepted, succeeded, failed>>
  BY <1>1 DEF CallInv, SuccessIsAccepted, IsAccepted, streamVars
<1>2. CASE ChainUnregistered \/ ChainNoResult
  <2>1. streamPc = "idle" /\ UNCHANGED <<streamPc, pending, accepted, succeeded, failed>>
    BY <1>2 DEF ChainUnregistered, ChainNoResult, NextFrame, coreVars, historyVars
  <2> QED
    BY <2>1 DEF CallInv, SuccessIsAccepted, IsAccepted
<1>3. ASSUME NEW v \in Verdicts, ChainResult(v) PROVE CallInv' /\ SuccessIsAccepted'
  <2>1. /\ streamPc = "idle" /\ streamPc' = "Activate"
        /\ frame \in Nat /\ frame' = frame + 1
        /\ UNCHANGED <<pending, accepted, succeeded, failed>>
    BY <1>3 DEF ChainResult, NextFrame, TypeOK, coreVars
  <2>2. ASSUME NEW m \in pending PROVE m.frame # frame + 1
    <3>1. m.frame \in Nat /\ m.frame <= frame
      BY DEF FrameInv, IsTrue, TypeOK, Message
    <3> QED
      BY <2>1, <3>1
  <2>3. ASSUME NEW i \in DOMAIN accepted PROVE accepted[i].frame # frame + 1
    <3>1. accepted[i].frame \in Nat /\ accepted[i].frame <= frame
      BY AcceptedTyped DEF FrameInv, IsTrue, Message
    <3> QED
      BY <2>1, <3>1
  <2>4. ~IsAccepted(frame + 1)
    BY <2>3 DEF IsAccepted
  <2> QED
    BY <2>1, <2>2, <2>4 DEF CallInv, SuccessIsAccepted, IsAccepted
<1>4. CASE Activate
  <2>1. /\ streamPc' = "GetResult" /\ message.frame = frame
        /\ streamPc = "Activate" /\ response' \in {"none", "error"}
        /\ pending' \subseteq pending \cup {message}
        /\ UNCHANGED <<frame, accepted, succeeded, failed>>
    BY <1>4 DEF Activate, FrameInv, TypeOK, historyVars
  <2> QED
    BY <2>1 DEF CallInv, SuccessIsAccepted, IsAccepted
<1>5. ASSUME NEW s \in Status, PublishReturns(s) PROVE CallInv' /\ SuccessIsAccepted'
  <2>1. /\ streamPc = "GetResult" /\ streamPc' = "g_print" /\ message.frame = frame
        /\ UNCHANGED <<frame, pending, accepted>>
    BY <1>5 DEF PublishReturns, Returns, FrameInv, TypeOK, coreVars
  <2>2. CASE s = "SUCCESSFUL"
    <3>1. succeeded' = succeeded \cup {frame} /\ failed' = failed /\ IsAccepted(frame)
      BY <1>5, <2>1, <2>2 DEF PublishReturns, Returns, CallInv
    <3>2. \A m \in pending : m.frame # frame
      BY <3>1 DEF FrameInv
    <3> QED
      BY <2>1, <3>1, <3>2 DEF CallInv, SuccessIsAccepted, IsAccepted
  <2>3. CASE s = "FAILED"
    <3>1. failed' = failed \cup {frame} /\ succeeded' = succeeded
      BY <1>5, <2>1, <2>3 DEF PublishReturns, Returns
    <3> QED
      BY <2>1, <3>1 DEF CallInv, SuccessIsAccepted, IsAccepted
  <2> QED
    BY <2>2, <2>3 DEF Status
<1>6. CASE PrintAndPush
  BY <1>6 DEF PrintAndPush, CallInv, SuccessIsAccepted, IsAccepted, coreVars
<1>7. ASSUME NEW m \in pending, CoreAccepts(m) PROVE CallInv' /\ SuccessIsAccepted'
  <2>1. /\ pending' = pending \ {m} /\ Answer(m, "ok")
        /\ UNCHANGED <<streamPc, frame, message, succeeded, failed>>
    BY <1>7 DEF CoreAccepts, historyVars
  <2>2. \A f : IsAccepted(f)' <=> IsAccepted(f) \/ f = m.frame
    BY <1>7, AcceptAdds
  <2>3. streamPc = "Activate" => m.frame # frame
    BY DEF CallInv
  <2>4. streamPc = "GetResult" /\ response' = "ok" => response = "ok" \/ m.frame = frame
    BY <2>1 DEF Answer, FrameInv, TypeOK
  <2> QED
    BY <2>1, <2>2, <2>3, <2>4 DEF CallInv, SuccessIsAccepted
<1>8. ASSUME NEW m \in pending, CoreRefuses(m) PROVE CallInv' /\ SuccessIsAccepted'
  <2>1. /\ pending' = pending \ {m} /\ response' \in {response, "error"}
        /\ UNCHANGED <<streamPc, frame, accepted, succeeded, failed>>
    BY <1>8 DEF CoreRefuses, Answer, historyVars
  <2> QED
    BY <2>1 DEF CallInv, SuccessIsAccepted, IsAccepted
<1>9. CASE Disconnect
  <2>1. /\ response' \in {response, "error"}
        /\ UNCHANGED <<streamPc, frame, pending, accepted, succeeded, failed>>
    BY <1>9 DEF Disconnect, historyVars
  <2> QED
    BY <2>1 DEF CallInv, SuccessIsAccepted, IsAccepted
<1> QED
  BY <1>1, <1>2, <1>3, <1>4, <1>5, <1>6, <1>7, <1>8, <1>9
     DEF Next, Publishing, vars, streamVars, coreVars, historyVars, New, SetTopic, Strdup,
         Play, Stop, Finalize, Register

(* A message that comes late is one whose call has failed.                 *)
LEMMA OrderStep == IInv /\ [Next]_vars => OvertakenHadFailed'
<1> SUFFICES ASSUME IInv, [Next]_vars PROVE OvertakenHadFailed'
  OBVIOUS
<1> USE DEF IInv
<1>1. CASE accepted' = accepted /\ failed \subseteq failed'
  BY <1>1 DEF OvertakenHadFailed
<1>2. ASSUME NEW m \in pending, CoreAccepts(m) PROVE OvertakenHadFailed'
  <2>1. failed' = failed
    BY <1>2 DEF CoreAccepts, historyVars
  <2>2. \A i \in DOMAIN accepted : m.frame < accepted[i].frame => m.frame \in failed
    <3>1. ASSUME NEW i \in DOMAIN accepted, m.frame < accepted[i].frame PROVE m.frame # frame
      <4>1. accepted[i].frame \in Nat /\ accepted[i].frame <= frame
        BY AcceptedTyped DEF FrameInv, IsTrue, Message
      <4>2. frame \in Nat
        BY DEF TypeOK
      <4> QED
        BY <3>1, <4>1, <4>2
    <3> QED
      BY <3>1 DEF CallInv
  <2> QED
    BY <1>2, <2>1, <2>2, AcceptExtends DEF OvertakenHadFailed
<1> QED
  BY <1>1, <1>2
     DEF Next, Publishing, vars, streamVars, coreVars, historyVars, New, SetTopic, Strdup,
         Play, Stop, Finalize, Register, ChainUnregistered, ChainNoResult, ChainResult,
         NextFrame, Activate, PublishReturns, Returns, PrintAndPush, CoreRefuses, Disconnect

(* Every state of the publisher satisfies the invariant.                   *)
THEOREM Invariance == Spec => []IInv
<1>1. Init => IInv
  <2> SUFFICES ASSUME Init PROVE IInv
    OBVIOUS
  <2>1. DOMAIN accepted = {}
    BY DEF Init
  <2> QED
    BY <2>1, TypeInit
       DEF Init, IInv, FrameInv, CallInv, SuccessIsAccepted, OvertakenHadFailed
<1>2. IInv /\ [Next]_vars => IInv'
  BY TypeStep, FrameStep, CallStep, OrderStep DEF IInv
<1> QED
  BY <1>1, <1>2, PTL DEF Spec

(* A publish that was reported SUCCESSFUL was taken over by the core       *)
(* (GreengrassClient.cc:43-52).                                            *)
THEOREM SuccessesAreAccepted == Spec => []SuccessIsAccepted
  BY Invariance, PTL DEF IInv

(* Messages reach the core in order, but for those reported FAILED         *)
(* (GreengrassClient.cc:43-46).                                            *)
THEOREM LateMessagesHadFailed == Spec => []OvertakenHadFailed
  BY Invariance, PTL DEF IInv

-----------------------------------------------------------------------------
(* Every step infers, publishes a true and new result, or stutters.        *)
LEMMA FeedStep == IInv /\ IInv' /\ [Next]_vars => [Feed!Next]_Feed!vars
<1> SUFFICES ASSUME IInv, IInv', [Next]_vars PROVE [Feed!Next]_Feed!vars
  OBVIOUS
<1> DEFINE Told(m) == [frame |-> m.frame, verdict |-> m.verdict]
           feed == [i \in DOMAIN accepted |-> Told(accepted[i])]
<1>1. CASE UNCHANGED <<results, accepted>>
  BY <1>1 DEF Feed!vars
<1>2. ASSUME NEW v \in Verdicts, ChainResult(v) PROVE Feed!Infer
  BY <1>2 DEF ChainResult, coreVars, IInv, FrameInv, Feed!Infer
<1>3. ASSUME NEW m \in pending, CoreAccepts(m) PROVE Feed!Publish
  <2>1. TypeOK /\ accepted \in Seq(Message) /\ m \in Message
    BY DEF IInv, TypeOK
  <2>2. Told(m) \in results /\ \A i \in DOMAIN feed : feed[i] # Told(m)
    BY DEF IInv, FrameInv, IsTrue, IsAccepted
  <2>3. feed' = Append(feed, Told(m))
    <3>1. feed \in Seq([frame : Nat, verdict : Verdicts]) /\ Len(feed) = Len(accepted)
      <4>1. \A i \in 1 .. Len(accepted) : Told(accepted[i]) \in [frame : Nat, verdict : Verdicts]
        <5>1. DOMAIN accepted = 1 .. Len(accepted)
          BY <2>1, LenProperties
        <5>2. \A i \in 1 .. Len(accepted) : accepted[i] \in Message
          BY <2>1, <5>1, AcceptedTyped
        <5> QED
          BY <5>2 DEF Message
      <4>2. feed \in [1 .. Len(accepted) -> [frame : Nat, verdict : Verdicts]]
        BY <2>1, <4>1, LenProperties
      <4>3. Len(accepted) \in Nat /\ DOMAIN feed = 1 .. Len(accepted)
        BY <2>1, LenProperties
      <4> QED
        BY <4>2, <4>3
    <3>2. Told(m) \in [frame : Nat, verdict : Verdicts]
      BY <2>1 DEF Message
    <3> DEFINE next == Append(feed, Told(m))
    <3>3. /\ next \in [1 .. Len(next) -> [frame : Nat, verdict : Verdicts]]
          /\ Len(next) = Len(accepted) + 1
          /\ \A i \in 1 .. Len(accepted) : next[i] = feed[i]
          /\ next[Len(accepted) + 1] = Told(m)
      <4> HIDE DEF feed, Told
      <4>1. next \in Seq([frame : Nat, verdict : Verdicts])
        BY <3>1, <3>2, AppendProperties
      <4>2. /\ Len(next) = Len(accepted) + 1
            /\ \A i \in 1 .. Len(accepted) : next[i] = feed[i]
            /\ next[Len(accepted) + 1] = Told(m)
        BY <3>1, <3>2, AppendProperties
      <4> HIDE DEF next
      <4> QED
        BY <4>1, <4>2, LenProperties
    <3>4. /\ DOMAIN accepted' = 1 .. Len(accepted) + 1
          /\ \A i \in 1 .. Len(accepted) : accepted'[i] = accepted[i]
          /\ accepted'[Len(accepted) + 1] = m
          /\ DOMAIN accepted = 1 .. Len(accepted) /\ Len(accepted) \in Nat
      BY <1>3, <2>1, AcceptExtends
    <3>5. \A i \in 1 .. Len(accepted) + 1 : Told(accepted'[i]) = next[i]
      <4>1. \A i \in 1 .. Len(accepted) : next[i] = Told(accepted[i])
        BY <3>3, <3>4
      <4> HIDE DEF Told, next
      <4> QED
        BY <3>3, <3>4, <4>1
    <3>6. feed' = [i \in 1 .. Len(accepted) + 1 |-> Told(accepted'[i])]
      BY <3>4
    <3> HIDE DEF feed, Told, next
    <3>7. feed' = next
      BY <3>3, <3>5, <3>6
    <3> QED
      BY <3>7 DEF next
  <2> QED
    BY <1>3, <2>2, <2>3 DEF CoreAccepts, historyVars, Feed!Publish
<1> QED
  BY <1>1, <1>2, <1>3
     DEF Next, Publishing, vars, streamVars, coreVars, historyVars, New, SetTopic, Strdup,
         Play, Stop, Finalize, Register, ChainUnregistered, ChainNoResult,
         Activate, PublishReturns, Returns, PrintAndPush, CoreRefuses, Disconnect, Feed!Next

(* The publisher implements the feed: what the core takes over are true    *)
(* verdicts, of each frame at most one (gstmqttpublisher.cc:163-176).      *)
THEOREM ImplementsFeed == Spec => KeepsFeed
<1>1. Init => Feed!Init
  BY DEF Init, Feed!Init
<1>2. IInv /\ IInv' /\ [Next]_vars => [Feed!Next]_Feed!vars
  BY FeedStep
<1> QED
  BY <1>1, <1>2, Invariance, PTL DEF Spec, KeepsFeed, Feed!Spec

-----------------------------------------------------------------------------
(* A call disturbed stays so, and the topic of one that is not is neither  *)
(* freed nor set before it has been printed.                               *)
LEMMA SafeStep == IInv /\ SafeInv /\ [Next]_vars => SafeInv' /\ disturbed \subseteq disturbed'
<1> SUFFICES ASSUME IInv, SafeInv, [Next]_vars PROVE SafeInv' /\ disturbed \subseteq disturbed'
  OBVIOUS
<1>0. /\ message # NULL => message.frame = frame
      /\ message # NULL <=> streamPc # "idle"
      /\ publish_topic = Freed => appPc = "g_strdup"
  BY DEF IInv, FrameInv, TypeOK
<1>1. CASE UNCHANGED <<appPc, publish_topic, frame, message, logged, disturbed>>
  BY <1>1 DEF SafeInv
<1>2. CASE message = NULL /\ UNCHANGED <<message, logged, disturbed>>
  BY <1>2 DEF SafeInv
<1>3. ASSUME NEW v \in Verdicts, ChainResult(v)
      PROVE  SafeInv' /\ disturbed \subseteq disturbed'
  <2>1. /\ UNCHANGED <<appPc, publish_topic, logged>> /\ disturbed \subseteq disturbed'
        /\ message'.topic = publish_topic
        /\ appPc # "idle" => frame' \in disturbed'
    BY <1>3 DEF ChainResult, NextFrame, appVars
  <2> QED
    BY <2>1 DEF SafeInv
<1>4. CASE PrintAndPush
  <2>1. /\ UNCHANGED <<appPc, publish_topic, frame, disturbed>>
        /\ message' = NULL /\ message # NULL
        /\ logged' = logged \cup {[frame |-> frame, topic |-> publish_topic]}
    BY <1>0, <1>4 DEF PrintAndPush, appVars
  <2>2. frame \in disturbed \/ publish_topic # Freed
    BY <1>0, <2>1 DEF SafeInv
  <2> QED
    BY <2>1, <2>2 DEF SafeInv
<1>5. CASE SetTopic
  <2>1. /\ UNCHANGED <<frame, message, logged>> /\ disturbed \subseteq disturbed'
        /\ message # NULL => frame \in disturbed'
    BY <1>0, <1>5 DEF SetTopic, streamVars
  <2> QED
    BY <2>1 DEF SafeInv
<1>6. CASE \E t \in Topics : Strdup(t)
  <2>1. /\ UNCHANGED <<frame, message, logged, disturbed>> /\ appPc = "g_strdup"
    BY <1>6 DEF Strdup, streamVars, historyVars
  <2> QED
    BY <2>1 DEF SafeInv
<1> QED
  BY <1>0, <1>1, <1>2, <1>3, <1>4, <1>5, <1>6
     DEF Next, Publishing, vars, appVars, streamVars, coreVars, historyVars, IInv, TypeOK, New,
         Play, Stop, Finalize, Register, ChainUnregistered, ChainNoResult,
         NextFrame, Activate, PublishReturns, Returns, CoreAccepts, CoreRefuses, Disconnect

-----------------------------------------------------------------------------
(* Messages sent, handled or not.                                          *)
Sent == pending \cup {accepted[i] : i \in DOMAIN accepted}

TopicInv ==
    /\ \A l \in logged : l.frame \in Nat /\ l.frame <= frame /\ (message # NULL => l.frame < frame)
    /\ message # NULL => \A m \in Sent : m.frame = frame => m.topic = message.topic
    /\ \A m \in Sent, l \in logged :
          l.frame = m.frame => l.frame \in disturbed \/ m.topic = l.topic

LEMMA SentFacts == IInv => \A m \in Sent : m.frame \in Nat /\ m.frame <= frame
  BY AcceptedTyped DEF IInv, TypeOK, FrameInv, IsTrue, Sent, Message

(* Every step keeps the topics of what is sent and of what is printed equal. *)
LEMMA TopicStep == IInv /\ SafeInv /\ TopicInv /\ [Next]_vars => TopicInv'
<1> SUFFICES ASSUME IInv, SafeInv, TopicInv, [Next]_vars PROVE TopicInv'
  OBVIOUS
<1>0. /\ TypeOK /\ frame \in Nat /\ disturbed \subseteq disturbed'
      /\ message # NULL => message.frame = frame
  BY SafeStep DEF IInv, TypeOK, FrameInv
<1>1. CASE UNCHANGED <<frame, message, logged>> /\ Sent' \subseteq Sent
  BY <1>0, <1>1 DEF TopicInv
<1>2. CASE ChainUnregistered \/ ChainNoResult
  <2>1. /\ frame' = frame + 1 /\ message = NULL
        /\ UNCHANGED <<message, logged>> /\ Sent' = Sent
    BY <1>0, <1>2 DEF ChainUnregistered, ChainNoResult, NextFrame, TypeOK, streamVars,
                coreVars, historyVars, Sent
  <2> QED
    BY <1>0, <2>1 DEF TopicInv
<1>3. ASSUME NEW v \in Verdicts, ChainResult(v) PROVE TopicInv'
  <2>1. frame' = frame + 1 /\ logged' = logged /\ Sent' = Sent
    BY <1>3 DEF ChainResult, NextFrame, coreVars, Sent
  <2>2. \A m \in Sent : m.frame # frame + 1
    BY <1>0, SentFacts
  <2> QED
    BY <1>0, <2>1, <2>2 DEF TopicInv
<1>4. CASE Activate
  <2>1. /\ message # NULL /\ UNCHANGED <<frame, message, logged>>
        /\ Sent' \subseteq Sent \cup {message}
    BY <1>0, <1>4 DEF Activate, TypeOK, historyVars, Sent
  <2>2. \A l \in logged : l.frame # frame
    BY <1>0, <2>1 DEF TopicInv
  <2> QED
    BY <1>0, <2>1, <2>2 DEF TopicInv
<1>5. CASE PrintAndPush
  <2> DEFINE l == [frame |-> frame, topic |-> publish_topic]
  <2>1. /\ message # NULL /\ message' = NULL /\ logged' = logged \cup {l}
        /\ frame' = frame /\ Sent' = Sent
    BY <1>0, <1>5 DEF PrintAndPush, TypeOK, coreVars, Sent
  <2>2. frame \in disturbed' \/ message.topic = publish_topic
    BY <1>0, <2>1 DEF SafeInv
  <2>3. l.frame = frame /\ l.topic = publish_topic
    OBVIOUS
  <2> HIDE DEF l
  <2> QED
    BY <1>0, <2>1, <2>2, <2>3 DEF TopicInv
<1>6. ASSUME NEW m \in pending, CoreAccepts(m) PROVE TopicInv'
  <2>1. UNCHANGED <<frame, message, logged>> /\ pending' \subseteq pending
    BY <1>6 DEF CoreAccepts, historyVars
  <2>2. \A i \in DOMAIN accepted' : accepted'[i] \in Sent
    BY <1>0, <1>6, AcceptExtends DEF Sent
  <2>3. Sent' \subseteq Sent
    BY <2>1, <2>2 DEF Sent
  <2> QED
    BY <1>1, <2>1, <2>3
<1>7. ASSUME NEW m \in pending, CoreRefuses(m) PROVE TopicInv'
  BY <1>1, <1>7 DEF CoreRefuses, historyVars, Sent
<1> QED
  BY <1>1, <1>2, <1>3, <1>4, <1>5, <1>6, <1>7
     DEF Next, Publishing, vars, streamVars, coreVars, historyVars, New, SetTopic, Strdup,
         Play, Stop, Finalize, Register, PublishReturns, Returns, Disconnect, Sent

(* Also while the topic is set and set again, chain prints the topic it    *)
(* has published to, and none that was freed, but for the frames whose     *)
(* chain a change falls into (gstmqttpublisher.cc:120-121 against 170-171).*)
THEOREM PrintedTopicsAreUsed == Spec => []PrintedTopicIsUsed
<1>1. Init => SafeInv /\ TopicInv
  BY DEF Init, SafeInv, TopicInv, Sent
<1>2. IInv /\ SafeInv /\ TopicInv /\ [Next]_vars => SafeInv' /\ TopicInv'
  BY SafeStep, TopicStep
<1>3. SafeInv /\ TopicInv => PrintedTopicIsUsed
  BY DEF SafeInv, TopicInv, PrintedTopicIsUsed, Sent
<1> QED
  BY <1>1, <1>2, <1>3, Invariance, PTL DEF Spec

-----------------------------------------------------------------------------
(* A result is in the call in progress, or its call has returned.          *)
LossInv ==
    /\ \A r \in results :
          r.frame \in succeeded \cup failed \/ (message # NULL /\ message.frame = r.frame)
    /\ streamPc = "g_print" => message.frame \in succeeded \cup failed

LEMMA LossStep == TypeOK /\ LossInv /\ [Next]_vars => LossInv'
<1> SUFFICES ASSUME TypeOK, LossInv, [Next]_vars PROVE LossInv'
  OBVIOUS
<1>1. CASE UNCHANGED <<streamPc, message, results, succeeded, failed>>
  BY <1>1 DEF LossInv
<1>2. ASSUME NEW v \in Verdicts, ChainResult(v) PROVE LossInv'
  <2>1. message' \in Message
    BY <1>2 DEF ChainResult, NextFrame, TypeOK, Message
  <2>2. message' # NULL /\ message'.frame = frame'
    BY <1>2, <2>1, MqttPublisherAssumption DEF ChainResult
  <2>3. \A r \in results : r.frame \in succeeded \cup failed
    BY <1>2 DEF ChainResult, NextFrame, LossInv, TypeOK
  <2>4. results' = results \cup {[frame |-> frame', verdict |-> v]} /\ streamPc' = "Activate"
        /\ succeeded' = succeeded /\ failed' = failed
    BY <1>2 DEF ChainResult
  <2> QED
    BY <2>2, <2>3, <2>4 DEF LossInv
<1>3. CASE Activate
  BY <1>3 DEF Activate, LossInv, historyVars
<1>4. ASSUME NEW s \in Status, PublishReturns(s) PROVE LossInv'
  BY <1>4 DEF PublishReturns, Returns, LossInv
<1>5. CASE PrintAndPush
  BY <1>5 DEF PrintAndPush, LossInv
<1> QED
  BY <1>1, <1>2, <1>3, <1>4, <1>5
     DEF Next, Publishing, vars, streamVars, historyVars, New, SetTopic, Strdup, Play, Stop,
         Finalize, Register, ChainUnregistered, ChainNoResult, CoreAccepts, CoreRefuses,
         Disconnect

(* No result is lost whose publish was not reported FAILED                 *)
(* (gstmqttpublisher.cc:170, GreengrassClient.cc:43-65).                   *)
THEOREM LossesAreReported == Spec => []LossIsReported
<1>1. Init => LossInv
  BY DEF Init, LossInv
<1>2. LossInv /\ IInv => LossIsReported
  BY DEF LossInv, IInv, SuccessIsAccepted, LossIsReported
<1> QED
  BY <1>1, <1>2, LossStep, Invariance, PTL DEF Spec, IInv
=============================================================================
