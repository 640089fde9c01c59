---------------------------- MODULE MqttPublisher ----------------------------
(***************************************************************************)
(* The mqttpublisher GStreamer element (gstmqttpublisher.cc) with its      *)
(* GreengrassClient: the application thread sets the topic, plays and      *)
(* finalizes it; the streaming thread publishes the result of each buffer  *)
(* to the Greengrass core over the one IPC connection, and waits for the   *)
(* answer no longer than TIMEOUT_IN_SECONDS; the core answers when it can, *)
(* also after that.  The field publish_topic has no lock.                  *)
(***************************************************************************)
EXTENDS Integers, Sequences

CONSTANTS
    Topics,       \* values of publish-topic
    DefaultTopic, \* the one the element is created with
    Verdicts,     \* is_anomalous and confidence of a SUCCESSFUL result
    MaxFrames,    \* bound: buffers that reach chain
    NULL,         \* no value
    Freed         \* a pointer to a string that was freed

Message == [frame : Nat, verdict : Verdicts, topic : Topics \cup {Freed}]

ASSUME MqttPublisherAssumption ==
    /\ DefaultTopic \in Topics
    /\ MaxFrames \in Nat
    /\ NULL # Freed /\ {NULL, Freed} \cap Topics = {} /\ NULL \notin Message

VARIABLES
    \* The process and its application thread:
    phase,      \* "new", "stopped", "playing", "finalized" or "crashed"
    appPc,      \* "idle", or in set_property: "g_strdup"
    publish_topic,
    registered, \* GstLookoutVisionMeta is registered in the process
    \* The streaming thread:
    streamPc,   \* "idle", or in chain: "Activate", "GetResult", "g_print"
    frame,      \* buffers that reached chain
    message,    \* what PublishToIoTMQTT publishes, or NULL
    response,   \* what the future holds: "none", "ok" or "error"
    \* The connection and the Greengrass core:
    connected,
    pending,    \* requests sent that the core has not handled
    accepted,   \* the messages the core has taken over, in order
    \* History, read by the properties only:
    results,    \* the frames with a SUCCESSFUL result
    succeeded,  \* those for which PublishToIoTMQTT returned SUCCESSFUL
    failed,     \* and those for which it returned FAILED
    logged,     \* what chain has printed as published
    disturbed   \* the frames during whose chain the topic was being set

appVars     == <<phase, appPc, publish_topic, registered>>
streamVars  == <<streamPc, frame, message, response>>
coreVars    == <<connected, pending, accepted>>
historyVars == <<results, succeeded, failed, logged, disturbed>>
vars        == <<appVars, streamVars, coreVars, historyVars>>

Status == {"SUCCESSFUL", "FAILED"}

Init ==
    /\ phase = "new" /\ appPc = "idle" /\ publish_topic = NULL /\ registered = FALSE
    /\ streamPc = "idle" /\ frame = 0 /\ message = NULL /\ response = "none"
    /\ connected = FALSE /\ pending = {} /\ accepted = <<>>
    /\ results = {} /\ succeeded = {} /\ failed = {} /\ logged = {}
    /\ disturbed = {}

-----------------------------------------------------------------------------
(* The application thread. *)

(* gst_mqtt_publisher_init connects; the constructor of GreengrassClient   *)
(* throws if it cannot, and nothing catches that.                          *)
New ==
    /\ phase = "new"
    /\ publish_topic' = DefaultTopic
    /\ \/ phase' = "stopped" /\ connected' = TRUE
       \/ phase' = "crashed" /\ UNCHANGED connected
    /\ UNCHANGED <<appPc, registered, streamVars, pending, accepted, historyVars>>

(* set_property frees the topic ... *)
SetTopic ==
    /\ appPc = "idle"
    /\ phase \in {"stopped", "playing"}
    /\ disturbed' = disturbed \cup (IF streamPc = "idle" THEN {} ELSE {frame})
    /\ publish_topic' = Freed
    /\ appPc' = "g_strdup"
    /\ UNCHANGED <<phase, registered, streamVars, coreVars, results, succeeded, failed, logged>>

MutantStrdup(t) ==
    /\ appPc = "g_strdup" /\ phase # "crashed"
    /\ appPc' = "idle"
    /\ UNCHANGED <<phase, publish_topic, registered, streamVars, coreVars, historyVars>>

(* ... and stores a copy of the new one. *)
Strdup(t) ==
    /\ appPc = "g_strdup" /\ phase # "crashed"
    /\ publish_topic' = t
    /\ appPc' = "idle"
    /\ UNCHANGED <<phase, registered, streamVars, coreVars, historyVars>>

Play ==
    /\ phase = "stopped" /\ appPc = "idle"
    /\ phase' = "playing"
    /\ UNCHANGED <<appPc, publish_topic, registered, streamVars, coreVars, historyVars>>

(* Leaving PAUSED waits for the streaming thread. *)
Stop ==
    /\ phase = "playing" /\ appPc = "idle" /\ streamPc = "idle"
    /\ phase' = "stopped"
    /\ UNCHANGED <<appPc, publish_topic, registered, streamVars, coreVars, historyVars>>

(* The client and its connection are not deleted. *)
Finalize ==
    /\ phase = "stopped" /\ appPc = "idle"
    /\ phase' = "finalized"
    /\ publish_topic' = NULL
    /\ UNCHANGED <<appPc, registered, streamVars, coreVars, historyVars>>

(* A lookoutvision element annotates its first buffer. *)
Register ==
    /\ phase # "crashed" /\ ~registered
    /\ registered' = TRUE
    /\ UNCHANGED <<phase, appPc, publish_topic, streamVars, coreVars, historyVars>>

-----------------------------------------------------------------------------
(* The streaming thread. *)

NextFrame ==
    /\ phase = "playing" /\ streamPc = "idle" /\ frame < MaxFrames
    /\ frame' = frame + 1

(* gst_buffer_get_lookout_vision_meta reads the api of a metadata type     *)
(* that is not registered: the process gets a SIGSEGV.                     *)
ChainUnregistered ==
    /\ NextFrame
    /\ ~registered
    /\ phase' = "crashed"
    /\ UNCHANGED <<appPc, publish_topic, registered, streamPc, message, response,
                   coreVars, historyVars>>

(* No metadata, or a FAILED result: the buffer is pushed as it is. *)
ChainNoResult ==
    /\ NextFrame
    /\ registered
    /\ UNCHANGED <<appVars, streamPc, message, response, coreVars, historyVars>>

MutantChainResult(v) ==
    /\ NextFrame
    /\ registered
    /\ streamPc' = "Activate"
    /\ message' = [frame |-> frame', verdict |-> v, topic |-> DefaultTopic]
    /\ results' = results \cup {[frame |-> frame', verdict |-> v]}
    /\ disturbed' = disturbed \cup (IF appPc = "idle" THEN {} ELSE {frame'})
    /\ UNCHANGED <<appVars, response, coreVars, succeeded, failed, logged>>

(* A SUCCESSFUL result: chain calls PublishToIoTMQTT, which copies topic   *)
(* and verdict into the request.                                           *)
ChainResult(v) ==
    /\ NextFrame
    /\ registered
    /\ streamPc' = "Activate"
    /\ message' = [frame |-> frame', verdict |-> v, topic |-> publish_topic]
    /\ results' = results \cup {[frame |-> frame', verdict |-> v]}
    /\ disturbed' = disturbed \cup (IF appPc = "idle" THEN {} ELSE {frame'})
    /\ UNCHANGED <<appVars, response, coreVars, succeeded, failed, logged>>

(* Activate sends the request, unless the connection is gone; its result   *)
(* is not looked at, the future of GetResult then holds an error.          *)
Activate ==
    /\ streamPc = "Activate"
    /\ streamPc' = "GetResult"
    /\ \/ connected /\ pending' = pending \cup {message} /\ response' = "none"
       \/ ~connected /\ UNCHANGED pending /\ response' = "error"
    /\ UNCHANGED <<appVars, frame, message, connected, accepted, historyVars>>

Returns(s) ==
    /\ streamPc = "GetResult"
    /\ streamPc' = "g_print"
    /\ response' = "none"
    /\ \/ s = "SUCCESSFUL" /\ succeeded' = succeeded \cup {message.frame} /\ UNCHANGED failed
       \/ s = "FAILED" /\ failed' = failed \cup {message.frame} /\ UNCHANGED succeeded
    /\ UNCHANGED <<appVars, frame, message, coreVars, results, logged, disturbed>>

MutantNotTimedOut(s) == (s = "SUCCESSFUL") = (response # "error") /\ Returns(s)

MutantNoTimeout(s) ==
    /\ response # "none"
    /\ s = "SUCCESSFUL" => response = "ok"
    /\ Returns(s)

MutantRetry(s) ==
    \/ s = "SUCCESSFUL" /\ response = "ok" /\ Returns(s)
    \/ /\ s = "FAILED" /\ streamPc = "GetResult"
       /\ streamPc' = "Activate" /\ response' = "none"
       /\ UNCHANGED <<appVars, frame, message, coreVars, historyVars>>

(* GetResult and wait_for: the time may be over although the core has the  *)
(* request, or its answer is on its way.                                   *)
PublishReturns(s) ==
    /\ s = "SUCCESSFUL" => response = "ok"
    /\ Returns(s)

(* chain reads the topic again, prints "Published to MQTT topic" whatever  *)
(* PublishToIoTMQTT returned, and pushes the buffer.                       *)
PrintAndPush ==
    /\ streamPc = "g_print"
    /\ logged' = logged \cup {[frame |-> message.frame, topic |-> publish_topic]}
    /\ streamPc' = "idle" /\ message' = NULL
    /\ UNCHANGED <<appVars, frame, response, coreVars, results, succeeded, failed, disturbed>>

-----------------------------------------------------------------------------
(* The Greengrass core and the connection. *)

(* The answer reaches an operation that still waits for it. *)
Answer(m, r) ==
    response' = IF connected /\ streamPc = "GetResult" /\ m = message THEN r ELSE response

CoreAccepts(m) ==
    /\ pending' = pending \ {m}
    /\ accepted' = Append(accepted, m)
    /\ Answer(m, "ok")
    /\ UNCHANGED <<appVars, streamPc, frame, message, connected, historyVars>>

(* The core refuses the request, or it is lost with the connection. *)
CoreRefuses(m) ==
    /\ pending' = pending \ {m}
    /\ Answer(m, "error")
    /\ UNCHANGED <<appVars, streamPc, frame, message, connected, accepted, historyVars>>

(* Nothing connects again; what waits for an answer gets an error. *)
Disconnect ==
    /\ connected
    /\ connected' = FALSE
    /\ response' = IF streamPc = "GetResult" /\ response = "none" THEN "error" ELSE response
    /\ UNCHANGED <<appVars, streamPc, frame, message, pending, accepted, historyVars>>

-----------------------------------------------------------------------------
Publishing == Activate \/ (\E s \in Status : PublishReturns(s)) \/ PrintAndPush

Next ==
    \/ New \/ SetTopic \/ (\E t \in Topics : Strdup(t))
    \/ Play \/ Stop \/ Finalize \/ Register
    \/ ChainUnregistered \/ ChainNoResult
    \/ \E v \in Verdicts : ChainResult(v)
    \/ Publishing
    \/ \E m \in pending : CoreAccepts(m) \/ CoreRefuses(m)
    \/ Disconnect

Spec == Init /\ [][Next]_vars

(* The streaming thread is scheduled, and sends what it activates.         *)
(* Nothing is assumed of the core: wait_for ends by itself.                *)
FairSpec == Spec /\ WF_vars(Publishing)

-----------------------------------------------------------------------------
(* Properties. *)

(* The variables have their types; publish_topic dangles only inside       *)
(* set_property, and is NULL only before and after the element's life      *)
(* (gstmqttpublisher.cc:111, 120-121, 146-147).                            *)
TypeOK ==
    /\ phase \in {"new", "stopped", "playing", "finalized", "crashed"}
    /\ appPc \in {"idle", "g_strdup"}
    /\ publish_topic \in Topics \cup {NULL, Freed}
    /\ registered \in BOOLEAN /\ connected \in BOOLEAN
    /\ streamPc \in {"idle", "Activate", "GetResult", "g_print"}
    /\ frame \in Nat
    /\ message \in Message \cup {NULL}
    /\ response \in {"none", "ok", "error"}
    /\ pending \subseteq Message /\ accepted \in Seq(Message)
    /\ results \subseteq [frame : Nat, verdict : Verdicts]
    /\ succeeded \subseteq Nat /\ failed \subseteq Nat /\ disturbed \subseteq Nat
    /\ logged \subseteq [frame : Nat, topic : Topics \cup {Freed}]
    /\ publish_topic = NULL <=> phase \in {"new", "finalized"}
    /\ publish_topic = Freed => appPc = "g_strdup"
    /\ appPc = "g_strdup" => phase \in {"stopped", "playing", "crashed"}
    /\ message # NULL <=> streamPc # "idle"
    /\ streamPc # "idle" => phase = "playing"

IsAccepted(f) == \E i \in DOMAIN accepted : accepted[i].frame = f

(* SUCCESSFUL is returned only for messages the core has taken over,       *)
(* however late its answers (GreengrassClient.cc:43-52).                   *)
SuccessIsAccepted == \A f \in succeeded : IsAccepted(f)

(* Messages reach the core in the order of their frames, except for those  *)
(* whose call was reported FAILED and which come late                      *)
(* (GreengrassClient.cc:43-46, gstmqttpublisher.cc:170).                   *)
OvertakenHadFailed ==
    \A i, j \in DOMAIN accepted :
        i < j /\ accepted[j].frame < accepted[i].frame => accepted[j].frame \in failed

(* Setting the topic while buffers flow harms at most the frame whose      *)
(* chain it falls into: of every other one, whenever the topic was set     *)
(* before or after it and however late its message is taken over, chain    *)
(* prints the topic that the message went to, and that was not freed       *)
(* (gstmqttpublisher.cc:120-121 against 170-171).                          *)
PrintedTopicIsUsed == \A l \in logged :
    \/ l.frame \in disturbed
    \/ /\ l.topic # Freed
       /\ \A i \in DOMAIN accepted :
             accepted[i].frame = l.frame => accepted[i].topic = l.topic

(* A result is lost only if its publish was reported FAILED: every other   *)
(* one is with the core or in the call in progress, although chain drops   *)
(* what PublishToIoTMQTT returns (gstmqttpublisher.cc:170).                *)
LossIsReported == \A r \in results :
    \/ IsAccepted(r.frame) \/ r.frame \in failed
    \/ message # NULL /\ message.frame = r.frame

(* "Failed to read metadata" (gstmqttpublisher.cc:176): a buffer without   *)
(* metadata is passed on.                                                  *)
NoMetadataNoHarm == [][phase = "playing" => phase' # "crashed"]_vars

(* A core that does not answer, or a connection that is lost, does not     *)
(* stop the video: every buffer is pushed (GreengrassClient.cc:44,         *)
(* gstmqttpublisher.cc:179).                                               *)
BuffersFlow == streamPc # "idle" ~> streamPc = "idle"

(* What the core takes over are true verdicts, of each frame at most one   *)
(* (gstmqttpublisher.cc:163-176, GreengrassClient.cc:29-47).  That is what *)
(* this program answers for: it asks for QOS_AT_LEAST_ONCE (:37), so from  *)
(* the core to a subscriber a message may be repeated.                     *)
Feed == INSTANCE ResultFeed WITH
    feed <- [i \in DOMAIN accepted |->
                [frame |-> accepted[i].frame, verdict |-> accepted[i].verdict]]

KeepsFeed == Feed!Spec
=============================================================================
