---------------------------- MODULE LookoutVision ----------------------------
(***************************************************************************)
(* The lookoutvision GStreamer element (gstlookoutvision.cc): the          *)
(* application thread creates it, sets its properties, plays and finalizes *)
(* it; the streaming thread brings caps events and buffers.  The fields    *)
(* they share, model_component and the client's stub, have no lock.        *)
(*                                                                         *)
(* The inference client is seen as the element sees it: StartModel may     *)
(* return SUCCESSFUL (never with a timeout of 0, see StartModel) or        *)
(* FAILED, DetectAnomalies returns a result that is SUCCESSFUL or FAILED.  *)
(***************************************************************************)
EXTENDS Integers

CONSTANTS
    Models,         \* values of model-component
    Servers,        \* values of server-socket
    DefaultServer,  \* the socket the element is created with
    Timeouts,       \* values of model-status-timeout
    DefaultTimeout, \* the one the element is created with
    Dims,           \* width and height in caps that have them
    NoDims,         \* caps without width or height
    Zero,           \* the width and height of an element that saw no caps
    NULL,           \* no value
    Freed           \* a pointer to a string or a stub that was freed

ASSUME LookoutVisionAssumption ==
    /\ DefaultServer \in Servers
    /\ Timeouts \subseteq Nat /\ DefaultTimeout \in Nat
    /\ NULL # Freed /\ {NULL, Freed} \cap (Models \cup Servers \cup Dims) = {}
    /\ NoDims # NULL /\ {NoDims, Zero} \cap Dims = {}

VARIABLES
    \* The application thread:
    appPc,      \* "idle", in set_property's "StartModel" or "g_strdup", or "finalized"
    property,   \* the property being set, with its new value
    playing,
    lastStart,  \* what the last StartModel returned; FAILED posts an element error
    \* GstLookoutVision:
    model_component, model_status_timeout,
    stub,       \* the server the client's stub is connected to
    dims,       \* width and height
    probe,      \* pad_probe is installed on the sink pad
    \* The streaming thread:
    streamPc,   \* "idle", or in chain: "c_str", "DetectAnomalies", "annotate"
    caps,       \* the sink pad's caps, as far as the dimensions
    shared,     \* the buffer in chain is not writable
    request,    \* the model, stub and dimensions DetectAnomalies works with
    result,     \* its result_status
    pushed,     \* result_status in the metadata of the last buffer pushed, or NULL
    \* History, read by the properties only:
    started,    \* (server, model) for which StartModel returned SUCCESSFUL
    disturbed   \* during the chain in progress model_component or the stub was replaced

appVars     == <<appPc, property, playing, lastStart>>
elementVars == <<model_component, model_status_timeout, stub, dims, probe>>
streamVars  == <<streamPc, caps, shared, request, result, pushed>>
historyVars == <<started, disturbed>>
vars        == <<appVars, elementVars, streamVars, historyVars>>

Status == {"SUCCESSFUL", "FAILED"}
NoProperty == [name |-> "none", value |-> NULL]
NoRequest  == [model |-> NULL, stub |-> NULL, dims |-> NULL]

(* gst_lookout_vision_init *)
Init ==
    /\ appPc = "idle" /\ property = NoProperty /\ playing = FALSE /\ lastStart = NULL
    /\ model_component = NULL /\ model_status_timeout = DefaultTimeout
    /\ stub = DefaultServer /\ dims = Zero /\ probe = TRUE
    /\ streamPc = "idle" /\ caps = NULL /\ shared = FALSE
    /\ request = NoRequest /\ result = NULL /\ pushed = NULL
    /\ started = {} /\ disturbed = FALSE

-----------------------------------------------------------------------------
(* The application thread. *)

(* set_property may be called at any time, also while buffers flow.        *)
SetProperty == appPc = "idle"

(* It replaces what chain may be using.                                    *)
Disturb == disturbed' = (disturbed \/ streamPc # "idle")

StartModel(prop, m) == appPc' = "StartModel" /\ property' = [name |-> prop, value |-> m]

MutantSetServerSocket(s) ==
    /\ SetProperty /\ Disturb
    /\ stub' = s
    /\ request' = IF request.stub = NULL THEN request ELSE [request EXCEPT !.stub = Freed]
    /\ UNCHANGED <<appVars, model_component, model_status_timeout, dims, probe,
                   streamPc, caps, shared, result, pushed, started>>

(* setServerSocket frees the stub, also one that an RPC is being made on,  *)
(* and the model already set is started on the new server.                 *)
SetServerSocket(s) ==
    /\ SetProperty /\ Disturb
    /\ stub' = s
    /\ request' = IF request.stub = NULL THEN request ELSE [request EXCEPT !.stub = Freed]
    /\ \/ model_component # NULL /\ StartModel("server-socket", model_component)
       \/ model_component = NULL /\ UNCHANGED <<appPc, property>>
    /\ UNCHANGED <<playing, lastStart, model_component, model_status_timeout, dims, probe,
                   streamPc, caps, shared, result, pushed, started>>

MutantFreeFirst(m) ==
    /\ SetProperty /\ Disturb
    /\ StartModel("model-component", m)
    /\ model_component' = IF model_component = NULL THEN NULL ELSE Freed
    /\ UNCHANGED <<playing, lastStart, model_status_timeout, stub, dims, probe,
                   streamVars, started>>

(* The new model is started before it replaces the old one. *)
SetModelComponent(m) ==
    /\ SetProperty
    /\ StartModel("model-component", m)
    /\ UNCHANGED <<playing, lastStart, elementVars, streamVars, historyVars>>

SetModelStatusTimeout(t) ==
    /\ SetProperty
    /\ model_status_timeout' = t
    /\ UNCHANGED <<appVars, model_component, stub, dims, probe, streamVars, historyVars>>

(* g_free(model_component); the streaming thread may hold the pointer. *)
FreeModel ==
    /\ model_component' = IF model_component = NULL THEN NULL ELSE Freed
    /\ request' = IF streamPc = "c_str" THEN [request EXCEPT !.model = Freed] ELSE request
    /\ Disturb

MutantStartModelReturns(r) ==
    /\ appPc = "StartModel"
    /\ r = "SUCCESSFUL" => model_status_timeout > 0
    /\ lastStart' = r
    /\ started' = IF r = "SUCCESSFUL" THEN started \cup {<<stub, property.value>>} ELSE started
    /\ \/ property.name = "model-component"
          /\ appPc' = "g_strdup" /\ UNCHANGED property /\ FreeModel
       \/ property.name = "server-socket"
          /\ appPc' = "idle" /\ property' = NoProperty
          /\ UNCHANGED <<model_component, request, disturbed>>
    /\ UNCHANGED <<playing, model_status_timeout, stub, dims, probe,
                   streamPc, caps, shared, result, pushed>>

(* A failure is posted as an element error; the old model, if any, stays.  *)
StartModelReturns(r) ==
    /\ appPc = "StartModel"
    /\ r = "SUCCESSFUL" => model_status_timeout > 0
    /\ lastStart' = r
    /\ started' = IF r = "SUCCESSFUL" THEN started \cup {<<stub, property.value>>} ELSE started
    /\ \/ r = "SUCCESSFUL" /\ property.name = "model-component"
          /\ appPc' = "g_strdup" /\ UNCHANGED property /\ FreeModel
       \/ (r = "FAILED" \/ property.name = "server-socket")
          /\ appPc' = "idle" /\ property' = NoProperty
          /\ UNCHANGED <<model_component, request, disturbed>>
    /\ UNCHANGED <<playing, model_status_timeout, stub, dims, probe,
                   streamPc, caps, shared, result, pushed>>

Strdup ==
    /\ appPc = "g_strdup"
    /\ model_component' = property.value
    /\ appPc' = "idle" /\ property' = NoProperty
    /\ UNCHANGED <<playing, lastStart, model_status_timeout, stub, dims, probe,
                   streamVars, historyVars>>

Play ==
    /\ appPc = "idle" /\ ~playing
    /\ playing' = TRUE
    /\ UNCHANGED <<appPc, property, lastStart, elementVars, streamVars, historyVars>>

(* Leaving PAUSED waits for the streaming thread, and the pad forgets its  *)
(* caps.                                                                   *)
Stop ==
    /\ appPc = "idle" /\ playing /\ streamPc = "idle"
    /\ playing' = FALSE /\ caps' = NULL
    /\ UNCHANGED <<appPc, property, lastStart, elementVars, streamPc, shared, request, result,
                   pushed, historyVars>>

Finalize ==
    /\ appPc = "idle" /\ ~playing
    /\ appPc' = "finalized"
    /\ model_component' = NULL /\ stub' = NULL
    /\ UNCHANGED <<property, playing, lastStart, model_status_timeout, dims, probe,
                   streamVars, historyVars>>

(* Another element is made. *)
New ==
    /\ appPc = "finalized"
    /\ appPc' = "idle" /\ lastStart' = NULL /\ pushed' = NULL
    /\ model_status_timeout' = DefaultTimeout
    /\ stub' = DefaultServer /\ dims' = Zero /\ probe' = TRUE
    /\ UNCHANGED <<property, playing, model_component, streamPc, caps, shared, request, result,
                   historyVars>>

-----------------------------------------------------------------------------
(* The streaming thread. *)

MutantPadProbe(d) ==
    \/ d = NoDims /\ probe' = FALSE /\ UNCHANGED dims
    \/ d # NoDims /\ dims' = (IF dims = Zero THEN d ELSE dims) /\ UNCHANGED probe

(* pad_probe takes the dimensions from the caps, and removes itself at     *)
(* caps that have none.                                                    *)
PadProbe(d) ==
    \/ d = NoDims /\ probe' = FALSE /\ UNCHANGED dims
    \/ d # NoDims /\ dims' = d /\ UNCHANGED probe

CapsEvent(d) ==
    /\ playing /\ streamPc = "idle"
    /\ caps' = d
    /\ \/ probe /\ PadProbe(d)
       \/ ~probe /\ UNCHANGED <<dims, probe>>
    /\ UNCHANGED <<appVars, model_component, model_status_timeout, stub,
                   streamPc, shared, request, result, pushed, historyVars>>

(* chain reads the pointer model_component ...                             *)
Chain(s) ==
    /\ playing /\ streamPc = "idle" /\ caps # NULL
    /\ shared' = s
    /\ disturbed' = (appPc = "g_strdup")
    /\ \/ /\ model_component # NULL
          /\ streamPc' = "c_str"
          /\ request' = [NoRequest EXCEPT !.model = model_component]
          /\ UNCHANGED result
       \/ /\ model_component = NULL
          /\ streamPc' = "annotate"
          /\ result' = "FAILED"
          /\ UNCHANGED request
    /\ UNCHANGED <<appVars, elementVars, caps, pushed, started>>

(* ... DetectAnomalies copies the string and calls the stub.               *)
DetectAnomalies ==
    /\ streamPc = "c_str"
    /\ streamPc' = "DetectAnomalies"
    /\ request' = [request EXCEPT !.stub = stub, !.dims = dims]
    /\ UNCHANGED <<appVars, elementVars, caps, shared, result, pushed, historyVars>>

DetectAnomaliesReturns(r) ==
    /\ streamPc = "DetectAnomalies"
    /\ streamPc' = "annotate"
    /\ result' = r
    /\ request' = NoRequest
    /\ UNCHANGED <<appVars, elementVars, caps, shared, pushed, historyVars>>

(* The result becomes metadata, unless the buffer is not writable, and the *)
(* buffer is pushed.                                                       *)
Push ==
    /\ streamPc = "annotate"
    /\ pushed' = IF shared THEN NULL ELSE result
    /\ streamPc' = "idle" /\ shared' = FALSE /\ result' = NULL /\ disturbed' = FALSE
    /\ UNCHANGED <<appVars, elementVars, caps, request, started>>

-----------------------------------------------------------------------------
Next ==
    \/ \E s \in Servers : SetServerSocket(s)
    \/ \E m \in Models : SetModelComponent(m)
    \/ \E t \in Timeouts : SetModelStatusTimeout(t)
    \/ \E r \in Status : StartModelReturns(r)
    \/ Strdup
    \/ Play \/ Stop
    \/ Finalize \/ New
    \/ \E d \in Dims \cup {NoDims} : CapsEvent(d)
    \/ \E s \in BOOLEAN : Chain(s)
    \/ DetectAnomalies
    \/ \E r \in Status : DetectAnomaliesReturns(r)
    \/ Push

Spec == Init /\ [][Next]_vars

-----------------------------------------------------------------------------
(* Properties. *)

Property ==
    [name : {"none", "server-socket", "model-component"}, value : Models \cup {NULL}]
Request ==
    [model : Models \cup {NULL, Freed}, stub : Servers \cup {NULL, Freed},
     dims : Dims \cup {Zero, NULL}]

(* The variables have their types, and model_component dangles only inside *)
(* set_property, between g_free and g_strdup (gstlookoutvision.cc:160-167).*)
TypeOK ==
    /\ appPc \in {"idle", "StartModel", "g_strdup", "finalized"}
    /\ property \in Property
    /\ playing \in BOOLEAN /\ probe \in BOOLEAN /\ shared \in BOOLEAN
    /\ lastStart \in Status \cup {NULL}
    /\ model_component \in Models \cup {NULL, Freed}
    /\ model_status_timeout \in Nat
    /\ stub \in Servers \cup {NULL}
    /\ dims \in Dims \cup {Zero}
    /\ streamPc \in {"idle", "c_str", "DetectAnomalies", "annotate"}
    /\ caps \in Dims \cup {NoDims, NULL}
    /\ request \in Request
    /\ result \in Status \cup {NULL}
    /\ pushed \in Status \cup {NULL}
    /\ started \subseteq Servers \X Models /\ disturbed \in BOOLEAN
    /\ stub = NULL <=> appPc = "finalized"
    /\ property.value # NULL <=> appPc \in {"StartModel", "g_strdup"}
    /\ model_component = Freed => appPc = "g_strdup"

(* Properties may be set while buffers flow, and StartModel takes its time.*)
(* A buffer is inferred with a model name or a stub that was freed only if *)
(* one of these falls into its own chain: the g_free and g_strdup that     *)
(* follow a SUCCESSFUL StartModel, or setServerSocket.  The buffers that   *)
(* pass during StartModel, and all after one that FAILED, are safe         *)
(* (gstlookoutvision.cc:228-230 against 150-168,                           *)
(* LookoutVisionInferenceClient.cc:58 against 83).                         *)
NoUseAfterFree == Freed \in {request.model, request.stub} => disturbed

(* When set_property has returned, the model in use was started on the     *)
(* server in use, or the application was told of a failure: whatever the   *)
(* order in which the properties are set (gstlookoutvision.cc:149-168).    *)
UnstartedIsReported ==
    appPc = "idle" /\ model_component # NULL /\ <<stub, model_component>> \notin started
        => lastStart = "FAILED"

(* The agent is only asked for models that were started, on one server or  *)
(* another: a failed StartModel leaves the previous model in use           *)
(* (gstlookoutvision.cc:161-167, 228-230).                                 *)
OnlyStartedModels ==
    request.model \in Models => \E s \in Servers : <<s, request.model>> \in started

(* As long as no caps came without dimensions, a frame is sent with the    *)
(* dimensions of its own caps (gstlookoutvision.cc:100-117, 229-230).      *)
DimsFresh == streamPc = "DetectAnomalies" /\ probe => request.dims = caps

(* "width - width of the bitmap in pixels" (Inference.proto:123): a frame  *)
(* whose caps have dimensions is sent with these, whatever caps came       *)
(* before (gstlookoutvision.cc:100-117).                                   *)
DimsMatch == streamPc = "DetectAnomalies" /\ caps \in Dims => request.dims = caps

(* Every buffer leaves the element with a result attached, SUCCESSFUL or   *)
(* FAILED, also without a model (gstlookoutvision.cc:227-236).             *)
PushedIsAnnotated ==
    [][streamPc = "annotate" /\ streamPc' = "idle" => pushed' # NULL]_vars
=============================================================================
