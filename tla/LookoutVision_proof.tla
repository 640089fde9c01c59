------------------------ MODULE LookoutVision_proof ------------------------
(***************************************************************************)
(* Proofs about LookoutVision for every set of models, servers, timeouts   *)
(* and dimensions, and for any interleaving of the two threads.            *)
(***************************************************************************)
EXTENDS LookoutVision, TLAPS

(* Every step of either thread keeps the types.                            *)
LEMMA TypeStep == TypeOK /\ [Next]_vars => TypeOK'
<1> SUFFICES ASSUME TypeOK, [Next]_vars PROVE TypeOK'
  OBVIOUS
<1> USE LookoutVisionAssumption
    DEF TypeOK, Status, appVars, elementVars, streamVars, historyVars
<1>1. CASE \E s \in Servers : SetServerSocket(s)
  <2>1. disturbed' \in BOOLEAN
    BY <1>1 DEF SetServerSocket, Disturb
  <2> QED
    BY <1>1, <2>1 DEF SetServerSocket, SetProperty, StartModel, Property, Request
<1>2. CASE \E m \in Models : SetModelComponent(m)
  BY <1>2 DEF SetModelComponent, SetProperty, StartModel, Property
<1>3. CASE \E t \in Timeouts : SetModelStatusTimeout(t)
  BY <1>3 DEF SetModelStatusTimeout, SetProperty
<1>4. CASE \E r \in Status : StartModelReturns(r)
  <2> PICK r \in Status : StartModelReturns(r)
    BY <1>4
  <2>1. property.value \in Models /\ property \in Property
    BY DEF StartModelReturns, Property
  <2>2. /\ property' \in Property
        /\ property'.value # NULL <=> appPc' \in {"StartModel", "g_strdup"}
    BY <2>1 DEF StartModelReturns, Property, NoProperty
  <2>3. /\ request' \in Request
        /\ model_component' \in Models \cup {NULL, Freed}
        /\ model_component' = Freed => appPc' = "g_strdup"
    BY DEF StartModelReturns, FreeModel, Request
  <2>4. started' \subseteq Servers \X Models
    <3>1. stub \in Servers
      BY DEF StartModelReturns
    <3> QED
      BY <2>1, <3>1 DEF StartModelReturns
  <2>5. disturbed' \in BOOLEAN
    BY DEF StartModelReturns, FreeModel, Disturb
  <2> QED
    BY <2>2, <2>3, <2>4, <2>5 DEF StartModelReturns
<1>5. CASE Strdup
  BY <1>5 DEF Strdup, Property, NoProperty
<1>6. CASE Play
  BY <1>6 DEF Play
<1>7. CASE Stop
  BY <1>7 DEF Stop
<1>8. CASE Finalize
  BY <1>8 DEF Finalize
<1>9. CASE New
  BY <1>9 DEF New
<1>10. CASE \E d \in Dims \cup {NoDims} : CapsEvent(d)
  <2> PICK d \in Dims \cup {NoDims} : CapsEvent(d)
    BY <1>10
  <2>1. /\ dims' \in Dims \cup {Zero}
        /\ probe' \in BOOLEAN
        /\ caps' \in Dims \cup {NoDims, NULL}
    BY DEF CapsEvent, PadProbe
  <2> QED
    BY <2>1 DEF CapsEvent
<1>11. CASE \E s \in BOOLEAN : Chain(s)
  BY <1>11 DEF Chain, Request, NoRequest
<1>12. CASE DetectAnomalies
  <2>1. request' \in Request
    BY <1>12 DEF DetectAnomalies, Request
  <2> QED
    BY <1>12, <2>1 DEF DetectAnomalies
<1>13. CASE \E r \in Status : DetectAnomaliesReturns(r)
  BY <1>13 DEF DetectAnomaliesReturns, Request, NoRequest
<1>14. CASE Push
  <2>1. pushed' \in Status \cup {NULL} /\ result' \in Status \cup {NULL}
    BY <1>14 DEF Push
  <2> QED
    BY <1>14, <2>1 DEF Push
<1>15. CASE UNCHANGED vars
  BY <1>15 DEF vars
<1> QED
  BY <1>1, <1>2, <1>3, <1>4, <1>5, <1>6, <1>7, <1>8,
     <1>9, <1>10, <1>11, <1>12, <1>13, <1>14, <1>15 DEF Next

(* Every field of the element and of the buffer being inferred keeps its   *)
(* type, and model_component dangles only within set_property              *)
(* (gstlookoutvision.cc:160-167).                                          *)
THEOREM TypeCorrect == Spec => []TypeOK
<1>1. Init => TypeOK
  <2>1. Init => /\ property \in Property /\ property.value = NULL
                /\ request \in Request
    BY DEF Init, Property, Request, NoProperty, NoRequest
  <2> QED
    BY <2>1, LookoutVisionAssumption DEF Init, TypeOK
<1> QED
  BY <1>1, TypeStep, PTL DEF Spec

-----------------------------------------------------------------------------
(* What is known of the models in use.  Between two calls of set_property  *)
(* UnstartedIsReported speaks; within one, the invariant says what the     *)
(* outcome of StartModel will be about.                                    *)

IsStarted(m) == \E s \in Servers : <<s, m>> \in started

StartInv ==
    /\ appPc = "StartModel" /\ property.name = "server-socket"
           => property.value = model_component
    /\ appPc = "StartModel" /\ property.name = "model-component"
              /\ model_component # NULL /\ <<stub, model_component>> \notin started
           => lastStart = "FAILED"
    /\ appPc = "g_strdup" => <<stub, property.value>> \in started
    /\ appPc = "finalized" => model_component = NULL
    /\ model_component \in Models => IsStarted(model_component)
    /\ UnstartedIsReported

(* Neither a failed StartModel nor a new socket makes it false unreported. *)
LEMMA StartStep == TypeOK /\ StartInv /\ [Next]_vars => StartInv'
<1> SUFFICES ASSUME TypeOK, StartInv, [Next]_vars PROVE StartInv'
  OBVIOUS
<1> USE LookoutVisionAssumption
    DEF TypeOK, StartInv, IsStarted, UnstartedIsReported, Status,
        appVars, elementVars, streamVars, historyVars
<1>1. CASE \E s \in Servers : SetServerSocket(s)
  <2>1. /\ model_component \in Models \cup {NULL} /\ appPc = "idle"
        /\ UNCHANGED <<model_component, started, lastStart>>
        /\ \/ appPc' = "StartModel" /\ property'.name = "server-socket"
              /\ property'.value = model_component
           \/ appPc' = "idle" /\ model_component = NULL
    BY <1>1 DEF SetServerSocket, SetProperty, StartModel
  <2> QED
    BY <2>1
<1>2. CASE \E m \in Models : SetModelComponent(m)
  <2> PICK m \in Models : SetModelComponent(m)
    BY <1>2
  <2>1. /\ property'.name = "model-component"
        /\ appPc = "idle" /\ appPc' = "StartModel"
        /\ UNCHANGED <<lastStart, model_component, stub, started>>
    BY DEF SetModelComponent, SetProperty, StartModel
  <2> QED
    BY <2>1
<1>3. CASE \E t \in Timeouts : SetModelStatusTimeout(t)
  BY <1>3 DEF SetModelStatusTimeout
<1>4. CASE \E r \in Status : StartModelReturns(r)
  <2> PICK r \in Status : StartModelReturns(r)
    BY <1>4
  <2>1. CASE r = "SUCCESSFUL" /\ property.name = "model-component"
    BY <2>1 DEF StartModelReturns, FreeModel
  <2>2. CASE r = "SUCCESSFUL" /\ property.name # "model-component"
    <3>1. property.name = "server-socket" /\ property.value = model_component
      BY <2>2 DEF StartModelReturns
    <3> QED
      BY <2>2, <3>1 DEF StartModelReturns
  <2>3. CASE r = "FAILED"
    BY <2>3 DEF StartModelReturns
  <2> QED
    BY <2>1, <2>2, <2>3
<1>5. CASE Strdup
  BY <1>5 DEF Strdup
<1>6. CASE Play
  BY <1>6 DEF Play
<1>7. CASE Stop
  BY <1>7 DEF Stop
<1>8. CASE Finalize
  BY <1>8 DEF Finalize
<1>9. CASE New
  BY <1>9 DEF New
<1>10. CASE \E d \in Dims \cup {NoDims} : CapsEvent(d)
  BY <1>10 DEF CapsEvent
<1>11. CASE \E s \in BOOLEAN : Chain(s)
  BY <1>11 DEF Chain
<1>12. CASE DetectAnomalies
  BY <1>12 DEF DetectAnomalies
<1>13. CASE \E r \in Status : DetectAnomaliesReturns(r)
  BY <1>13 DEF DetectAnomaliesReturns
<1>14. CASE Push
  BY <1>14 DEF Push
<1>15. CASE UNCHANGED vars
  BY <1>15 DEF vars
<1> QED
  BY <1>1, <1>2, <1>3, <1>4, <1>5, <1>6, <1>7, <1>8,
     <1>9, <1>10, <1>11, <1>12, <1>13, <1>14, <1>15 DEF Next

(* The invariant on the models in use holds.                               *)
LEMMA StartInvariance == Spec => []StartInv
<1>1. Init => StartInv
  BY LookoutVisionAssumption
     DEF Init, StartInv, UnstartedIsReported, NoProperty
<1> QED
  BY <1>1, StartStep, TypeCorrect, PTL DEF Spec

(* In whatever order the properties are set, the model in use was started  *)
(* on the server in use or a failure was reported                          *)
(* (gstlookoutvision.cc:149-168).                                          *)
THEOREM UnstartedModelsAreReported == Spec => []UnstartedIsReported
<1>1. StartInv => UnstartedIsReported
  BY DEF StartInv
<1> QED
  BY <1>1, StartInvariance, PTL

(* chain takes the model from model_component, which was started.          *)
LEMMA AskStep == TypeOK /\ StartInv /\ OnlyStartedModels /\ [Next]_vars => OnlyStartedModels'
<1> SUFFICES ASSUME TypeOK, StartInv, OnlyStartedModels, [Next]_vars PROVE OnlyStartedModels'
  OBVIOUS
<1> USE LookoutVisionAssumption
    DEF TypeOK, StartInv, OnlyStartedModels, IsStarted, Request, NoRequest,
        appVars, elementVars, streamVars, historyVars
<1>1. CASE \E s \in Servers : SetServerSocket(s)
  BY <1>1 DEF SetServerSocket
<1>2. CASE \E m \in Models : SetModelComponent(m)
  BY <1>2 DEF SetModelComponent
<1>3. CASE \E t \in Timeouts : SetModelStatusTimeout(t)
  BY <1>3 DEF SetModelStatusTimeout
<1>4. CASE \E r \in Status : StartModelReturns(r)
  BY <1>4 DEF StartModelReturns, FreeModel
<1>5. CASE Strdup
  BY <1>5 DEF Strdup
<1>6. CASE Play
  BY <1>6 DEF Play
<1>7. CASE Stop
  BY <1>7 DEF Stop
<1>8. CASE Finalize
  BY <1>8 DEF Finalize
<1>9. CASE New
  BY <1>9 DEF New
<1>10. CASE \E d \in Dims \cup {NoDims} : CapsEvent(d)
  BY <1>10 DEF CapsEvent
<1>11. CASE \E s \in BOOLEAN : Chain(s)
  BY <1>11 DEF Chain
<1>12. CASE DetectAnomalies
  BY <1>12 DEF DetectAnomalies
<1>13. CASE \E r \in Status : DetectAnomaliesReturns(r)
  BY <1>13 DEF DetectAnomaliesReturns
<1>14. CASE Push
  BY <1>14 DEF Push
<1>15. CASE UNCHANGED vars
  BY <1>15 DEF vars
<1> QED
  BY <1>1, <1>2, <1>3, <1>4, <1>5, <1>6, <1>7, <1>8,
     <1>9, <1>10, <1>11, <1>12, <1>13, <1>14, <1>15 DEF Next

(* No frame is ever inferred with a model that was not started             *)
(* (gstlookoutvision.cc:161-167, 228-230).                                 *)
THEOREM InferredModelsWereStarted == Spec => []OnlyStartedModels
<1>1. Init => OnlyStartedModels
  BY LookoutVisionAssumption DEF Init, OnlyStartedModels, NoRequest
<1> QED
  BY <1>1, AskStep, TypeCorrect, StartInvariance, PTL DEF Spec

-----------------------------------------------------------------------------
(* The two threads. *)

(* Without a buffer in chain there is no request; a stopped pipeline has   *)
(* neither buffer nor caps; a finalized element is not in a pipeline.      *)
StreamInv ==
    /\ ~playing => streamPc = "idle" /\ caps = NULL
    /\ appPc = "finalized" => ~playing
    /\ streamPc \in {"idle", "annotate"} => request = NoRequest
    /\ streamPc = "c_str" => request.stub = NULL
    /\ streamPc # "idle" => caps # NULL

(* Every step of either thread keeps it.                                   *)
LEMMA StreamStep == TypeOK /\ StreamInv /\ [Next]_vars => StreamInv'
<1> SUFFICES ASSUME TypeOK, StreamInv, [Next]_vars PROVE StreamInv'
  OBVIOUS
<1> USE LookoutVisionAssumption
    DEF TypeOK, StreamInv, appVars, elementVars, streamVars, historyVars
<1>1. CASE \E s \in Servers : SetServerSocket(s)
  BY <1>1 DEF SetServerSocket, StartModel, NoRequest
<1>2. CASE \E m \in Models : SetModelComponent(m)
  BY <1>2 DEF SetModelComponent, StartModel
<1>3. CASE \E t \in Timeouts : SetModelStatusTimeout(t)
  BY <1>3 DEF SetModelStatusTimeout
<1>4. CASE \E r \in Status : StartModelReturns(r)
  BY <1>4 DEF StartModelReturns, FreeModel, Request
<1>5. CASE Strdup
  BY <1>5 DEF Strdup
<1>6. CASE Play
  BY <1>6 DEF Play
<1>7. CASE Stop
  BY <1>7 DEF Stop
<1>8. CASE Finalize
  BY <1>8 DEF Finalize
<1>9. CASE New
  BY <1>9 DEF New
<1>10. CASE \E d \in Dims \cup {NoDims} : CapsEvent(d)
  BY <1>10 DEF CapsEvent
<1>11. CASE \E s \in BOOLEAN : Chain(s)
  BY <1>11 DEF Chain, NoRequest
<1>12. CASE DetectAnomalies
  BY <1>12 DEF DetectAnomalies
<1>13. CASE \E r \in Status : DetectAnomaliesReturns(r)
  BY <1>13 DEF DetectAnomaliesReturns
<1>14. CASE Push
  BY <1>14 DEF Push
<1>15. CASE UNCHANGED vars
  BY <1>15 DEF vars
<1> QED
  BY <1>1, <1>2, <1>3, <1>4, <1>5, <1>6, <1>7, <1>8,
     <1>9, <1>10, <1>11, <1>12, <1>13, <1>14, <1>15 DEF Next

(* It holds in every behaviour.                                            *)
LEMMA StreamInvariance == Spec => []StreamInv
<1>1. Init => StreamInv
  BY DEF Init, StreamInv
<1> QED
  BY <1>1, StreamStep, TypeCorrect, PTL DEF Spec

(* What chain holds is freed only by what disturbs it: set_property inside *)
(* g_free and g_strdup, or setServerSocket during the call.                *)
LEMMA SafeStep == TypeOK /\ StreamInv /\ NoUseAfterFree /\ [Next]_vars => NoUseAfterFree'
<1> SUFFICES ASSUME TypeOK, StreamInv, NoUseAfterFree, [Next]_vars PROVE NoUseAfterFree'
  OBVIOUS
<1> USE LookoutVisionAssumption
    DEF TypeOK, StreamInv, NoUseAfterFree, Disturb,
        appVars, elementVars, streamVars, historyVars
<1>1. CASE \E s \in Servers : SetServerSocket(s)
  BY <1>1 DEF SetServerSocket, SetProperty, NoRequest
<1>2. CASE \E m \in Models : SetModelComponent(m)
  BY <1>2 DEF SetModelComponent, SetProperty
<1>3. CASE \E t \in Timeouts : SetModelStatusTimeout(t)
  BY <1>3 DEF SetModelStatusTimeout, SetProperty
<1>4. CASE \E r \in Status : StartModelReturns(r)
  BY <1>4 DEF StartModelReturns, FreeModel
<1>5. CASE Strdup
  BY <1>5 DEF Strdup
<1>6. CASE Play
  BY <1>6 DEF Play
<1>7. CASE Stop
  BY <1>7 DEF Stop
<1>8. CASE Finalize
  BY <1>8 DEF Finalize
<1>9. CASE New
  BY <1>9 DEF New
<1>10. CASE \E d \in Dims \cup {NoDims} : CapsEvent(d)
  BY <1>10 DEF CapsEvent
<1>11. CASE \E s \in BOOLEAN : Chain(s)
  <2>1. /\ request' = NoRequest \/ request' = [NoRequest EXCEPT !.model = model_component]
        /\ appPc = "g_strdup" => disturbed'
    BY <1>11 DEF Chain
  <2>2. request'.stub = NULL /\ request'.model \in {NULL, model_component}
    BY <2>1 DEF NoRequest
  <2> QED
    BY <2>1, <2>2
<1>12. CASE DetectAnomalies
  BY <1>12 DEF DetectAnomalies
<1>13. CASE \E r \in Status : DetectAnomaliesReturns(r)
  BY <1>13 DEF DetectAnomaliesReturns, NoRequest
<1>14. CASE Push
  <2>1. request' = NoRequest
    BY <1>14 DEF Push
  <2> QED
    BY <2>1 DEF NoRequest
<1>15. CASE UNCHANGED vars
  BY <1>15 DEF vars
<1> QED
  BY <1>1, <1>2, <1>3, <1>4, <1>5, <1>6, <1>7, <1>8,
     <1>9, <1>10, <1>11, <1>12, <1>13, <1>14, <1>15 DEF Next

(* Whenever the properties are set, and however long StartModel takes, a   *)
(* freed string or stub is used only by the buffer into whose chain the    *)
(* replacement falls: failed updates leave no dangling pointer behind      *)
(* (gstlookoutvision.cc:150-168, 228-230).                                 *)
THEOREM OnlyOverlapsAreUnsafe == Spec => []NoUseAfterFree
<1>1. Init => NoUseAfterFree
  BY LookoutVisionAssumption DEF Init, NoUseAfterFree, NoRequest
<1> QED
  BY <1>1, SafeStep, TypeCorrect, StreamInvariance, PTL DEF Spec

-----------------------------------------------------------------------------
(* The dimensions. *)

(* While pad_probe is installed, width and height are those of the caps.   *)
DimsInv ==
    /\ probe => caps \in Dims \cup {NULL}
    /\ probe /\ caps # NULL => dims = caps
    /\ DimsFresh

(* Every caps event reaches the installed probe before the next buffer.    *)
LEMMA DimsStep == TypeOK /\ StreamInv /\ DimsInv /\ [Next]_vars => DimsInv'
<1> SUFFICES ASSUME TypeOK, StreamInv, DimsInv, [Next]_vars PROVE DimsInv'
  OBVIOUS
<1> USE LookoutVisionAssumption
    DEF TypeOK, StreamInv, DimsInv, DimsFresh, appVars, elementVars, streamVars, historyVars
<1>1. CASE \E s \in Servers : SetServerSocket(s)
  BY <1>1 DEF SetServerSocket
<1>2. CASE \E m \in Models : SetModelComponent(m)
  BY <1>2 DEF SetModelComponent
<1>3. CASE \E t \in Timeouts : SetModelStatusTimeout(t)
  BY <1>3 DEF SetModelStatusTimeout
<1>4. CASE \E r \in Status : StartModelReturns(r)
  BY <1>4 DEF StartModelReturns, FreeModel
<1>5. CASE Strdup
  BY <1>5 DEF Strdup
<1>6. CASE Play
  BY <1>6 DEF Play
<1>7. CASE Stop
  BY <1>7 DEF Stop
<1>8. CASE Finalize
  BY <1>8 DEF Finalize
<1>9. CASE New
  BY <1>9 DEF New
<1>10. CASE \E d \in Dims \cup {NoDims} : CapsEvent(d)
  BY <1>10 DEF CapsEvent, PadProbe
<1>11. CASE \E s \in BOOLEAN : Chain(s)
  BY <1>11 DEF Chain
<1>12. CASE DetectAnomalies
  BY <1>12 DEF DetectAnomalies
<1>13. CASE \E r \in Status : DetectAnomaliesReturns(r)
  BY <1>13 DEF DetectAnomaliesReturns
<1>14. CASE Push
  BY <1>14 DEF Push
<1>15. CASE UNCHANGED vars
  BY <1>15 DEF vars
<1> QED
  BY <1>1, <1>2, <1>3, <1>4, <1>5, <1>6, <1>7, <1>8,
     <1>9, <1>10, <1>11, <1>12, <1>13, <1>14, <1>15 DEF Next

(* Until caps without dimensions remove the probe, every frame is sent     *)
(* with the dimensions of its caps (gstlookoutvision.cc:100-117, 229-230). *)
THEOREM DimensionsAreFresh == Spec => []DimsFresh
<1>1. Init => DimsInv
  BY DEF Init, DimsInv, DimsFresh
<1>2. DimsInv => DimsFresh
  BY DEF DimsInv
<1> QED
  BY <1>1, <1>2, DimsStep, TypeCorrect, StreamInvariance, PTL DEF Spec
=============================================================================
