------------------------- MODULE StartModelContract -------------------------
(***************************************************************************)
(* What LookoutVisionInferenceClient::StartModel promises its caller       *)
(* (LookoutVisionInferenceClient.h, OperationStatus and StartModel): the   *)
(* call returns SUCCESSFUL only if the Edge Agent had the model RUNNING at *)
(* some moment of the call.  It promises nothing on FAILED.                *)
(***************************************************************************)

VARIABLES
    status,     \* the Edge Agent's status of the model
    calling,    \* a caller is inside StartModel
    ran,        \* the model was RUNNING at a moment of the last call's polling
    result      \* what the last call returned, or "none" while it runs

vars == <<status, calling, ran, result>>

ModelStatus == {"STOPPED", "STARTING", "RUNNING", "FAILED", "STOPPING"}
OperationStatus == {"SUCCESSFUL", "FAILED"}

(* ran can only turn TRUE, and only in a call during which the model runs. *)
Observe == ran' # ran => ran' /\ calling /\ status' = "RUNNING"

Init ==
    /\ status \in ModelStatus
    /\ calling = FALSE
    /\ ran = FALSE
    /\ result = "none"

Begin ==
    /\ ~calling
    /\ calling' = TRUE
    /\ ran' = FALSE
    /\ result' = "none"
    /\ UNCHANGED status

(* The model's status moves on; the call may get to see it running. *)
Agent ==
    /\ status' \in ModelStatus
    /\ ran' \in BOOLEAN
    /\ Observe
    /\ UNCHANGED <<calling, result>>

Return(r) ==
    /\ calling
    /\ r = "SUCCESSFUL" => ran
    /\ calling' = FALSE
    /\ result' = r
    /\ ran' \in BOOLEAN
    /\ Observe
    /\ UNCHANGED status

Next == Begin \/ Agent \/ \E r \in OperationStatus : Return(r)

Spec == Init /\ [][Next]_vars
=============================================================================
