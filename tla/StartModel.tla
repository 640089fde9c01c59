----------------------------- MODULE StartModel -----------------------------
(***************************************************************************)
(* LookoutVisionInferenceClient::StartModel: ask the Edge Agent to start a *)
(* model, then poll DescribeModel until the model is RUNNING or the        *)
(* model-status-timeout is over.                                           *)
(*                                                                         *)
(* Time is counted in seconds, the resolution of std::time.  An RPC is a   *)
(* request, the agent's handling of it, and the client's receipt of the    *)
(* reply: the status can change between the last two, so the client always *)
(* decides on an old status.                                               *)
(***************************************************************************)
EXTENDS Integers

CONSTANTS
    Timeouts,       \* the values of model_status_timeout a call is made with
    PollInterval,   \* POLLING_INTERVAL_IN_SECONDS
    MaxLatency,     \* bound on the duration of an RPC and on the oversleep of
                    \* usleep; the code sets no deadline, so this is assumed
    MaxSkew         \* bound on how far the wall clock is stepped in a call

ASSUME StartModelAssumption ==
    /\ Timeouts \subseteq Nat
    /\ PollInterval \in Nat \ {0}
    /\ MaxLatency \in Nat \ {0}
    /\ MaxSkew \in Nat

VARIABLES
    status,     \* the Edge Agent's status of the model
    pc,         \* where the caller is
    reply,      \* reply of the RPC in flight; "none" until the agent answers
    timeout,    \* model_status_timeout of the call
    elapsed,    \* seconds since start_time was taken
    skew,       \* how far the wall clock was stepped since start_time
    waited,     \* seconds spent in the blocking call the caller is in
    result,     \* what the last call returned, "none" while it runs
    \* History, read by the properties only:
    firstRun,   \* seconds after start_time the model was first RUNNING, or Never
    window,     \* seconds the model has now been RUNNING in the polling phase
    rpcOk       \* no DescribeModel of this call failed

clientVars  == <<pc, reply, timeout, elapsed, skew, waited, result>>
historyVars == <<firstRun, window, rpcOk>>
vars        == <<status, clientVars, historyVars>>

Never       == -1
ModelStatus == {"STOPPED", "STARTING", "RUNNING", "FAILED", "STOPPING"}

(* What the agent does on its own or for other clients (start, stop, crash *)
(* of the model or of the agent).                                          *)
AgentMoves ==
    {<<"STOPPED", "STARTING">>, <<"FAILED", "STARTING">>,
     <<"STARTING", "RUNNING">>, <<"STARTING", "FAILED">>,
     <<"RUNNING", "STOPPING">>, <<"RUNNING", "FAILED">>,
     <<"STOPPING", "STOPPED">>, <<"RUNNING", "STOPPED">>}

Polling == pc \in {"DescribeModel", "usleep"}

(* The longest a blocking call of the client takes. *)
Limit == IF pc = "usleep" THEN PollInterval + MaxLatency ELSE MaxLatency

Init ==
    /\ status \in ModelStatus
    /\ pc = "idle" /\ reply = "none" /\ result = "none"
    /\ timeout = 0 /\ elapsed = 0 /\ skew = 0 /\ waited = 0
    /\ firstRun = Never /\ window = 0 /\ rpcOk = TRUE

-----------------------------------------------------------------------------
(* The client. *)

Block(where) == pc' = where /\ reply' = "none" /\ waited' = 0

Call(t) ==
    /\ pc = "idle"
    /\ Block("StartModel")
    /\ timeout' = t
    /\ elapsed' = 0 /\ skew' = 0
    /\ result' = "none"
    /\ firstRun' = Never /\ window' = 0 /\ rpcOk' = TRUE
    /\ UNCHANGED status

Return(r) == Block("idle") /\ result' = r

MutantLoopTest(passed) ==
    \/ passed <= timeout /\ Block("DescribeModel") /\ UNCHANGED result
    \/ passed > timeout /\ Return("FAILED")

(* The head of the polling loop: poll once more, or give up. *)
LoopTest(passed) ==
    \/ passed < timeout /\ Block("DescribeModel") /\ UNCHANGED result
    \/ passed >= timeout /\ Return("FAILED")

MutantStartModelReturns ==
    /\ pc = "StartModel" /\ reply # "none"
    /\ \/ reply = "OK" /\ LoopTest(0)
       \/ reply = "ERROR" /\ Block("StartModel") /\ UNCHANGED result
    /\ firstRun' = IF status = "RUNNING" THEN 0 ELSE Never
    /\ UNCHANGED <<status, timeout, elapsed, skew, window, rpcOk>>

(* An error or an exception of the StartModel RPC is logged, and polling   *)
(* starts all the same.                                                    *)
StartModelReturns ==
    /\ pc = "StartModel" /\ reply # "none"
    /\ LoopTest(0)
    /\ firstRun' = IF status = "RUNNING" THEN 0 ELSE Never
    /\ UNCHANGED <<status, timeout, elapsed, skew, window, rpcOk>>

MutantDescribeModelReturns ==
    /\ pc = "DescribeModel" /\ reply # "none"
    /\ \/ reply \in {"STARTING", "RUNNING"} /\ Return("SUCCESSFUL")
       \/ reply \notin {"STARTING", "RUNNING"} /\ Block("usleep") /\ UNCHANGED result
    /\ UNCHANGED <<status, timeout, elapsed, skew, historyVars>>

MutantNeverMatches ==
    /\ pc = "DescribeModel" /\ reply # "none"
    /\ Block("usleep")
    /\ UNCHANGED <<status, timeout, elapsed, skew, result, historyVars>>

MutantLeakModelStatus ==
    /\ pc = "DescribeModel" /\ reply # "none"
    /\ \/ reply = "RUNNING" /\ pc' = "idle" /\ waited' = 0 /\ result' = "SUCCESSFUL"
          /\ UNCHANGED reply
       \/ reply # "RUNNING" /\ Block("usleep") /\ UNCHANGED result
    /\ UNCHANGED <<status, timeout, elapsed, skew, historyVars>>

(* getModelStatus returned: a failed RPC counts as a model not RUNNING.    *)
(* Either way the allocated status is deleted (Block clears reply).        *)
DescribeModelReturns ==
    /\ pc = "DescribeModel" /\ reply # "none"
    /\ \/ reply = "RUNNING" /\ Return("SUCCESSFUL")
       \/ reply # "RUNNING" /\ Block("usleep") /\ UNCHANGED result
    /\ UNCHANGED <<status, timeout, elapsed, skew, historyVars>>

Wake ==
    /\ pc = "usleep" /\ waited >= PollInterval
    /\ LoopTest(elapsed + skew)
    /\ UNCHANGED <<status, timeout, elapsed, skew, historyVars>>

-----------------------------------------------------------------------------
(* The Edge Agent and the network. *)

AgentStartModel ==
    /\ pc = "StartModel" /\ reply = "none"
    /\ \/ status \in {"STOPPED", "FAILED"} /\ status' = "STARTING" /\ reply' = "OK"
       \/ status \notin {"STOPPED", "FAILED"} /\ reply' = "ERROR" /\ UNCHANGED status
    /\ UNCHANGED <<pc, timeout, elapsed, skew, waited, result, historyVars>>

AgentDescribeModel ==
    /\ pc = "DescribeModel" /\ reply = "none"
    /\ reply' = status
    /\ UNCHANGED <<status, pc, timeout, elapsed, skew, waited, result, historyVars>>

(* The RPC fails: not connected, refused by the agent, or its reply lost   *)
(* after the agent acted.                                                  *)
RpcFails ==
    /\ pc \in {"StartModel", "DescribeModel"} /\ reply # "ERROR"
    /\ reply' = "ERROR"
    /\ rpcOk' = (rpcOk /\ pc = "StartModel")
    /\ UNCHANGED <<status, pc, timeout, elapsed, skew, waited, result, firstRun, window>>

AgentStep ==
    /\ \E s \in ModelStatus :
        /\ <<status, s>> \in AgentMoves
        /\ status' = s
        /\ firstRun' = IF s = "RUNNING" /\ Polling /\ firstRun = Never
                       THEN elapsed ELSE firstRun
    /\ window' = 0
    /\ UNCHANGED <<clientVars, rpcOk>>

-----------------------------------------------------------------------------
(* Time. *)

Tick ==
    /\ pc # "idle" /\ waited < Limit
    /\ waited' = waited + 1
    /\ elapsed' = IF Polling THEN elapsed + 1 ELSE elapsed
    /\ window' = IF Polling /\ status = "RUNNING" THEN window + 1 ELSE window
    /\ UNCHANGED <<status, pc, reply, timeout, skew, result, firstRun, rpcOk>>

(* std::time is the wall clock: it can be stepped while the call polls. *)
ClockStep ==
    /\ Polling
    /\ skew' \in -MaxSkew .. MaxSkew
    /\ UNCHANGED <<status, pc, reply, timeout, elapsed, waited, result, historyVars>>

-----------------------------------------------------------------------------
Client == StartModelReturns \/ DescribeModelReturns \/ Wake
Replies == AgentStartModel \/ AgentDescribeModel

Next ==
    \/ \E t \in Timeouts : Call(t)
    \/ Client
    \/ Replies
    \/ RpcFails
    \/ AgentStep
    \/ Tick
    \/ ClockStep

Spec == Init /\ [][Next]_vars

(* The client runs, time passes, and the agent answers each RPC. *)
FairSpec == Spec /\ WF_vars(Client \/ Replies \/ Tick)

-----------------------------------------------------------------------------
(* Properties. *)

(* The variables have their types, no blocking call outlasts its bound,    *)
(* and a status returned by getModelStatus is deleted before the client    *)
(* sleeps or returns (LookoutVisionInferenceClient.cc:147-153).            *)
TypeOK ==
    /\ status \in ModelStatus
    /\ pc \in {"idle", "StartModel", "DescribeModel", "usleep"}
    /\ reply \in ModelStatus \cup {"none", "OK", "ERROR"}
    /\ timeout \in Nat
    /\ elapsed \in Nat
    /\ skew \in -MaxSkew .. MaxSkew
    /\ waited \in Nat /\ waited <= Limit
    /\ result \in {"none", "SUCCESSFUL", "FAILED"}
    /\ firstRun \in Nat \cup {Never}
    /\ window \in Nat
    /\ rpcOk \in BOOLEAN
    /\ pc \in {"idle", "usleep"} => reply = "none"

(* The timeout is only tested between polls: the polling phase outlasts    *)
(* model_status_timeout by less than one RPC and one sleep, plus what the  *)
(* clock is set back (LookoutVisionInferenceClient.cc:144-154).            *)
Overshoot ==
    elapsed < timeout + MaxSkew + PollInterval + 2 * MaxLatency

(* As long as no DescribeModel fails, the polling loop never overlooks a   *)
(* model that is RUNNING for longer than a sleep and the latencies around  *)
(* it, whatever it did before (LookoutVisionInferenceClient.cc:146-154).   *)
NoLongRunMissed ==
    rpcOk => window <= PollInterval + 3 * MaxLatency

(* StartModel keeps its contract: SUCCESSFUL only if the model ran during  *)
(* the call's polling (LookoutVisionInferenceClient.cc:131-138).           *)
Contract == INSTANCE StartModelContract WITH
    calling <- pc # "idle",
    ran     <- firstRun # Never

KeepsContract == Contract!Spec

(* Every call returns (LookoutVisionInferenceClient.cc:146). *)
Returns == pc # "idle" ~> pc = "idle"

(* "Model didn't reach RUNNING state within N seconds", which StartModel   *)
(* prints when it returns FAILED (LookoutVisionInferenceClient.cc:135):    *)
(* when every poll was answered and the model is RUNNING as the call gives *)
(* up, it only became so after the timeout.                                *)
FailedMeansNotRunning ==
    result = "FAILED" /\ rpcOk /\ window > 0 => firstRun >= timeout
=============================================================================
