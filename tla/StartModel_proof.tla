-------------------------- MODULE StartModel_proof --------------------------
(***************************************************************************)
(* Proofs about StartModel, for every set of timeouts, every polling       *)
(* interval, every bound on the latencies and on the steps of the clock.   *)
(*                                                                         *)
(* The safety properties are not inductive: each speaks of the whole call, *)
(* and what bounds it differs from one blocking call to the next.  The     *)
(* invariants below say what holds in each of them; waited measures how    *)
(* much of its allowance the blocking call has used up.                    *)
(***************************************************************************)
EXTENDS StartModel, TLAPS

(* How late it can be: a poll is only begun before the timeout is over.    *)
TimeInv ==
    /\ pc = "StartModel" => elapsed = 0
    /\ pc = "DescribeModel" => elapsed - waited < timeout + MaxSkew
    /\ pc = "usleep" => elapsed - waited < timeout + MaxSkew + MaxLatency
    /\ pc = "idle" => Overshoot

(* How long the model can have been RUNNING unnoticed.                     *)
WindowInv ==
    /\ status # "RUNNING" => window = 0
    /\ pc = "StartModel" => window = 0
    /\ pc = "DescribeModel" /\ reply = "ERROR" => ~rpcOk
    /\ rpcOk =>
        /\ pc = "DescribeModel" /\ reply \in {"none", "RUNNING"} =>
               window <= PollInterval + 2 * MaxLatency + waited
        /\ pc = "DescribeModel" /\ reply \notin {"none", "RUNNING"} =>
               window <= waited
        /\ pc = "usleep" => window <= MaxLatency + waited
        /\ pc = "idle" => window <= PollInterval + 3 * MaxLatency

(* A RUNNING status, current or in a reply, was seen in this call.         *)
RunInv ==
    /\ pc = "StartModel" => firstRun = Never
    /\ pc = "DescribeModel" /\ reply = "RUNNING" => firstRun # Never
    /\ Polling /\ status = "RUNNING" => firstRun # Never

IInv == TypeOK /\ TimeInv /\ WindowInv /\ RunInv

-----------------------------------------------------------------------------
(* The initial states have their types.                                    *)
LEMMA TypeInit == Init => TypeOK
  BY StartModelAssumption DEF Init, TypeOK, Limit, ModelStatus, Never

(* Every step of the client, the agent and the clock keeps the types.      *)
LEMMA TypeStep == TypeOK /\ [Next]_vars => TypeOK'
<1> SUFFICES ASSUME TypeOK, [Next]_vars PROVE TypeOK'
  OBVIOUS
<1> USE StartModelAssumption DEF TypeOK, ModelStatus, Never, Block, Return, LoopTest
<1>1. CASE \E t \in Timeouts : Call(t)
  BY <1>1 DEF Call, Limit
<1>2. CASE StartModelReturns
  BY <1>2 DEF StartModelReturns, Limit
<1>3. CASE DescribeModelReturns
  BY <1>3 DEF DescribeModelReturns, historyVars, Limit
<1>4. CASE Wake
  BY <1>4 DEF Wake, historyVars, Limit
<1>5. CASE AgentStartModel
  BY <1>5 DEF AgentStartModel, historyVars, Limit
<1>6. CASE AgentDescribeModel
  BY <1>6 DEF AgentDescribeModel, historyVars, Limit
<1>7. CASE RpcFails
  BY <1>7 DEF RpcFails, Limit
<1>8. CASE AgentStep
  BY <1>8 DEF AgentStep, clientVars, Limit
<1>9. CASE Tick
  BY <1>9 DEF Tick, Limit
<1>10. CASE ClockStep
  BY <1>10 DEF ClockStep, historyVars, Limit
<1>11. CASE UNCHANGED vars
  BY <1>11 DEF vars, clientVars, historyVars, Limit
<1> QED
  BY <1>1, <1>2, <1>3, <1>4, <1>5, <1>6, <1>7, <1>8, <1>9, <1>10, <1>11
     DEF Next, Client, Replies

(* Every variable keeps its type, and the status getModelStatus allocates  *)
(* is deleted in its round (LookoutVisionInferenceClient.cc:147-153).      *)
THEOREM TypeCorrect == Spec => []TypeOK
  BY TypeInit, TypeStep, PTL DEF Spec

-----------------------------------------------------------------------------
(* A poll begins before the timeout is over by the clock the client reads. *)
LEMMA TimeStep == TypeOK /\ TimeInv /\ [Next]_vars => TimeInv'
<1> SUFFICES ASSUME TypeOK, TimeInv, [Next]_vars PROVE TimeInv'
  OBVIOUS
<1> USE StartModelAssumption
    DEF TypeOK, TimeInv, Overshoot, Block, Return, LoopTest, Limit
<1>1. CASE \E t \in Timeouts : Call(t)
  BY <1>1 DEF Call
<1>2. CASE StartModelReturns
  BY <1>2 DEF StartModelReturns
<1>3. CASE DescribeModelReturns
  BY <1>3 DEF DescribeModelReturns
<1>4. CASE Wake
  BY <1>4 DEF Wake
<1>5. CASE AgentStartModel
  BY <1>5 DEF AgentStartModel
<1>6. CASE AgentDescribeModel
  BY <1>6 DEF AgentDescribeModel
<1>7. CASE RpcFails
  BY <1>7 DEF RpcFails
<1>8. CASE AgentStep
  BY <1>8 DEF AgentStep, clientVars
<1>9. CASE Tick
  BY <1>9 DEF Tick, Polling
<1>10. CASE ClockStep
  BY <1>10 DEF ClockStep
<1>11. CASE UNCHANGED vars
  BY <1>11 DEF vars, clientVars
<1> QED
  BY <1>1, <1>2, <1>3, <1>4, <1>5, <1>6, <1>7, <1>8, <1>9, <1>10, <1>11
     DEF Next, Client, Replies

(* A reply says something about the model's recent past: it was not        *)
(* RUNNING throughout the time since the reply, or the poll saw it.        *)
LEMMA WindowStep == TypeOK /\ WindowInv /\ [Next]_vars => WindowInv'
<1> SUFFICES ASSUME TypeOK, WindowInv, [Next]_vars PROVE WindowInv'
  OBVIOUS
<1> USE StartModelAssumption
    DEF TypeOK, WindowInv, ModelStatus, Block, Return, LoopTest, Limit
<1>1. CASE \E t \in Timeouts : Call(t)
  BY <1>1 DEF Call
<1>2. CASE StartModelReturns
  BY <1>2 DEF StartModelReturns
<1>3. CASE DescribeModelReturns
  BY <1>3 DEF DescribeModelReturns, historyVars
<1>4. CASE Wake
  BY <1>4 DEF Wake, historyVars
<1>5. CASE AgentStartModel
  BY <1>5 DEF AgentStartModel, historyVars
<1>6. CASE AgentDescribeModel
  BY <1>6 DEF AgentDescribeModel, historyVars
<1>7. CASE RpcFails
  BY <1>7 DEF RpcFails
<1>8. CASE AgentStep
  BY <1>8 DEF AgentStep, clientVars
<1>9. CASE Tick
  BY <1>9 DEF Tick, Polling
<1>10. CASE ClockStep
  BY <1>10 DEF ClockStep, historyVars
<1>11. CASE UNCHANGED vars
  BY <1>11 DEF vars, clientVars, historyVars
<1> QED
  BY <1>1, <1>2, <1>3, <1>4, <1>5, <1>6, <1>7, <1>8, <1>9, <1>10, <1>11
     DEF Next, Client, Replies

(* A RUNNING status the client sees or can come to see is remembered.      *)
LEMMA RunStep == TypeOK /\ RunInv /\ [Next]_vars => RunInv'
<1> SUFFICES ASSUME TypeOK, RunInv, [Next]_vars PROVE RunInv'
  OBVIOUS
<1> USE DEF TypeOK, RunInv, Polling, Never, Block, Return, LoopTest
<1>1. CASE \E t \in Timeouts : Call(t)
  BY <1>1 DEF Call
<1>2. CASE StartModelReturns
  BY <1>2 DEF StartModelReturns
<1>3. CASE DescribeModelReturns
  BY <1>3 DEF DescribeModelReturns, historyVars
<1>4. CASE Wake
  BY <1>4 DEF Wake, historyVars
<1>5. CASE AgentStartModel
  BY <1>5 DEF AgentStartModel, historyVars
<1>6. CASE AgentDescribeModel
  BY <1>6 DEF AgentDescribeModel, historyVars
<1>7. CASE RpcFails
  BY <1>7 DEF RpcFails
<1>8. CASE AgentStep
  BY <1>8 DEF AgentStep, clientVars
<1>9. CASE Tick
  BY <1>9 DEF Tick
<1>10. CASE ClockStep
  BY <1>10 DEF ClockStep, historyVars
<1>11. CASE UNCHANGED vars
  BY <1>11 DEF vars, clientVars, historyVars
<1> QED
  BY <1>1, <1>2, <1>3, <1>4, <1>5, <1>6, <1>7, <1>8, <1>9, <1>10, <1>11
     DEF Next, Client, Replies

(* The inductive invariant is an invariant of the client.                  *)
THEOREM Invariance == Spec => []IInv
<1>1. Init => IInv
  BY TypeInit, StartModelAssumption
     DEF Init, IInv, TimeInv, WindowInv, RunInv, Overshoot, Polling, Never
<1>2. IInv /\ [Next]_vars => IInv'
  BY TypeStep, TimeStep, WindowStep, RunStep DEF IInv
<1> QED
  BY <1>1, <1>2, PTL DEF Spec

-----------------------------------------------------------------------------
(* The polling phase outlasts model_status_timeout by less than a sleep,   *)
(* two latencies and the clock's steps, whatever the agent answers         *)
(* (LookoutVisionInferenceClient.cc:146-154).                              *)
THEOREM OvershootBounded == Spec => []Overshoot
<1>1. IInv => Overshoot
  BY StartModelAssumption DEF IInv, TypeOK, TimeInv, Overshoot, Limit
<1> QED
  BY <1>1, Invariance, PTL

(* As long as the polls are answered, a model that runs longer than a      *)
(* sleep and three latencies is noticed (client.cc:147-153).               *)
THEOREM LongRunsNoticed == Spec => []NoLongRunMissed
<1>1. IInv => NoLongRunMissed
  BY StartModelAssumption DEF IInv, TypeOK, WindowInv, NoLongRunMissed, Limit
<1> QED
  BY <1>1, Invariance, PTL

-----------------------------------------------------------------------------
(* Every step of the client is one of its contract's, or none of them.     *)
LEMMA ContractStep == TypeOK /\ RunInv /\ [Next]_vars => [Contract!Next]_Contract!vars
<1> SUFFICES ASSUME TypeOK, RunInv, [Next]_vars
             PROVE  Contract!Next \/ UNCHANGED Contract!vars
  BY DEF Contract!vars
<1> USE DEF TypeOK, RunInv, Polling, Never, Block, Return, LoopTest, ModelStatus,
            Contract!ModelStatus, Contract!OperationStatus, Contract!Next,
            Contract!vars, Contract!Observe
<1>1. CASE \E t \in Timeouts : Call(t)
  BY <1>1 DEF Call, Contract!Begin
<1>2. CASE StartModelReturns
  BY <1>2 DEF StartModelReturns, Contract!Agent, Contract!Return
<1>3. CASE DescribeModelReturns
  BY <1>3 DEF DescribeModelReturns, historyVars, Contract!Agent, Contract!Return
<1>4. CASE Wake
  BY <1>4 DEF Wake, historyVars, Contract!Agent, Contract!Return
<1>5. CASE AgentStartModel
  BY <1>5 DEF AgentStartModel, historyVars, Contract!Agent
<1>6. CASE AgentDescribeModel
  BY <1>6 DEF AgentDescribeModel, historyVars
<1>7. CASE RpcFails
  BY <1>7 DEF RpcFails
<1>8. CASE AgentStep
  BY <1>8 DEF AgentStep, clientVars, Contract!Agent
<1>9. CASE Tick
  BY <1>9 DEF Tick
<1>10. CASE ClockStep
  BY <1>10 DEF ClockStep, historyVars
<1>11. CASE UNCHANGED vars
  BY <1>11 DEF vars, clientVars, historyVars
<1> QED
  BY <1>1, <1>2, <1>3, <1>4, <1>5, <1>6, <1>7, <1>8, <1>9, <1>10, <1>11
     DEF Next, Client, Replies

(* The client implements its contract: SUCCESSFUL is returned only if the  *)
(* model ran during the polling (LookoutVisionInferenceClient.cc:131-138). *)
THEOREM ImplementsContract == Spec => KeepsContract
<1>1. Init => Contract!Init
  BY DEF Init, ModelStatus, Never, Contract!Init, Contract!ModelStatus
<1>2. IInv /\ [Next]_vars => [Contract!Next]_Contract!vars
  BY ContractStep DEF IInv
<1> QED
  BY <1>1, <1>2, Invariance, PTL DEF Spec, KeepsContract, Contract!Spec
=============================================================================
