-------------------------- MODULE SharedFrame_proof --------------------------
(***************************************************************************)
(* Proofs about SharedFrame for every number of clients, frames and        *)
(* kernel objects.  Two conditions each make the segment safe to write for *)
(* a client none of whose calls failed: no client has grown it yet, or no  *)
(* two clients have been alive at the same time.  Only the second makes    *)
(* what the agent reads the right frame, and does so whatever calls fail.  *)
(***************************************************************************)
EXTENDS SharedFrame, FiniteSetTheorems, TLAPS

(* The client has given the object it opened a size. *)
IsSized(c) == pc[c] \in {"ready", "writeSHM", "memcpy", "DetectAnomalies"}

-----------------------------------------------------------------------------
(* Type correctness. *)

(* A resized object holds the image it held, or junk.                      *)
LEMMA ResizeType ==
  ASSUME TypeOK, NEW o \in Objects, NEW n \in Nat, Resize(o, n)
  PROVE  size' \in [Objects -> Nat] /\ content' \in [Objects -> Image]
BY DEF TypeOK, Resize, Image

(* So does an object after an ftruncate that may have failed.              *)
LEMMA FtruncateType ==
  ASSUME TypeOK, NEW c \in Clients, IsOpen(c), NEW n \in Nat, NEW ok \in BOOLEAN,
         Ftruncate(c, n, ok)
  PROVE  size' \in [Objects -> Nat] /\ content' \in [Objects -> Image]
<1>1. shmFd[c] \in Objects
  BY DEF TypeOK
<1>2. CASE ok
  BY <1>1, <1>2, ResizeType DEF Ftruncate
<1>3. CASE ~ok
  BY <1>3 DEF Ftruncate, TypeOK
<1> QED
  BY <1>2, <1>3

(* An mmap keeps the types, also when it failed.                           *)
LEMMA MmapType ==
  ASSUME TypeOK, NEW c \in Clients, NEW ok \in BOOLEAN, Mmap(c, ok)
  PROVE  leaked' \in [Clients -> Nat] /\ mapped' \subseteq Clients
BY DEF TypeOK, Mmap

(* The process's end keeps the types.                                      *)
LEMMA EndType ==
  ASSUME TypeOK, NEW c \in Clients, NEW where \in {"none", "SIGBUS"}, End(c, where)
  PROVE  TypeOK'
<1> USE SharedFrameAssumption DEF TypeOK, End, IsOpen, historyVars
<1>1. content' \in [Objects -> Image]
  <2>1. CASE pc[c] = "memcpy"
    <3>1. shmFd[c] \in Objects
      BY <2>1
    <3> QED
      BY <2>1, <3>1 DEF Image
  <2>2. CASE pc[c] # "memcpy"
    BY <2>2
  <2> QED
    BY <2>1, <2>2
<1> QED
  BY <1>1

(* What has happened once stays in the history.                            *)
LEMMA HistoryStep ==
  ASSUME TypeOK, NEW c \in Clients, Step(c)
  PROVE  /\ overlapped' \in BOOLEAN /\ grown' \in BOOLEAN
         /\ ~overlapped' => ~overlapped
<1>1. overlapped \in BOOLEAN /\ grown \in BOOLEAN
  BY DEF TypeOK
<1>2. CASE ShmOpen(c)
  BY <1>1, <1>2, Zenon DEF ShmOpen
<1>3. ASSUME NEW f \in Frames, NEW t \in BOOLEAN, NEW m \in BOOLEAN, WriteSHM(c, f, t, m)
      PROVE  overlapped' = overlapped /\ grown' \in BOOLEAN
  <2>1. grown' = TRUE \/ grown' = grown
    BY <1>3, Zenon DEF WriteSHM
  <2> QED
    BY <1>1, <1>3, <2>1, Zenon DEF WriteSHM
<1>4. CASE \/ \E t, m \in BOOLEAN : SetupSHM(c, t, m)
           \/ Destroy(c) \/ MemcpyBegins(c) \/ MemcpyEnds(c) \/ BusError(c)
           \/ AgentInfers(c) \/ RpcFails(c) \/ DetectAnomaliesReturns(c) \/ Crash(c)
  <2>1. UNCHANGED historyVars \/ UNCHANGED <<overlapped, grown>>
    BY <1>4, Zenon DEF SetupSHM, Destroy, MemcpyBegins, MemcpyEnds, BusError, AgentInfers,
                RpcFails, DetectAnomaliesReturns, Crash, End
  <2>2. overlapped' = overlapped /\ grown' = grown
    BY <2>1 DEF historyVars
  <2> QED
    BY <1>1, <2>2, Zenon
<1> QED
  BY <1>1, <1>2, <1>3, <1>4, Zenon DEF Step

(* Every step of a client, the agent and the kernel keeps the types.       *)
LEMMA TypeStep == TypeOK /\ [Next]_vars => TypeOK'
<1> SUFFICES ASSUME TypeOK, [Next]_vars PROVE TypeOK'
  OBVIOUS
<1>1. CASE UNCHANGED vars
  BY <1>1 DEF vars, clientVars, kernelVars, historyVars, TypeOK, IsOpen
<1>2. ASSUME NEW c \in Clients, Step(c) PROVE TypeOK'
  <2> USE SharedFrameAssumption DEF TypeOK, IsOpen, historyVars
  <2>1. CASE ShmOpen(c)
    <3> PICK o \in Objects :
          /\ shmFd' = [shmFd EXCEPT ![c] = o]
          /\ \/ o = shmName /\ UNCHANGED kernelVars
             \/ shmName = None /\ Unused(o) /\ shmName' = o /\ Resize(o, 0)
      BY <2>1 DEF ShmOpen
    <3>1. size' \in [Objects -> Nat] /\ content' \in [Objects -> Image]
      BY ResizeType DEF kernelVars
    <3>2. shmName' \in Objects \cup {None}
      BY DEF kernelVars
    <3> QED
      BY <2>1, <3>1, <3>2 DEF ShmOpen
  <2>2. ASSUME NEW t \in BOOLEAN, NEW m \in BOOLEAN, SetupSHM(c, t, m) PROVE TypeOK'
    <3>1. size' \in [Objects -> Nat] /\ content' \in [Objects -> Image]
      BY <2>2, FtruncateType DEF SetupSHM
    <3>2. leaked' \in [Clients -> Nat] /\ mapped' \subseteq Clients
      BY <2>2, MmapType DEF SetupSHM
    <3>3. shmFailed' \subseteq Clients
      BY <2>2 DEF SetupSHM, Fails
    <3> QED
      BY <2>2, <3>1, <3>2, <3>3 DEF SetupSHM
  <2>3. CASE Destroy(c)
    BY <2>3 DEF Destroy
  <2>4. ASSUME NEW f \in Frames, NEW t \in BOOLEAN, NEW m \in BOOLEAN, WriteSHM(c, f, t, m)
        PROVE  TypeOK'
    <3>1. /\ size' \in [Objects -> Nat] /\ content' \in [Objects -> Image]
          /\ leaked' \in [Clients -> Nat] /\ mapped' \subseteq Clients
          /\ shmSize' \in [Clients -> Nat] /\ shmFailed' \subseteq Clients
      <4>1. CASE Size[f] > shmSize[c]
        <5>1. Ftruncate(c, Size[f], t) /\ Mmap(c, m)
          BY <2>4, <4>1 DEF WriteSHM
        <5>2. size' \in [Objects -> Nat] /\ content' \in [Objects -> Image]
          BY <2>4, <5>1, FtruncateType DEF WriteSHM
        <5>3. leaked' \in [Clients -> Nat] /\ mapped' \subseteq Clients
          BY <5>1, MmapType
        <5> QED
          BY <2>4, <4>1, <5>2, <5>3 DEF WriteSHM, Fails
      <4>2. CASE ~(Size[f] > shmSize[c])
        BY <2>4, <4>2 DEF WriteSHM
      <4> QED
        BY <4>1, <4>2
    <3>3. overlapped' \in BOOLEAN /\ grown' \in BOOLEAN
      BY <1>2, HistoryStep
    <3>4. /\ pc' = [pc EXCEPT ![c] = "writeSHM"]
          /\ frame' = [frame EXCEPT ![c] = f]
          /\ UNCHANGED <<shmFd, answer, made, shmName>>
      BY <2>4 DEF WriteSHM
    <3>5. c \in Clients /\ IsOpen(c)
      BY <2>4 DEF WriteSHM
    <3> QED
      BY <3>1, <3>3, <3>4, <3>5
  <2>5. CASE MemcpyBegins(c)
    <3>1. shmFd[c] \in Objects
      BY <2>5 DEF MemcpyBegins
    <3>2. \A d \in Copiers(shmFd[c]) \cup {c} : <<d, frame[d]>> \in Image
      BY <2>5 DEF MemcpyBegins, Copiers, Image
    <3> DEFINE written == {<<d, frame[d]>> : d \in Copiers(shmFd[c]) \cup {c}}
               mixed == IF Copiers(shmFd[c]) = {} THEN {} ELSE {Junk}
    <3>3. PICK image \in written \cup mixed : content' = [content EXCEPT ![shmFd[c]] = image]
      BY <2>5 DEF MemcpyBegins
    <3>4. image \in Image
      BY <3>2 DEF Image
    <3>5. content' \in [Objects -> Image]
      BY <3>1, <3>3, <3>4
    <3> QED
      BY <2>5, <3>5 DEF MemcpyBegins
  <2>6. CASE MemcpyEnds(c)
    BY <2>6 DEF MemcpyEnds, kernelVars
  <2>7. CASE BusError(c)
    BY <2>7, EndType DEF BusError
  <2>8. CASE AgentInfers(c)
    <3>1. PICK image \in Image : answer' = [answer EXCEPT ![c] = image]
      BY <2>8 DEF AgentInfers, Image
    <3> QED
      BY <2>8, <3>1 DEF AgentInfers, kernelVars
  <2>9. CASE RpcFails(c)
    BY <2>9 DEF RpcFails, kernelVars
  <2>10. CASE DetectAnomaliesReturns(c)
    BY <2>10 DEF DetectAnomaliesReturns, kernelVars
  <2>11. CASE Crash(c)
    BY <2>11, EndType DEF Crash
  <2> QED
    BY <1>2, <2>1, <2>2, <2>3, <2>4, <2>5, <2>6, <2>7, <2>8, <2>9, <2>10, <2>11 DEF Step
<1> QED
  BY <1>1, <1>2 DEF Next

(* Every variable keeps its type, and a client has an object open exactly  *)
(* while it is alive (LookoutVisionInferenceClient.cc:34-53).              *)
THEOREM TypeCorrect == Spec => []TypeOK
<1>1. Init => TypeOK
  <2> SUFFICES ASSUME Init PROVE TypeOK
    OBVIOUS
  <2>1. overlapped \in BOOLEAN /\ grown \in BOOLEAN
    BY Zenon DEF Init
  <2> QED
    BY <2>1, SharedFrameAssumption DEF Init, TypeOK, IsOpen, Image
<1> QED
  BY <1>1, TypeStep, PTL DEF Spec

-----------------------------------------------------------------------------
(* Clients that overlap, before any has grown its segment.                 *)

(* The object is as large as the client takes it for, and mapped. *)
IsWhole(c) ==
    IsSized(c) /\ c \notin shmFailed => size[shmFd[c]] = shmSize[c] /\ c \in mapped

(* Until then nobody gives an object a size other than the default, and    *)
(* the frames being written fit it.                                        *)
UngrownInv ==
    ~grown =>
        /\ NoBusError
        /\ \A c \in Clients :
            /\ shmSize[c] = DefaultSize
            /\ IsWhole(c)
            /\ frame[c] # None => Size[frame[c]] <= DefaultSize

(* No step of one client takes the size from the object of another.        *)
LEMMA UngrownStep == TypeOK /\ UngrownInv /\ [Next]_vars => UngrownInv'
<1> SUFFICES ASSUME TypeOK, UngrownInv, [Next]_vars PROVE UngrownInv'
  OBVIOUS
<1>1. CASE UNCHANGED vars
  BY <1>1 DEF vars, clientVars, kernelVars, historyVars, UngrownInv, NoBusError, IsSized,
              IsWhole
<1>2. ASSUME NEW c \in Clients, Step(c) PROVE UngrownInv'
  <2> USE SharedFrameAssumption
      DEF TypeOK, UngrownInv, NoBusError, IsSized, IsWhole, IsOpen, historyVars
  <2>1. CASE ShmOpen(c)
    <3> PICK o \in Objects :
          /\ shmFd' = [shmFd EXCEPT ![c] = o]
          /\ \/ o = shmName /\ UNCHANGED kernelVars
             \/ shmName = None /\ Unused(o) /\ shmName' = o /\ Resize(o, 0)
      BY <2>1 DEF ShmOpen
    <3>1. \A d \in Clients \ {c} : IsSized(d) => size'[shmFd[d]] = size[shmFd[d]]
      BY DEF Unused, Resize, kernelVars
    <3> QED
      BY <2>1, <3>1 DEF ShmOpen
  <2>2. ASSUME NEW t \in BOOLEAN, NEW m \in BOOLEAN, SetupSHM(c, t, m) PROVE UngrownInv'
    <3>1. CASE t
      BY <2>2, <3>1 DEF SetupSHM, Ftruncate, Resize, Mmap, Fails
    <3>2. CASE ~t
      BY <2>2, <3>2 DEF SetupSHM, Ftruncate, Mmap, Fails
    <3> QED
      BY <3>1, <3>2
  <2>3. CASE Destroy(c)
    BY <2>3 DEF Destroy
  <2>4. ASSUME NEW f \in Frames, NEW t \in BOOLEAN, NEW m \in BOOLEAN, WriteSHM(c, f, t, m)
        PROVE  UngrownInv'
    BY <2>4 DEF WriteSHM
  <2>5. CASE MemcpyBegins(c)
    BY <2>5 DEF MemcpyBegins
  <2>6. CASE MemcpyEnds(c)
    BY <2>6 DEF MemcpyEnds, kernelVars
  <2>7. CASE BusError(c)
    <3>1. ~grown => Fits(c) \/ c \in shmFailed
      BY <2>7 DEF BusError, Fits
    <3> QED
      BY <2>7, <3>1 DEF BusError, End
  <2>8. CASE AgentInfers(c)
    BY <2>8 DEF AgentInfers, kernelVars
  <2>9. CASE RpcFails(c)
    BY <2>9 DEF RpcFails, kernelVars
  <2>10. CASE DetectAnomaliesReturns(c)
    BY <2>10 DEF DetectAnomaliesReturns, kernelVars
  <2>11. CASE Crash(c)
    BY <2>11 DEF Crash, End
  <2> QED
    BY <1>2, <2>1, <2>2, <2>3, <2>4, <2>5, <2>6, <2>7, <2>8, <2>9, <2>10, <2>11 DEF Step
<1> QED
  BY <1>1, <1>2 DEF Next

(* The invariant of ungrown segments.                                      *)
LEMMA UngrownInvariance == Spec => []UngrownInv
<1>1. Init => UngrownInv
  BY DEF Init, UngrownInv, NoBusError, IsSized, IsWhole
<1> QED
  BY <1>1, UngrownStep, TypeCorrect, PTL DEF Spec

-----------------------------------------------------------------------------
(* One client at a time, with frames of any size. *)

(* Then the name is bound to the object of the client that is alive, whose *)
(* shm_size is the object's size and which nobody else writes.             *)
SoleInv ==
    ~overlapped =>
        /\ NoBusError
        /\ \A c, d \in Clients : IsOpen(c) /\ IsOpen(d) => c = d
        /\ \A c \in Clients :
            /\ IsOpen(c) => shmName = shmFd[c]
            /\ IsWhole(c)
            /\ frame[c] # None => Size[frame[c]] <= shmSize[c]
            /\ pc[c] \in {"memcpy", "DetectAnomalies"} => content[shmFd[c]] = <<c, frame[c]>>
            /\ answer[c] # None => pc[c] = "DetectAnomalies"
        /\ ResultIsForThisFrame

(* The frame is in the segment from its copy to the end of the call.       *)
LEMMA SoleStep == TypeOK /\ SoleInv /\ [Next]_vars => SoleInv'
<1> SUFFICES ASSUME TypeOK, SoleInv, [Next]_vars, ~overlapped' PROVE SoleInv'
  BY DEF SoleInv
<1>1. CASE UNCHANGED vars
  BY <1>1 DEF vars, clientVars, kernelVars, historyVars, SoleInv, NoBusError, IsSized, IsWhole,
              IsOpen, ResultIsForThisFrame
<1>2. ASSUME NEW c \in Clients, Step(c) PROVE SoleInv'
  <2>0. ~overlapped
    BY <1>2, HistoryStep, Zenon
  <2> USE <2>0, SharedFrameAssumption
      DEF TypeOK, SoleInv, NoBusError, IsSized, IsWhole, IsOpen, ResultIsForThisFrame,
          historyVars
  <2>1. CASE ShmOpen(c)
    <3>1. \A d \in Clients : ~IsOpen(d)
      BY <2>1, Zenon DEF ShmOpen
    <3> QED
      BY <2>1, <3>1 DEF ShmOpen, kernelVars
  <2>2. ASSUME NEW t \in BOOLEAN, NEW m \in BOOLEAN, SetupSHM(c, t, m) PROVE SoleInv'
    <3>1. CASE t
      BY <2>2, <3>1 DEF SetupSHM, Ftruncate, Resize, Mmap, Fails
    <3>2. CASE ~t
      BY <2>2, <3>2 DEF SetupSHM, Ftruncate, Mmap, Fails
    <3> QED
      BY <3>1, <3>2
  <2>3. CASE Destroy(c)
    BY <2>3 DEF Destroy
  <2>4. ASSUME NEW f \in Frames, NEW t \in BOOLEAN, NEW m \in BOOLEAN, WriteSHM(c, f, t, m)
        PROVE  SoleInv'
    <3>1. CASE t
      BY <2>4, <3>1 DEF WriteSHM, Ftruncate, Resize, Mmap, Fails
    <3>2. CASE ~t
      BY <2>4, <3>2 DEF WriteSHM, Ftruncate, Mmap, Fails
    <3> QED
      BY <3>1, <3>2
  <2>5. CASE MemcpyBegins(c)
    <3>1. Copiers(shmFd[c]) = {}
      BY <2>5 DEF MemcpyBegins, Copiers
    <3> DEFINE written == {<<d, frame[d]>> : d \in Copiers(shmFd[c]) \cup {c}}
               mixed == IF Copiers(shmFd[c]) = {} THEN {} ELSE {Junk}
    <3>2. PICK image \in written \cup mixed : content' = [content EXCEPT ![shmFd[c]] = image]
      BY <2>5 DEF MemcpyBegins
    <3>3. image = <<c, frame[c]>>
      BY <3>1
    <3>4. content' = [content EXCEPT ![shmFd[c]] = <<c, frame[c]>>]
      BY <3>2, <3>3
    <3> QED
      BY <2>5, <3>4 DEF MemcpyBegins
  <2>6. CASE MemcpyEnds(c)
    BY <2>6 DEF MemcpyEnds, kernelVars
  <2>7. CASE BusError(c)
    <3>1. Fits(c) \/ c \in shmFailed
      BY <2>7 DEF BusError, Fits
    <3> QED
      BY <2>7, <3>1 DEF BusError, End
  <2>8. CASE AgentInfers(c)
    <3>1. Copiers(shmName) = {}
      BY <2>8 DEF AgentInfers, Copiers
    <3> DEFINE mixed == IF Copiers(shmName) = {} THEN {} ELSE {Junk}
    <3>2. PICK image \in {content[shmName]} \cup mixed : answer' = [answer EXCEPT ![c] = image]
      BY <2>8 DEF AgentInfers
    <3>3. image = content[shmName]
      BY <3>1
    <3>4. answer' = [answer EXCEPT ![c] = <<c, frame[c]>>]
      BY <2>8, <3>2, <3>3 DEF AgentInfers
    <3> QED
      BY <2>8, <3>4 DEF AgentInfers, kernelVars
  <2>9. CASE RpcFails(c)
    BY <2>9 DEF RpcFails, kernelVars
  <2>10. CASE DetectAnomaliesReturns(c)
    BY <2>10 DEF DetectAnomaliesReturns, kernelVars
  <2>11. CASE Crash(c)
    BY <2>11 DEF Crash, End
  <2> HIDE DEF TypeOK, SoleInv, NoBusError, IsSized, IsWhole, IsOpen, ResultIsForThisFrame,
               historyVars
  <2> QED
    BY <1>2, <2>1, <2>2, <2>3, <2>4, <2>5, <2>6, <2>7, <2>8, <2>9, <2>10, <2>11 DEF Step
<1> QED
  BY <1>1, <1>2 DEF Next

(* The invariant of clients that do not overlap.                           *)
LEMMA SoleInvariance == Spec => []SoleInv
<1>1. Init => SoleInv
  BY DEF Init, SoleInv, NoBusError, IsSized, IsWhole, IsOpen, ResultIsForThisFrame
<1> QED
  BY <1>1, SoleStep, TypeCorrect, PTL DEF Spec

(* While at most one client has been alive at any time, every answer is    *)
(* computed from the frame it is returned for, also when earlier clients   *)
(* crashed and left the name behind                                        *)
(* (LookoutVisionInferenceClient.cc:34-53, 73-83).                         *)
THEOREM SoleClientReadsItsFrame == Spec => []SoleResults
<1>1. SoleInv => SoleResults
  BY DEF SoleInv, SoleResults
<1> QED
  BY <1>1, SoleInvariance, PTL

(* Only clients that overlap after one of them has grown its segment can   *)
(* be killed by SIGBUS, however many share the name, come, go and crash    *)
(* (LookoutVisionInferenceClient.cc:34-53, 103-110).                       *)
THEOREM FaultsNeedOverlapAndGrowth == Spec => []FaultsTakeBoth
<1>1. UngrownInv /\ SoleInv => FaultsTakeBoth
  BY DEF UngrownInv, SoleInv, FaultsTakeBoth
<1> QED
  BY <1>1, UngrownInvariance, SoleInvariance, PTL

-----------------------------------------------------------------------------
(* The mappings left behind. *)

Outgrown(n) == {m \in LargeSizes : m <= n}

(* What a process leaks at most for n clients it has destroyed. *)
Share(n) == n * Cardinality(LargeSizes)

(* shm_size never falls back: each mapping a client leaves behind belongs  *)
(* to a large size that shm_size has reached.                              *)
LeakInv ==
    \A c \in Clients :
        /\ shmSize[c] >= DefaultSize
        /\ ~IsSized(c) => c \notin mapped
        /\ IsOpen(c) =>
              /\ made[c] > 0
              /\ leaked[c] <= Share(made[c] - 1) + Cardinality(Outgrown(shmSize[c]))
        /\ ~IsOpen(c) => leaked[c] <= Share(made[c])

(* Growing to the size of a frame outgrows at least one more size.         *)
LEMMA GrowOutgrows ==
  ASSUME IsFiniteSet(LargeSizes), NEW n \in Nat, n >= DefaultSize,
         NEW f \in Frames, Size[f] > n
  PROVE  Cardinality(Outgrown(n)) + 1 <= Cardinality(Outgrown(Size[f]))
<1> USE SharedFrameAssumption DEF Outgrown, LargeSizes
<1>1. Size[f] \in LargeSizes /\ LargeSizes \subseteq Nat
  OBVIOUS
<1>2. IsFiniteSet(Outgrown(n)) /\ IsFiniteSet(Outgrown(Size[f]))
  <2>1. Outgrown(n) \in SUBSET LargeSizes /\ Outgrown(Size[f]) \in SUBSET LargeSizes
    BY DEF Outgrown
  <2> QED
    BY <2>1, FS_Subset
<1>3. Cardinality(Outgrown(n) \cup {Size[f]}) = Cardinality(Outgrown(n)) + 1
  <2>1. Size[f] \notin Outgrown(n)
    OBVIOUS
  <2> QED
    BY <1>2, <2>1, FS_AddElement
<1>4. Outgrown(n) \cup {Size[f]} \in SUBSET Outgrown(Size[f])
  BY <1>1
<1> HIDE DEF Outgrown, LargeSizes
<1> QED
  BY <1>2, <1>3, <1>4, FS_Subset

(* The sizes outgrown are at most the large ones, and none at first.       *)
LEMMA OutgrownBounds ==
  ASSUME IsFiniteSet(LargeSizes)
  PROVE  /\ Cardinality(LargeSizes) \in Nat
         /\ \A n \in Nat : /\ Cardinality(Outgrown(n)) \in Nat
                          /\ Cardinality(Outgrown(n)) <= Cardinality(LargeSizes)
         /\ Cardinality(Outgrown(DefaultSize)) = 0
<1>1. Cardinality(LargeSizes) \in Nat
  BY FS_CardinalityType
<1>2. ASSUME NEW n \in Nat
      PROVE  /\ Cardinality(Outgrown(n)) \in Nat
             /\ Cardinality(Outgrown(n)) <= Cardinality(LargeSizes)
  <2>1. Outgrown(n) \in SUBSET LargeSizes
    BY DEF Outgrown
  <2> QED
    BY <2>1, FS_Subset, FS_CardinalityType
<1>3. Outgrown(DefaultSize) = {}
  BY SharedFrameAssumption DEF Outgrown, LargeSizes
<1> QED
  BY <1>1, <1>2, <1>3, FS_EmptySet

(* One more client adds as many as there are large sizes.                  *)
LEMMA ShareGrows ==
  ASSUME IsFiniteSet(LargeSizes)
  PROVE  /\ Share(0) = 0
         /\ \A n \in Nat : /\ Share(n) \in Nat
                          /\ Share(n + 1) = Share(n) + Cardinality(LargeSizes)
<1>1. ASSUME NEW k \in Nat, NEW n \in Nat
      PROVE  0 * k = 0 /\ n * k \in Nat /\ (n + 1) * k = n * k + k
  OBVIOUS
<1> QED
  BY <1>1, OutgrownBounds DEF Share

(* A client leaves a mapping behind only when it grows, and hands its      *)
(* share over to its process when it is destroyed.                         *)
LEMMA LeakStep ==
  ASSUME IsFiniteSet(LargeSizes) PROVE TypeOK /\ LeakInv /\ [Next]_vars => LeakInv'
<1> SUFFICES ASSUME TypeOK, LeakInv, [Next]_vars PROVE LeakInv'
  OBVIOUS
<1>1. CASE UNCHANGED vars
  BY <1>1 DEF vars, clientVars, LeakInv, IsSized, IsOpen
<1>2. ASSUME NEW c \in Clients, Step(c) PROVE LeakInv'
  <2> DEFINE Bound(n, m) == Share(n - 1) + Cardinality(Outgrown(m))
  <2>1. \A n \in Nat, m \in Nat :
           n > 0 => Bound(n, m) \in Nat /\ Bound(n, m) <= Share(n)
    <3> TAKE n \in Nat, m \in Nat
    <3> HAVE n > 0
    <3>1. n - 1 \in Nat /\ (n - 1) + 1 = n
      OBVIOUS
    <3>2. Share(n) = Share(n - 1) + Cardinality(LargeSizes) /\ Share(n - 1) \in Nat
      BY <3>1, ShareGrows
    <3>3. Cardinality(Outgrown(m)) \in Nat /\ Cardinality(Outgrown(m)) <= Cardinality(LargeSizes)
      BY OutgrownBounds
    <3> QED
      BY <3>2, <3>3, OutgrownBounds
  <2>2. Cardinality(Outgrown(DefaultSize)) = 0
    BY OutgrownBounds
  <2>3. \A n \in Nat : Share(n) \in Nat
    BY ShareGrows
  <2> USE SharedFrameAssumption DEF TypeOK, LeakInv, IsSized, IsOpen
  <2>4. CASE ShmOpen(c)
    <3>1. /\ made' = [made EXCEPT ![c] = @ + 1]
          /\ pc' = [pc EXCEPT ![c] = "setupSHM"]
          /\ shmSize' = [shmSize EXCEPT ![c] = DefaultSize]
          /\ UNCHANGED <<mapped, leaked>>
      BY <2>4 DEF ShmOpen
    <3>2. leaked[c] <= Share(made[c]) /\ c \notin mapped
      BY <2>4 DEF ShmOpen
    <3>3. made'[c] - 1 = made[c] /\ made'[c] > 0
      BY <3>1
    <3>4. leaked'[c] <= Share(made'[c] - 1) + Cardinality(Outgrown(shmSize'[c]))
      BY <2>2, <2>3, <3>1, <3>2, <3>3
    <3> QED
      BY <3>1, <3>2, <3>3, <3>4
  <2>5. ASSUME NEW t \in BOOLEAN, NEW m \in BOOLEAN, SetupSHM(c, t, m) PROVE LeakInv'
    BY <2>5 DEF SetupSHM, Mmap
  <2>6. CASE Destroy(c)
    <3>1. leaked[c] <= Share(made[c])
      BY <2>1, <2>3, <2>6 DEF Destroy
    <3> QED
      BY <2>6, <3>1 DEF Destroy
  <2>7. ASSUME NEW f \in Frames, NEW t \in BOOLEAN, NEW m \in BOOLEAN, WriteSHM(c, f, t, m)
        PROVE  LeakInv'
    <3>1. CASE Size[f] > shmSize[c]
      <4>1. Cardinality(Outgrown(shmSize[c])) + 1 <= Cardinality(Outgrown(Size[f]))
        BY <3>1, GrowOutgrows
      <4>2. /\ Cardinality(Outgrown(shmSize[c])) \in Nat
            /\ Cardinality(Outgrown(Size[f])) \in Nat
        BY OutgrownBounds
      <4>3. made[c] > 0 /\ Share(made[c] - 1) \in Nat
        BY <2>3, <2>7 DEF WriteSHM
      <4>4. leaked'[c] <= leaked[c] + 1
        BY <2>7, <3>1 DEF WriteSHM, Mmap
      <4>5. leaked'[c] <= Share(made[c] - 1) + Cardinality(Outgrown(Size[f]))
        <5>1. leaked[c] <= Share(made[c] - 1) + Cardinality(Outgrown(shmSize[c]))
          BY <2>7 DEF WriteSHM
        <5>2. leaked'[c] \in Nat /\ leaked[c] \in Nat
          BY <2>7, <3>1 DEF WriteSHM, Mmap
        <5> HIDE DEF TypeOK, LeakInv
        <5> QED
          BY <4>1, <4>2, <4>3, <4>4, <5>1, <5>2
      <4> QED
        BY <2>7, <3>1, <4>3, <4>5 DEF WriteSHM, Mmap
    <3>2. CASE ~(Size[f] > shmSize[c])
      BY <2>7, <3>2 DEF WriteSHM
    <3> QED
      BY <3>1, <3>2
  <2>8. CASE BusError(c) \/ Crash(c)
    <3>1. \E where \in {"none", "SIGBUS"} : End(c, where)
      BY <2>8 DEF BusError, Crash
    <3> QED
      BY <3>1, ShareGrows DEF End
  <2>9. CASE \/ MemcpyBegins(c) \/ MemcpyEnds(c) \/ AgentInfers(c)
             \/ RpcFails(c) \/ DetectAnomaliesReturns(c)
    BY <2>9 DEF MemcpyBegins, MemcpyEnds, AgentInfers, RpcFails, DetectAnomaliesReturns
  <2> QED
    BY <1>2, <2>4, <2>5, <2>6, <2>7, <2>8, <2>9 DEF Step
<1> QED
  BY <1>1, <1>2 DEF Next

(* A process never holds more mappings that nothing refers to than one for *)
(* each size beyond the default and each client it has made, whichever     *)
(* calls failed (LookoutVisionInferenceClient.cc:49, 104-107).             *)
THEOREM LeakIsBounded == ASSUME IsFiniteSet(LargeSizes) PROVE Spec => []LeakBounded
<1>1. Init => LeakInv
  BY ShareGrows, SharedFrameAssumption DEF Init, LeakInv, IsSized, IsOpen
<1>2. TypeOK /\ LeakInv /\ [Next]_vars => LeakInv'
  BY LeakStep
<1>3. TypeOK /\ LeakInv => LeakBounded
  <2> SUFFICES ASSUME TypeOK, LeakInv, NEW c \in Clients PROVE leaked[c] <= Share(made[c])
    BY DEF LeakBounded, Share
  <2>1. made[c] \in Nat /\ leaked[c] \in Nat
    BY DEF TypeOK
  <2>2. CASE ~IsOpen(c)
    BY <2>2 DEF LeakInv
  <2>3. CASE IsOpen(c)
    <3> DEFINE n == made[c] - 1
    <3>1. n \in Nat /\ n + 1 = made[c]
      BY <2>1, <2>3 DEF LeakInv
    <3>2. Share(made[c]) = Share(n) + Cardinality(LargeSizes) /\ Share(n) \in Nat
      BY <3>1, ShareGrows
    <3>3. leaked[c] <= Share(n) + Cardinality(Outgrown(shmSize[c]))
      BY <2>3 DEF LeakInv
    <3>4. /\ Cardinality(Outgrown(shmSize[c])) \in Nat
          /\ Cardinality(Outgrown(shmSize[c])) <= Cardinality(LargeSizes)
      BY OutgrownBounds DEF TypeOK
    <3> HIDE DEF n
    <3> QED
      BY <2>1, <3>2, <3>3, <3>4, OutgrownBounds
  <2> QED
    BY <2>2, <2>3
<1> QED
  BY <1>1, <1>2, <1>3, TypeCorrect, PTL DEF Spec
=============================================================================
