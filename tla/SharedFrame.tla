----------------------------- MODULE SharedFrame -----------------------------
(***************************************************************************)
(* LookoutVisionInferenceClient built with SHARED_MEMORY: the frame to     *)
(* infer is not sent in the request but written to a POSIX shared memory   *)
(* segment that the Edge Agent opens by the name in the request.  Every    *)
(* client, in whatever pipeline or process, uses the one name SHM_NAME.    *)
(*                                                                         *)
(* The kernel's part is modelled by what the calls of the client do:       *)
(* shm_open binds the name to an object, shm_unlink unbinds it and leaves  *)
(* the object to those who have it open, ftruncate resizes it for all, and *)
(* an access of a mapping beyond the object's end is answered by SIGBUS.   *)
(* An object that only leaked mappings refer to is not accessed any more   *)
(* and stands for a new one again.                                         *)
(***************************************************************************)
EXTENDS Integers, FiniteSets

CONSTANTS
    Clients,        \* LookoutVisionInferenceClient objects; each stands for
                    \* those its process makes one after the other
    Frames,         \* the frames they infer
    Size,           \* their sizes in pages
    DefaultSize,    \* initial shm_size in pages
    Objects,        \* the kernel's shared memory objects
    MaxMade,        \* bound on the clients one process makes
    None,           \* no object, no frame, no answer
    Junk,           \* an image that is no frame: zeros, or a mixture of frames
    Error           \* the answer of an RPC that failed

ASSUME SharedFrameAssumption ==
    /\ Size \in [Frames -> Nat \ {0}]
    /\ DefaultSize \in Nat \ {0} /\ MaxMade \in Nat \ {0}
    /\ None # Junk /\ None # Error /\ Junk # Error
    /\ {None, Junk, Error} \cap (Objects \cup Frames \cup (Clients \X Frames)) = {}

VARIABLES
    pc,         \* pc[c]: the call the client is in, or "none" if it is not alive
    shmFd,      \* shmFd[c]: the object shm_fd and shm_data refer to
    shmSize,    \* shmSize[c]: shm_size
    mapped,     \* the clients whose shm_data is a mapping, not MAP_FAILED
    leaked,     \* leaked[c]: mappings in the process that no shm_data refers to
    frame,      \* frame[c]: the frame DetectAnomalies was called with
    answer,     \* answer[c]: what the agent's answer was computed from
    shmName,    \* the object bound to SHM_NAME
    size,       \* size[o]: the object's size
    content,    \* content[o]: the frame last or being copied to the object
    made,       \* made[c]: the clients the running process has made
    \* History, read by the properties only:
    shmFailed,  \* the clients that had an ftruncate or mmap fail
    overlapped, \* two clients have been alive at the same time
    grown       \* a client has set out to grow its segment

clientVars == <<pc, shmFd, shmSize, mapped, leaked, frame, answer, made>>
kernelVars == <<shmName, size, content>>
historyVars == <<shmFailed, overlapped, grown>>
vars       == <<clientVars, kernelVars, historyVars>>

Image == (Clients \X Frames) \cup {Junk}

IsOpen(c) == pc[c] \notin {"none", "SIGBUS"}
Copiers(o) == {c \in Clients : pc[c] = "memcpy" /\ shmFd[c] = o}
Unused(o) == o # shmName /\ \A c \in Clients : shmFd[c] # o

Init ==
    /\ pc = [c \in Clients |-> "none"]
    /\ shmFd = [c \in Clients |-> None]
    /\ shmSize = [c \in Clients |-> DefaultSize]
    /\ mapped = {} /\ leaked = [c \in Clients |-> 0] /\ made = [c \in Clients |-> 0]
    /\ frame = [c \in Clients |-> None]
    /\ answer = [c \in Clients |-> None]
    /\ shmName = None
    /\ size = [o \in Objects |-> 0]
    /\ content = [o \in Objects |-> Junk]
    /\ shmFailed = {} /\ overlapped = FALSE /\ grown = FALSE

-----------------------------------------------------------------------------
(* The kernel. *)

(* ftruncate: an image that no longer fits loses its end. *)
Resize(o, n) ==
    /\ size' = [size EXCEPT ![o] = n]
    /\ content' = [content EXCEPT ![o] =
           IF \E c \in Clients, f \in Frames : @ = <<c, f>> /\ Size[f] <= n THEN @ ELSE Junk]

(* ftruncate and mmap as setupSHM and writeSHM call them. A failed one     *)
(* changes nothing, but shm_data is overwritten with whatever mmap returns *)
(* and the mapping it was before stays.                                    *)
Ftruncate(c, n, ok) == IF ok THEN Resize(shmFd[c], n) ELSE UNCHANGED <<size, content>>
Mmap(c, ok) ==
    /\ leaked' = [leaked EXCEPT ![c] = IF c \in mapped THEN @ + 1 ELSE @]
    /\ mapped' = IF ok THEN mapped \cup {c} ELSE mapped \ {c}
Fails(c, truncated, mmapped) ==
    shmFailed' = IF truncated /\ mmapped THEN shmFailed ELSE shmFailed \cup {c}

(* The process ends: descriptors and mappings go, the name stays.  A copy  *)
(* it was in the middle of leaves part of a frame.                         *)
End(c, where) ==
    /\ pc' = [pc EXCEPT ![c] = where]
    /\ shmFd' = [shmFd EXCEPT ![c] = None]
    /\ mapped' = mapped \ {c}
    /\ leaked' = [leaked EXCEPT ![c] = 0] /\ made' = [made EXCEPT ![c] = 0]
    /\ frame' = [frame EXCEPT ![c] = None]
    /\ answer' = [answer EXCEPT ![c] = None]
    /\ content' = IF pc[c] = "memcpy" THEN [content EXCEPT ![shmFd[c]] = Junk] ELSE content
    /\ UNCHANGED <<shmSize, shmName, size, historyVars>>

-----------------------------------------------------------------------------
(* Construction and destruction. *)

(* setupSHM: shm_open with O_CREAT opens the object bound to the name,     *)
(* whoever made it, or makes an empty one; if it fails there is no client. *)
(* The process may have made clients before, or be started (again).        *)
ShmOpen(c) ==
    /\ ~IsOpen(c) /\ made[c] < MaxMade
    /\ made' = [made EXCEPT ![c] = @ + 1]
    /\ overlapped' = (overlapped \/ \E d \in Clients : IsOpen(d))
    /\ pc' = [pc EXCEPT ![c] = "setupSHM"]
    /\ shmSize' = [shmSize EXCEPT ![c] = DefaultSize]
    /\ \E o \in Objects :
        /\ shmFd' = [shmFd EXCEPT ![c] = o]
        /\ \/ o = shmName /\ UNCHANGED kernelVars
           \/ shmName = None /\ Unused(o) /\ shmName' = o /\ Resize(o, 0)
    /\ shmFailed' = shmFailed \ {c}
    /\ UNCHANGED <<mapped, leaked, frame, answer, grown>>

(* setupSHM: ftruncate and mmap, which set the size also of an object that *)
(* another client has grown.  Nothing tests whether they succeeded.        *)
SetupSHM(c, truncated, mmapped) ==
    /\ pc[c] = "setupSHM"
    /\ pc' = [pc EXCEPT ![c] = "ready"]
    /\ Ftruncate(c, shmSize[c], truncated) /\ Mmap(c, mmapped)
    /\ Fails(c, truncated, mmapped)
    /\ UNCHANGED <<shmFd, shmSize, frame, answer, made, shmName, overlapped, grown>>

MutantKeepFd(c) ==
    /\ pc[c] = "ready"
    /\ pc' = [pc EXCEPT ![c] = "none"]
    /\ mapped' = mapped \ {c}
    /\ shmName' = None
    /\ UNCHANGED <<shmFd, shmSize, leaked, made, frame, answer, size, content, historyVars>>

(* The destructor removes the name, whichever object it is bound to now,   *)
(* and unmaps what shm_data refers to; leaked mappings stay in the process.*)
Destroy(c) ==
    /\ pc[c] = "ready"
    /\ pc' = [pc EXCEPT ![c] = "none"]
    /\ shmFd' = [shmFd EXCEPT ![c] = None]
    /\ mapped' = mapped \ {c}
    /\ shmName' = None
    /\ UNCHANGED <<shmSize, leaked, made, frame, answer, size, content, historyVars>>

-----------------------------------------------------------------------------
(* DetectAnomalies. *)

MutantResizeToFrame(c, f, truncated, mmapped) ==
    /\ pc[c] = "ready"
    /\ pc' = [pc EXCEPT ![c] = "writeSHM"]
    /\ frame' = [frame EXCEPT ![c] = f]
    /\ \/ /\ Size[f] # shmSize[c]
          /\ shmSize' = [shmSize EXCEPT ![c] = Size[f]]
          /\ Ftruncate(c, Size[f], truncated) /\ Mmap(c, mmapped)
          /\ Fails(c, truncated, mmapped)
          /\ grown' = TRUE
       \/ /\ Size[f] = shmSize[c]
          /\ UNCHANGED <<shmSize, mapped, leaked, size, content, shmFailed, grown>>
    /\ UNCHANGED <<shmFd, answer, made, shmName, overlapped>>

MutantNoFtruncate(c, f, truncated, mmapped) ==
    /\ pc[c] = "ready"
    /\ pc' = [pc EXCEPT ![c] = "writeSHM"]
    /\ frame' = [frame EXCEPT ![c] = f]
    /\ \/ /\ Size[f] > shmSize[c]
          /\ shmSize' = [shmSize EXCEPT ![c] = Size[f]]
          /\ Mmap(c, mmapped) /\ Fails(c, TRUE, mmapped)
          /\ grown' = TRUE
       \/ Size[f] <= shmSize[c] /\ UNCHANGED <<shmSize, mapped, leaked, shmFailed, grown>>
    /\ UNCHANGED <<shmFd, answer, made, kernelVars, overlapped>>

(* writeSHM grows the object for a frame larger than any before.  The old  *)
(* mapping is not unmapped, and shm_size grows also if the calls fail.     *)
WriteSHM(c, f, truncated, mmapped) ==
    /\ pc[c] = "ready"
    /\ pc' = [pc EXCEPT ![c] = "writeSHM"]
    /\ frame' = [frame EXCEPT ![c] = f]
    /\ \/ /\ Size[f] > shmSize[c]
          /\ shmSize' = [shmSize EXCEPT ![c] = Size[f]]
          /\ Ftruncate(c, Size[f], truncated) /\ Mmap(c, mmapped)
          /\ Fails(c, truncated, mmapped)
          /\ grown' = TRUE
       \/ /\ Size[f] <= shmSize[c]
          /\ UNCHANGED <<shmSize, mapped, leaked, size, content, shmFailed, grown>>
    /\ UNCHANGED <<shmFd, answer, made, shmName, overlapped>>

Fits(c) == c \in mapped /\ Size[frame[c]] <= size[shmFd[c]]

(* memcpy begins.  Copies that overlap leave one of the frames, or a mix.  *)
MemcpyBegins(c) ==
    /\ pc[c] = "writeSHM" /\ Fits(c)
    /\ pc' = [pc EXCEPT ![c] = "memcpy"]
    /\ \E image \in {<<d, frame[d]>> : d \in Copiers(shmFd[c]) \cup {c}}
                    \cup (IF Copiers(shmFd[c]) = {} THEN {} ELSE {Junk}) :
           content' = [content EXCEPT ![shmFd[c]] = image]
    /\ UNCHANGED <<shmFd, shmSize, mapped, leaked, frame, answer, made, shmName, size, historyVars>>

MutantNoMemcpy(c) ==
    /\ pc[c] = "writeSHM"
    /\ pc' = [pc EXCEPT ![c] = "DetectAnomalies"]
    /\ UNCHANGED <<shmFd, shmSize, mapped, leaked, frame, answer, made, kernelVars, historyVars>>

(* It ends, also when the object was shrunk behind it. *)
MemcpyEnds(c) ==
    /\ pc[c] = "memcpy"
    /\ pc' = [pc EXCEPT ![c] = "DetectAnomalies"]
    /\ UNCHANGED <<shmFd, shmSize, mapped, leaked, frame, answer, made, kernelVars, historyVars>>

(* The access faults: SIGBUS, or SIGSEGV at MAP_FAILED. *)
BusError(c) ==
    /\ pc[c] \in {"writeSHM", "memcpy"} /\ ~Fits(c)
    /\ End(c, "SIGBUS")

(* The agent opens SHM_NAME and infers what it reads there; an object      *)
(* smaller than the size in the handle it cannot read.                     *)
AgentInfers(c) ==
    /\ pc[c] = "DetectAnomalies" /\ answer[c] = None
    /\ shmName # None /\ Size[frame[c]] <= size[shmName]
    /\ \E image \in {content[shmName]} \cup (IF Copiers(shmName) = {} THEN {} ELSE {Junk}) :
           answer' = [answer EXCEPT ![c] = image]
    /\ UNCHANGED <<pc, shmFd, shmSize, mapped, leaked, frame, made, kernelVars, historyVars>>

(* The agent has no such segment or refuses, or the RPC is not completed.  *)
RpcFails(c) ==
    /\ pc[c] = "DetectAnomalies" /\ answer[c] # Error
    /\ answer' = [answer EXCEPT ![c] = Error]
    /\ UNCHANGED <<pc, shmFd, shmSize, mapped, leaked, frame, made, kernelVars, historyVars>>

DetectAnomaliesReturns(c) ==
    /\ pc[c] = "DetectAnomalies" /\ answer[c] # None
    /\ pc' = [pc EXCEPT ![c] = "ready"]
    /\ frame' = [frame EXCEPT ![c] = None]
    /\ answer' = [answer EXCEPT ![c] = None]
    /\ UNCHANGED <<shmFd, shmSize, mapped, leaked, made, kernelVars, historyVars>>

(* The process is killed, or ends after its clients were destroyed. *)
Crash(c) == made[c] > 0 /\ End(c, "none")

-----------------------------------------------------------------------------
Step(c) ==
    \/ ShmOpen(c)
    \/ Destroy(c)
    \/ \E truncated, mmapped \in BOOLEAN :
        \/ SetupSHM(c, truncated, mmapped)
        \/ \E f \in Frames : WriteSHM(c, f, truncated, mmapped)
    \/ MemcpyBegins(c)
    \/ MemcpyEnds(c)
    \/ BusError(c)
    \/ AgentInfers(c)
    \/ RpcFails(c)
    \/ DetectAnomaliesReturns(c)
    \/ Crash(c)

Next == \E c \in Clients : Step(c)

Spec == Init /\ [][Next]_vars

-----------------------------------------------------------------------------
(* Properties. *)

(* The variables have their types; a client holds an object exactly while  *)
(* it is alive: setupSHM opens it and the destructor closes it             *)
(* (LookoutVisionInferenceClient.cc:36 and 50).                            *)
TypeOK ==
    /\ pc \in [Clients -> {"none", "setupSHM", "ready", "writeSHM", "memcpy",
                           "DetectAnomalies", "SIGBUS"}]
    /\ shmFd \in [Clients -> Objects \cup {None}]
    /\ shmSize \in [Clients -> Nat]
    /\ mapped \subseteq Clients
    /\ leaked \in [Clients -> Nat] /\ made \in [Clients -> Nat]
    /\ frame \in [Clients -> Frames \cup {None}]
    /\ answer \in [Clients -> Image \cup {Error, None}]
    /\ shmName \in Objects \cup {None}
    /\ size \in [Objects -> Nat]
    /\ content \in [Objects -> Image]
    /\ shmFailed \subseteq Clients /\ overlapped \in BOOLEAN /\ grown \in BOOLEAN
    /\ \A c \in Clients : shmFd[c] # None <=> IsOpen(c)
    /\ \A c \in Clients : frame[c] # None <=> pc[c] \in {"writeSHM", "memcpy", "DetectAnomalies"}

(* An answer other than an error was computed from the frame this client   *)
(* is inferring, not from another one's and not from a half-written one    *)
(* (LookoutVisionInferenceClient.cc:74-83, 109).                           *)
ResultIsForThisFrame ==
    \A c \in Clients : answer[c] \in {None, Error, <<c, frame[c]>>}

(* That is so as long as no two clients have been alive at the same time,  *)
(* whatever those before left behind when they crashed, and whichever of   *)
(* the calls that nobody tests failed: a client dies of it rather than     *)
(* have another image inferred                                             *)
(* (LookoutVisionInferenceClient.cc:34-53, 73-83, 103-110).                *)
SoleResults == ~overlapped => ResultIsForThisFrame

(* No copy touches the mapping beyond the object's end, unless a call of   *)
(* this very client on the segment failed: shm_size is what the object's   *)
(* size really is (LookoutVisionInferenceClient.cc:40, 104-109).           *)
NoBusError == \A c \in Clients : pc[c] = "SIGBUS" => c \in shmFailed

(* Otherwise a fault takes both clients that were alive at the same time   *)
(* and one that set out to grow its segment: sole clients never fault,     *)
(* with frames of any size, nor do overlapping ones whose frames fit the   *)
(* initial segment, whatever calls of other clients failed                 *)
(* (LookoutVisionInferenceClient.cc:40, 103-110).                          *)
FaultsTakeBoth == ~(overlapped /\ grown) => NoBusError

(* What a process leaks is bounded by the clients it has made: writeSHM    *)
(* leaves a mapping behind at most once for each size beyond the default,  *)
(* because shm_size only grows, whichever calls failed; the destructor     *)
(* unmaps the last one only (LookoutVisionInferenceClient.cc:49, 104-107). *)
LargeSizes == {Size[f] : f \in Frames} \ 0 .. DefaultSize
LeakBounded == \A c \in Clients : leaked[c] <= made[c] * Cardinality(LargeSizes)
=============================================================================
