----------------------------- MODULE ResultMeta -----------------------------
(***************************************************************************)
(* The life of an inference result (gstlookoutvisionmeta.cc): the          *)
(* lookoutvision element allocates it, a buffer's metadata gets a copy, a  *)
(* copy of the buffer gets another one, readers follow the pointer, and    *)
(* each copy is deleted with its buffer.                                   *)
(*                                                                         *)
(* A place is a thread of the pipeline with the element it is in; it holds *)
(* at most one buffer.  The buffer's reference count is the number of      *)
(* places that hold it.  GStreamer's part is modelled by what the elements *)
(* can see of it: metadata cannot be added to a buffer held elsewhere too, *)
(* it is passed through the transform function when a buffer is copied,    *)
(* and through the free function when the last reference is dropped.       *)
(***************************************************************************)
EXTENDS Functions

CONSTANTS
    Places,     \* streaming threads, each in one element at a time
    Buffers,    \* GstBuffer objects
    Frames,     \* the images in them
    Cells,      \* GstLookoutVisionResult objects, bound of the heap
    Status,     \* SUCCESSFUL and FAILED
    None,       \* no buffer, no result
    Free        \* the contents of memory that is not allocated

ASSUME ResultMetaAssumption ==
    /\ None \notin Buffers \cup Cells
    /\ Free \notin [frame : Frames, status : Status]
    /\ None \notin [frame : Frames, status : Status]

VARIABLES
    pc,         \* pc[p]: "idle", in chain: "add", "delete", a reader's "read",
                \* or "SIGSEGV"
    held,       \* held[p]: the buffer the place holds
    frame,      \* frame[b]: the frame in the buffer
    metas,      \* metas[b]: what the result pointers of its metadata point to
    heap,       \* heap[c]: the result in the memory c
    own,        \* own[p]: inference_result of chain
    ptr,        \* ptr[p]: inference_result of a reader
    registered, \* GstLookoutVisionMeta is registered with GStreamer
    \* History, read by the properties only:
    done,       \* done[f]: the results inferred and handled for the frame
    teed        \* frames whose buffer has been held by two places

bufferVars  == <<held, frame>>
historyVars == <<done, teed>>
vars == <<pc, bufferVars, metas, heap, own, ptr, registered, historyVars>>

Verdict == [frame : Frames, status : Status]
FreeCells == {c \in Cells : heap[c] = Free}
Live(b) == \E p \in Places : held[p] = b
(* gst_buffer_is_writable; also: this is the last reference. *)
Sole(p) == \A q \in Places : held[q] = held[p] => q = p
Results(b) == {heap[c] : c \in metas[b]}

Init ==
    /\ pc = [p \in Places |-> "idle"]
    /\ held = [p \in Places |-> None]
    /\ frame \in [Buffers -> Frames]
    /\ metas = [b \in Buffers |-> {}]
    /\ heap = [c \in Cells |-> Free]
    /\ own = [p \in Places |-> None] /\ ptr = [p \in Places |-> None]
    /\ registered = FALSE
    /\ done = [f \in Frames |-> {}] /\ teed = {}

-----------------------------------------------------------------------------
(* The elements around. *)

(* A source makes a buffer for a new frame. *)
New(p, b, f) ==
    /\ pc[p] = "idle" /\ held[p] = None /\ ~Live(b)
    /\ \A a \in Buffers : Live(a) => frame[a] # f
    /\ held' = [held EXCEPT ![p] = b]
    /\ frame' = [frame EXCEPT ![b] = f]
    /\ done' = [done EXCEPT ![f] = {}] /\ teed' = teed \ {f}
    /\ UNCHANGED <<pc, metas, heap, own, ptr, registered>>

Hands(p, q) == pc[p] = "idle" /\ pc[q] = "idle" /\ held[p] # None /\ held[q] = None

(* A tee gives the same buffer to another branch. *)
Tee(p, q) ==
    /\ Hands(p, q)
    /\ held' = [held EXCEPT ![q] = held[p]]
    /\ teed' = teed \cup {frame[held[p]]}
    /\ UNCHANGED <<pc, frame, metas, heap, own, ptr, registered, done>>

(* A queue passes it on to another thread. *)
Queue(p, q) ==
    /\ Hands(p, q)
    /\ held' = [held EXCEPT ![p] = None, ![q] = held[p]]
    /\ UNCHANGED <<pc, frame, metas, heap, own, ptr, registered, historyVars>>

-----------------------------------------------------------------------------
(* lookoutvision's chain. *)

(* DetectAnomalies returns a new result for the frame. *)
DetectAnomalies(p, s) ==
    /\ pc[p] = "idle" /\ held[p] # None
    /\ \E c \in FreeCells :
        /\ heap' = [heap EXCEPT ![c] = [frame |-> frame[held[p]], status |-> s]]
        /\ own' = [own EXCEPT ![p] = c]
    /\ pc' = [pc EXCEPT ![p] = "add"]
    /\ UNCHANGED <<bufferVars, metas, ptr, registered, historyVars>>

MutantAddPointer(p) ==
    /\ pc[p] = "add"
    /\ registered' = TRUE
    /\ metas' = IF Sole(p) THEN [metas EXCEPT ![held[p]] = @ \cup {own[p]}] ELSE metas
    /\ pc' = [pc EXCEPT ![p] = "delete"]
    /\ done' = [done EXCEPT ![frame[held[p]]] = @ \cup {heap[own[p]]}]
    /\ UNCHANGED <<bufferVars, heap, own, ptr, teed>>

(* gst_buffer_add_lookout_vision_meta copies the result, unless GStreamer  *)
(* refuses to add metadata to a buffer that is not writable.               *)
AddMeta(p) ==
    /\ pc[p] = "add"
    /\ registered' = TRUE
    /\ \/ /\ Sole(p)
          /\ \E c \in FreeCells :
              /\ heap' = [heap EXCEPT ![c] = heap[own[p]]]
              /\ metas' = [metas EXCEPT ![held[p]] = @ \cup {c}]
       \/ ~Sole(p) /\ UNCHANGED <<heap, metas>>
    /\ pc' = [pc EXCEPT ![p] = "delete"]
    /\ done' = [done EXCEPT ![frame[held[p]]] = @ \cup {heap[own[p]]}]
    /\ UNCHANGED <<bufferVars, own, ptr, teed>>

(* chain deletes its result, added or not, and pushes the buffer. *)
Delete(p) ==
    /\ pc[p] = "delete"
    /\ heap' = [heap EXCEPT ![own[p]] = Free]
    /\ own' = [own EXCEPT ![p] = None]
    /\ pc' = [pc EXCEPT ![p] = "idle"]
    /\ UNCHANGED <<bufferVars, metas, ptr, registered, historyVars>>

-----------------------------------------------------------------------------
(* Copies and the end of a buffer. *)

(* The place's reference goes; the last one takes the metadata with it     *)
(* (gst_lookout_vision_meta_free).                                         *)
Freed(p) == IF Sole(p) THEN metas[held[p]] ELSE {}
MetasWithout(p) == IF Sole(p) THEN [metas EXCEPT ![held[p]] = {}] ELSE metas

MutantShareResult(p, b) ==
    /\ pc[p] = "idle" /\ held[p] # None /\ ~Live(b)
    /\ metas' = [MetasWithout(p) EXCEPT ![b] = metas[held[p]]]
    /\ heap' = [c \in Cells |-> IF c \in Freed(p) THEN Free ELSE heap[c]]
    /\ held' = [held EXCEPT ![p] = b]
    /\ frame' = [frame EXCEPT ![b] = frame[held[p]]]
    /\ UNCHANGED <<pc, own, ptr, registered, historyVars>>

(* An element replaces its buffer by a copy, whose metadata gets copies of *)
(* the results (gst_lookout_vision_meta_transform).                        *)
Transform(p, b) ==
    /\ pc[p] = "idle" /\ held[p] # None /\ ~Live(b)
    /\ \E copies \in SUBSET FreeCells : \E of \in Bijection(copies, metas[held[p]]) :
        /\ metas' = [MetasWithout(p) EXCEPT ![b] = copies]
        /\ heap' = [c \in Cells |-> IF c \in copies THEN heap[of[c]]
                                    ELSE IF c \in Freed(p) THEN Free ELSE heap[c]]
    /\ held' = [held EXCEPT ![p] = b]
    /\ frame' = [frame EXCEPT ![b] = frame[held[p]]]
    /\ UNCHANGED <<pc, own, ptr, registered, historyVars>>

MutantNoMetaFree(p) ==
    /\ pc[p] = "idle" /\ held[p] # None
    /\ metas' = MetasWithout(p)
    /\ held' = [held EXCEPT ![p] = None]
    /\ UNCHANGED <<pc, frame, heap, own, ptr, registered, historyVars>>

Unref(p) ==
    /\ pc[p] = "idle" /\ held[p] # None
    /\ metas' = MetasWithout(p)
    /\ heap' = [c \in Cells |-> IF c \in Freed(p) THEN Free ELSE heap[c]]
    /\ held' = [held EXCEPT ![p] = None]
    /\ UNCHANGED <<pc, frame, own, ptr, registered, historyVars>>

-----------------------------------------------------------------------------
(* A reader's chain (inferenceconsumer, mqttpublisher). *)

MutantPushFirst(p) ==
    /\ pc[p] = "idle" /\ held[p] # None /\ registered
    /\ \E c \in metas[held[p]] : ptr' = [ptr EXCEPT ![p] = c]
    /\ pc' = [pc EXCEPT ![p] = "read"]
    /\ metas' = MetasWithout(p)
    /\ heap' = [c \in Cells |-> IF c \in Freed(p) THEN Free ELSE heap[c]]
    /\ held' = [held EXCEPT ![p] = None]
    /\ UNCHANGED <<frame, own, registered, historyVars>>

(* gst_buffer_get_lookout_vision_meta returns one of the buffer's metadata *)
(* of this kind; which one is GStreamer's choice.                          *)
Read(p) ==
    /\ pc[p] = "idle" /\ held[p] # None /\ registered
    /\ \E c \in metas[held[p]] : ptr' = [ptr EXCEPT ![p] = c]
    /\ pc' = [pc EXCEPT ![p] = "read"]
    /\ UNCHANGED <<bufferVars, metas, heap, own, registered, historyVars>>

(* It dereferences the info of a type that is not registered yet. *)
ReadUnregistered(p) ==
    /\ pc[p] = "idle" /\ held[p] # None /\ ~registered
    /\ pc' = [pc EXCEPT ![p] = "SIGSEGV"]
    /\ UNCHANGED <<bufferVars, metas, heap, own, ptr, registered, historyVars>>

(* The result is printed or published, and the buffer pushed. *)
ReadEnds(p) ==
    /\ pc[p] = "read"
    /\ pc' = [pc EXCEPT ![p] = "idle"]
    /\ ptr' = [ptr EXCEPT ![p] = None]
    /\ UNCHANGED <<bufferVars, metas, heap, own, registered, historyVars>>

-----------------------------------------------------------------------------
Step(p) ==
    \/ \E b \in Buffers, f \in Frames : New(p, b, f)
    \/ \E q \in Places : Tee(p, q) \/ Queue(p, q)
    \/ \E s \in Status : DetectAnomalies(p, s)
    \/ AddMeta(p) \/ Delete(p)
    \/ \E b \in Buffers : Transform(p, b)
    \/ Unref(p)
    \/ Read(p) \/ ReadUnregistered(p) \/ ReadEnds(p)

(* A segmentation fault ends them all. *)
Next == (\A p \in Places : pc[p] # "SIGSEGV") /\ \E p \in Places : Step(p)

Spec == Init /\ [][Next]_vars

-----------------------------------------------------------------------------
(* Properties. *)

(* The variables have their types; only live buffers carry metadata, and   *)
(* the pointers of chain and of readers are set while they are in use      *)
(* (gstlookoutvision.cc:236-248, gstinferenceconsumer.cc:110-125).         *)
TypeOK ==
    /\ pc \in [Places -> {"idle", "add", "delete", "read", "SIGSEGV"}]
    /\ held \in [Places -> Buffers \cup {None}]
    /\ frame \in [Buffers -> Frames]
    /\ metas \in [Buffers -> SUBSET Cells]
    /\ heap \in [Cells -> Verdict \cup {Free}]
    /\ own \in [Places -> Cells \cup {None}] /\ ptr \in [Places -> Cells \cup {None}]
    /\ registered \in BOOLEAN
    /\ done \in [Frames -> SUBSET Verdict] /\ teed \subseteq Frames
    /\ \A b \in Buffers : metas[b] # {} => Live(b)
    /\ \A p \in Places :
        /\ own[p] # None <=> pc[p] \in {"add", "delete"}
        /\ ptr[p] # None <=> pc[p] = "read"
        /\ pc[p] # "idle" => held[p] # None

(* Every result allocated has exactly one owner, a buffer's metadata or a  *)
(* chain function that has still to delete it, and nobody owns memory that *)
(* is not allocated: results are neither leaked, nor deleted twice, nor    *)
(* left dangling, through copies, tees and last references in any order    *)
(* (gstlookoutvisionmeta.cc:13-26, 52-66, gstlookoutvision.cc:236-246).    *)
SoleOwner == \A c \in Cells :
    LET buffers == {b \in Buffers : c \in metas[b]}
        chains  == {p \in Places : own[p] = c}
    IN  /\ heap[c] # Free <=> buffers # {} \/ chains # {}
        /\ buffers = {} \/ chains = {}
        /\ \A a, b \in buffers : a = b
        /\ \A p, q \in chains : p = q

(* What a reader sees as long as it reads is a result that was inferred    *)
(* for the frame it holds, also when two lookoutvision elements annotated  *)
(* the buffer, or another branch of the pipeline copies or drops it        *)
(* meanwhile (gstinferenceconsumer.cc:110-116, gstmqttpublisher.cc:163).   *)
ReadsAreTrue == \A p \in Places :
    pc[p] = "read" => heap[ptr[p]] \in done[frame[held[p]]]

(* A frame that was never in two branches at once carries all results      *)
(* inferred for it and no other, through any number of copies              *)
(* (gstlookoutvision.cc:236, gstlookoutvisionmeta.cc:19-26).               *)
AnnotatedUnlessTeed == \A b \in Buffers :
    Live(b) /\ frame[b] \notin teed => Results(b) = done[frame[b]]

(* Results behave like values that travel with their buffer, as            *)
(* gstlookoutvisionmeta.h offers them to other elements: pointers, copies  *)
(* and deletes are not to be seen.                                         *)
Values == INSTANCE AnnotatedBuffers WITH
    Verdicts <- Verdict,
    notes    <- [b \in Buffers |-> Results(b)],
    pending  <- [p \in Places |-> IF pc[p] = "add" THEN heap[own[p]] ELSE None],
    reading  <- [p \in Places |-> IF pc[p] = "read" THEN heap[ptr[p]] ELSE None]

ActsByValue == Values!Spec
=============================================================================
