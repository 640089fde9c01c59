-------------------------- MODULE AnnotatedBuffers --------------------------
(***************************************************************************)
(* What GstLookoutVisionMeta promises to the elements of a pipeline        *)
(* (gstlookoutvisionmeta.h, README.md:155-156): inference results are      *)
(* values that travel with a frame's buffer.  There is no memory here: a   *)
(* copy of a buffer has the results of the original, a result is gone when *)
(* the last reference to its buffer is gone, and not while it is read.     *)
(***************************************************************************)
CONSTANTS Places, Buffers, Frames, Verdicts, None

VARIABLES
    held,       \* held[p]: the buffer a place of the pipeline holds, or None
    frame,      \* frame[b]: the frame in the buffer
    notes,      \* notes[b]: the results the buffer carries
    pending,    \* pending[p]: the result an element is about to attach
    reading     \* reading[p]: the result an element is reading

vars == <<held, frame, notes, pending, reading>>

Idle(p) == pending[p] = None /\ reading[p] = None
Live(b) == \E p \in Places : held[p] = b
Sole(p) == \A q \in Places : held[q] = held[p] => q = p

Init ==
    /\ held = [p \in Places |-> None]
    /\ frame \in [Buffers -> Frames]
    /\ notes = [b \in Buffers |-> {}]
    /\ pending = [p \in Places |-> None]
    /\ reading = [p \in Places |-> None]

New(p, b, f) ==
    /\ Idle(p) /\ held[p] = None /\ ~Live(b)
    /\ held' = [held EXCEPT ![p] = b]
    /\ frame' = [frame EXCEPT ![b] = f]
    /\ UNCHANGED <<notes, pending, reading>>

Infer(p, v) ==
    /\ Idle(p) /\ held[p] # None
    /\ pending' = [pending EXCEPT ![p] = v]
    /\ UNCHANGED <<held, frame, notes, reading>>

(* A result is attached to a buffer nobody else holds, otherwise dropped.  *)
Attach(p) ==
    /\ pending[p] # None
    /\ pending' = [pending EXCEPT ![p] = None]
    /\ notes' = IF Sole(p) THEN [notes EXCEPT ![held[p]] = @ \cup {pending[p]}] ELSE notes
    /\ UNCHANGED <<held, frame, reading>>

Share(p, q) ==
    /\ Idle(p) /\ Idle(q) /\ held[p] # None /\ held[q] = None
    /\ held' = [held EXCEPT ![q] = held[p]]
    /\ UNCHANGED <<frame, notes, pending, reading>>

Move(p, q) ==
    /\ Idle(p) /\ Idle(q) /\ held[p] # None /\ held[q] = None
    /\ held' = [held EXCEPT ![p] = None, ![q] = held[p]]
    /\ UNCHANGED <<frame, notes, pending, reading>>

Drop(p) == IF Sole(p) THEN [notes EXCEPT ![held[p]] = {}] ELSE notes

Copy(p, b) ==
    /\ Idle(p) /\ held[p] # None /\ ~Live(b)
    /\ held' = [held EXCEPT ![p] = b]
    /\ frame' = [frame EXCEPT ![b] = frame[held[p]]]
    /\ notes' = [Drop(p) EXCEPT ![b] = notes[held[p]]]
    /\ UNCHANGED <<pending, reading>>

Read(p) ==
    /\ Idle(p) /\ held[p] # None
    /\ \E v \in notes[held[p]] : reading' = [reading EXCEPT ![p] = v]
    /\ UNCHANGED <<held, frame, notes, pending>>

ReadEnds(p) ==
    /\ reading[p] # None
    /\ reading' = [reading EXCEPT ![p] = None]
    /\ UNCHANGED <<held, frame, notes, pending>>

Unref(p) ==
    /\ Idle(p) /\ held[p] # None
    /\ held' = [held EXCEPT ![p] = None]
    /\ notes' = Drop(p)
    /\ UNCHANGED <<frame, pending, reading>>

Next == \E p \in Places :
    \/ \E b \in Buffers, f \in Frames : New(p, b, f)
    \/ \E v \in Verdicts : Infer(p, v)
    \/ Attach(p)
    \/ \E q \in Places : Share(p, q) \/ Move(p, q)
    \/ \E b \in Buffers : Copy(p, b)
    \/ Read(p) \/ ReadEnds(p)
    \/ Unref(p)

Spec == Init /\ [][Next]_vars
=============================================================================
