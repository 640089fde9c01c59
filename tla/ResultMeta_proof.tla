-------------------------- MODULE ResultMeta_proof --------------------------
(***************************************************************************)
(* Proofs about ResultMeta for every set of threads, buffers, frames and   *)
(* memory: each result has one owner, what readers see is true, and the    *)
(* pointers implement results that travel by value.                        *)
(***************************************************************************)
EXTENDS ResultMeta, TLAPS

LEMMA BijectionFacts ==
    ASSUME NEW S, NEW T, NEW f \in Bijection(S, T)
    PROVE  /\ f \in [S -> T]
           /\ \A x, y \in S : f[x] = f[y] => x = y
           /\ \A t \in T : \E s \in S : f[s] = t
  BY DEF Bijection, Injection, Surjection, IsInjective

(* The parts of SoleOwner, and that a reader's pointer is to metadata of   *)
(* the buffer it holds.                                                    *)
MetasAllocated == \A b \in Buffers : \A c \in metas[b] : heap[c] # Free
OwnAllocated == \A p \in Places : own[p] # None => heap[own[p]] # Free
OneBuffer == \A a, b \in Buffers : \A c \in metas[a] : c \in metas[b] => a = b
OneChain == \A p, q \in Places : own[p] = own[q] /\ own[p] # None => p = q
NotBoth == \A p \in Places, b \in Buffers : own[p] \notin metas[b]
NoLeak == \A c \in Cells : heap[c] # Free =>
    (\E b \in Buffers : c \in metas[b]) \/ (\E p \in Places : own[p] = c)
ReadsHeld == \A p \in Places : pc[p] = "read" => ptr[p] \in metas[held[p]]
Owned ==
    /\ MetasAllocated /\ OwnAllocated
    /\ OneBuffer /\ OneChain /\ NotBoth
    /\ NoLeak /\ ReadsHeld

(* Every step keeps the types.                                             *)
LEMMA TypeStep == TypeOK /\ Owned /\ [Next]_vars => TypeOK'
<1> SUFFICES ASSUME TypeOK, Owned, [Next]_vars PROVE TypeOK'
  OBVIOUS
<1> USE ResultMetaAssumption
    DEF TypeOK, Verdict, Live, Sole, bufferVars, historyVars, FreeCells
<1>1. CASE UNCHANGED vars
  BY <1>1 DEF vars
<1>2. CASE Next
  <2> PICK p \in Places : Step(p)
    BY <1>2 DEF Next
  <2>1. CASE \E b \in Buffers, f \in Frames : New(p, b, f)
    BY <2>1 DEF New
  <2>2. CASE \E q \in Places : Tee(p, q)
    BY <2>2 DEF Tee, Hands
  <2>3. CASE \E q \in Places : Queue(p, q)
    BY <2>3 DEF Queue, Hands
  <2>4. CASE \E s \in Status : DetectAnomalies(p, s)
    BY <2>4 DEF DetectAnomalies
  <2>5. CASE AddMeta(p)
    <3>1. heap[own[p]] \in Verdict /\ held[p] \in Buffers
      BY <2>5 DEF AddMeta, Owned, OwnAllocated
    <3>2. done' \in [Frames -> SUBSET Verdict]
      BY <2>5, <3>1 DEF AddMeta
    <3>3. heap' \in [Cells -> Verdict \cup {Free}] /\ metas' \in [Buffers -> SUBSET Cells]
      BY <2>5, <3>1 DEF AddMeta
    <3>4. \A b \in Buffers : metas'[b] # {} => Live(b)'
      BY <2>5, <3>1 DEF AddMeta
    <3>5. registered' \in BOOLEAN
      BY <2>5 DEF AddMeta
    <3> QED
      BY <2>5, <3>2, <3>3, <3>4, <3>5 DEF AddMeta
  <2>6. CASE Delete(p)
    BY <2>6 DEF Delete
  <2>7. CASE \E b \in Buffers : Transform(p, b)
    <3> PICK b \in Buffers : Transform(p, b)
      BY <2>7
    <3> PICK copies \in SUBSET FreeCells : \E of \in Bijection(copies, metas[held[p]]) :
          /\ metas' = [MetasWithout(p) EXCEPT ![b] = copies]
          /\ heap' = [c \in Cells |-> IF c \in copies THEN heap[of[c]]
                                      ELSE IF c \in Freed(p) THEN Free ELSE heap[c]]
      BY DEF Transform
    <3> PICK of \in Bijection(copies, metas[held[p]]) :
          /\ metas' = [MetasWithout(p) EXCEPT ![b] = copies]
          /\ heap' = [c \in Cells |-> IF c \in copies THEN heap[of[c]]
                                      ELSE IF c \in Freed(p) THEN Free ELSE heap[c]]
      OBVIOUS
    <3>1. held[p] \in Buffers /\ of \in [copies -> metas[held[p]]]
      BY BijectionFacts DEF Transform
    <3>2. heap' \in [Cells -> Verdict \cup {Free}]
      BY <3>1
    <3>3. metas' \in [Buffers -> SUBSET Cells]
      BY <3>1 DEF MetasWithout
    <3>4. \A a \in Buffers : metas'[a] # {} => Live(a)'
      BY <3>1 DEF MetasWithout, Transform
    <3> QED
      BY <3>1, <3>2, <3>3, <3>4 DEF Transform
  <2>8. CASE Unref(p)
    BY <2>8 DEF Unref, MetasWithout, Freed
  <2>9. CASE Read(p)
    BY <2>9 DEF Read
  <2>10. CASE ReadUnregistered(p)
    BY <2>10 DEF ReadUnregistered
  <2>11. CASE ReadEnds(p)
    BY <2>11 DEF ReadEnds
  <2> QED
    BY <2>1, <2>2, <2>3, <2>4, <2>5, <2>6, <2>7, <2>8, <2>9, <2>10, <2>11 DEF Step
<1> QED
  BY <1>1, <1>2

(* Every step keeps the owners apart.                                      *)
LEMMA OwnedStep == TypeOK /\ Owned /\ [Next]_vars => Owned'
<1> SUFFICES ASSUME TypeOK, Owned, [Next]_vars PROVE Owned'
  OBVIOUS
<1> USE ResultMetaAssumption
    DEF TypeOK, Owned, MetasAllocated, OwnAllocated, OneBuffer, OneChain, NotBoth, NoLeak,
        ReadsHeld, Verdict, Live, Sole, bufferVars, historyVars, FreeCells
<1>1. CASE UNCHANGED vars
  BY <1>1 DEF vars
<1>2. CASE Next
  <2> PICK p \in Places : Step(p)
    BY <1>2 DEF Next
  <2>1. CASE \E b \in Buffers, f \in Frames : New(p, b, f)
    BY <2>1 DEF New
  <2>2. CASE \E q \in Places : Tee(p, q)
    BY <2>2 DEF Tee, Hands
  <2>3. CASE \E q \in Places : Queue(p, q)
    <3> PICK q \in Places : Queue(p, q)
      BY <2>3
    <3>1. MetasAllocated' /\ OwnAllocated' /\ OneBuffer' /\ OneChain' /\ NotBoth' /\ NoLeak'
      BY DEF Queue
    <3>2. ReadsHeld'
      BY DEF Queue, Hands
    <3> QED
      BY <3>1, <3>2
  <2>4. CASE \E s \in Status : DetectAnomalies(p, s)
    <3> PICK s \in Status, c \in FreeCells :
          /\ heap' = [heap EXCEPT ![c] = [frame |-> frame[held[p]], status |-> s]]
          /\ own' = [own EXCEPT ![p] = c]
      BY <2>4 DEF DetectAnomalies
    <3>1. /\ heap[c] = Free /\ c \in Cells /\ heap'[c] # Free
          /\ \A d \in Cells : d # c => heap'[d] = heap[d]
          /\ own'[p] = c /\ \A q \in Places : q # p => own'[q] = own[q]
      BY <2>4 DEF DetectAnomalies
    <3>2. UNCHANGED <<held, metas, ptr>> /\ pc' = [pc EXCEPT ![p] = "add"]
      BY <2>4 DEF DetectAnomalies
    <3>3. MetasAllocated' /\ OwnAllocated'
      BY <3>1, <3>2
    <3>4. OneBuffer' /\ OneChain' /\ NotBoth'
      BY <3>1, <3>2
    <3>5. NoLeak'
      <4> SUFFICES ASSUME NEW d \in Cells, heap'[d] # Free
                   PROVE  (\E b \in Buffers : d \in metas[b]) \/ (\E q \in Places : own'[q] = d)
        BY <3>2
      <4>1. CASE d = c
        BY <4>1, <3>1
      <4>2. CASE d # c
        <5>1. own[p] = None
          BY <2>4 DEF DetectAnomalies
        <5> QED
          BY <4>2, <5>1, <3>1
      <4> QED
        BY <4>1, <4>2
    <3>6. ReadsHeld'
      BY <3>2
    <3> QED
      BY <3>3, <3>4, <3>5, <3>6
  <2>5. CASE AddMeta(p)
    <3>1. CASE ~Sole(p)
      <4>1. UNCHANGED <<held, metas, heap, own, ptr>> /\ pc' = [pc EXCEPT ![p] = "delete"]
        BY <2>5, <3>1 DEF AddMeta
      <4>2. MetasAllocated' /\ OwnAllocated' /\ OneBuffer' /\ OneChain' /\ NotBoth' /\ NoLeak'
        BY <4>1
      <4>3. ReadsHeld'
        BY <4>1
      <4> QED
        BY <4>2, <4>3
    <3>2. CASE Sole(p)
      <4> PICK c \in FreeCells :
            /\ heap' = [heap EXCEPT ![c] = heap[own[p]]]
            /\ metas' = [metas EXCEPT ![held[p]] = @ \cup {c}]
        BY <2>5, <3>2 DEF AddMeta
      <4>1. /\ held[p] \in Buffers /\ own[p] \in Cells /\ heap[own[p]] # Free
            /\ c \in Cells /\ heap[c] = Free /\ heap'[c] # Free
            /\ \A d \in Cells : d # c => heap'[d] = heap[d]
            /\ metas'[held[p]] = metas[held[p]] \cup {c}
            /\ \A b \in Buffers : b # held[p] => metas'[b] = metas[b]
        BY <2>5 DEF AddMeta
      <4>2. UNCHANGED <<held, own, ptr>> /\ pc' = [pc EXCEPT ![p] = "delete"]
        BY <2>5 DEF AddMeta
      <4>3. MetasAllocated' /\ OwnAllocated'
        BY <4>1, <4>2
      <4>4. OneBuffer' /\ OneChain' /\ NotBoth'
        BY <4>1, <4>2
      <4>5. NoLeak'
        BY <4>1, <4>2
      <4>6. ReadsHeld'
        BY <4>1, <4>2
      <4> QED
        BY <4>3, <4>4, <4>5, <4>6
    <3> QED
      BY <3>1, <3>2
  <2>6. CASE Delete(p)
    BY <2>6 DEF Delete
  <2>7. CASE \E b \in Buffers : Transform(p, b)
    <3> PICK b \in Buffers : Transform(p, b)
      BY <2>7
    <3> PICK copies \in SUBSET FreeCells : \E of \in Bijection(copies, metas[held[p]]) :
          /\ metas' = [MetasWithout(p) EXCEPT ![b] = copies]
          /\ heap' = [c \in Cells |-> IF c \in copies THEN heap[of[c]]
                                      ELSE IF c \in Freed(p) THEN Free ELSE heap[c]]
      BY DEF Transform
    <3> PICK of \in Bijection(copies, metas[held[p]]) :
          /\ metas' = [MetasWithout(p) EXCEPT ![b] = copies]
          /\ heap' = [c \in Cells |-> IF c \in copies THEN heap[of[c]]
                                      ELSE IF c \in Freed(p) THEN Free ELSE heap[c]]
      OBVIOUS
    <3>1. held[p] \in Buffers /\ of \in [copies -> metas[held[p]]]
      BY BijectionFacts DEF Transform
    <3>2. /\ UNCHANGED <<own, ptr, pc>> /\ held' = [held EXCEPT ![p] = b]
          /\ pc[p] = "idle" /\ metas[b] = {} /\ b # held[p]
      BY <3>1 DEF Transform
    <3>3. /\ metas'[b] = copies
          /\ \A a \in Buffers : a # b => metas'[a] = metas[a] \ (IF a = held[p] THEN Freed(p) ELSE {})
          /\ Freed(p) \subseteq metas[held[p]]
          /\ Freed(p) # {} => Sole(p) /\ metas'[held[p]] = {} /\ Freed(p) = metas[held[p]]
      BY <3>1, <3>2 DEF MetasWithout, Freed
    <3>4. /\ \A c \in copies : heap[c] = Free /\ heap'[c] # Free /\ c \in Cells
          /\ \A c \in Freed(p) : c \notin copies /\ heap'[c] = Free
          /\ \A c \in Cells : c \notin copies /\ c \notin Freed(p) => heap'[c] = heap[c]
      BY <3>1 DEF Freed
    <3> HIDE DEF Freed, Sole, Live, FreeCells
    <3>5. ASSUME NEW c \in copies
          PROVE  (\A a \in Buffers : c \notin metas[a]) /\ (\A q \in Places : own[q] # c)
      <4>1. heap[c] = Free /\ c \in Cells
        BY <3>4, Zenon
      <4>2. \A a \in Buffers : c \notin metas[a]
        BY <4>1
      <4>3. \A q \in Places : own[q] # c
        BY <4>1
      <4> QED
        BY <4>2, <4>3
    <3>6. MetasAllocated'
      BY <3>1, <3>2, <3>3, <3>4
    <3>7. OwnAllocated'
      BY <3>1, <3>2, <3>3, <3>4
    <3>8. OneBuffer'
      <4> SUFFICES ASSUME NEW a \in Buffers, NEW d \in Buffers, NEW c \in metas'[a],
                          c \in metas'[d], a # d
                   PROVE  FALSE
        OBVIOUS
      <4>1. a # b => c \in metas[a]
        BY <3>3
      <4>2. d # b => c \in metas[d]
        BY <3>3
      <4>3. c \in copies => a = b /\ d = b
        BY <4>1, <4>2, <3>5
      <4>4. CASE a = b
        BY <4>2, <4>3, <4>4, <3>3
      <4>5. CASE d = b
        BY <4>1, <4>3, <4>5, <3>3
      <4>6. CASE a # b /\ d # b
        <5>1. c \in metas[a] /\ c \in metas[d]
          BY <4>1, <4>2, <4>6
        <5> QED
          BY <5>1 DEF OneBuffer
      <4> QED
        BY <4>4, <4>5, <4>6
    <3>9. OneChain' /\ NotBoth'
      <4>1. OneChain'
        BY <3>2
      <4>2. NotBoth'
        <5> SUFFICES ASSUME NEW q \in Places, NEW a \in Buffers, own[q] \in metas'[a]
                     PROVE  FALSE
          BY <3>2
        <5>1. CASE a = b
          <6>1. own[q] \in copies
            BY <5>1, <3>3
          <6> QED
            BY <6>1, <3>5
        <5>2. CASE a # b
          BY <5>2, <3>3
        <5> QED
          BY <5>1, <5>2
      <4> QED
        BY <4>1, <4>2
    <3>10. NoLeak'
      <4> SUFFICES ASSUME NEW c \in Cells, heap'[c] # Free, ~\E q \in Places : own[q] = c
                   PROVE  \E a \in Buffers : c \in metas'[a]
        BY <3>2
      <4>1. CASE c \in copies
        BY <4>1, <3>3
      <4>2. CASE c \notin copies
        <5>1. c \notin Freed(p) /\ heap[c] # Free
          BY <4>2, <3>4
        <5>2. PICK a \in Buffers : c \in metas[a]
          BY <5>1
        <5> QED
          BY <5>1, <5>2, <3>2, <3>3
      <4> QED
        BY <4>1, <4>2
    <3>11. ReadsHeld'
      <4> SUFFICES ASSUME NEW q \in Places, pc[q] = "read"
                   PROVE  ptr[q] \in metas'[held'[q]]
        BY <3>2
      <4>1. q # p /\ held'[q] = held[q] /\ held[q] \in Buffers /\ held[q] # b
        BY <3>2
      <4>2. held[q] = held[p] => Freed(p) = {}
        BY <4>1 DEF Freed, Sole
      <4> QED
        BY <4>1, <4>2, <3>3
    <3> QED
      BY <3>6, <3>7, <3>8, <3>9, <3>10, <3>11
  <2>8. CASE Unref(p)
    BY <2>8 DEF Unref, MetasWithout, Freed
  <2>9. CASE Read(p)
    BY <2>9 DEF Read
  <2>10. CASE ReadUnregistered(p)
    BY <2>10 DEF ReadUnregistered
  <2>11. CASE ReadEnds(p)
    BY <2>11 DEF ReadEnds
  <2> QED
    BY <2>1, <2>2, <2>3, <2>4, <2>5, <2>6, <2>7, <2>8, <2>9, <2>10, <2>11 DEF Step
<1> QED
  BY <1>1, <1>2

LEMMA OwnedInvariant == Spec => [](TypeOK /\ Owned)
<1>1. Init => TypeOK /\ Owned
  BY ResultMetaAssumption DEF Init, TypeOK, Live, Owned, MetasAllocated, OwnAllocated, OneBuffer,
     OneChain, NotBoth, NoLeak, ReadsHeld
<1> QED
  BY <1>1, TypeStep, OwnedStep, PTL DEF Spec

(* The variables keep their types, whatever the pipeline does to its       *)
(* buffers (gstlookoutvision.cc:236-248).                                  *)
THEOREM TypeCorrect == Spec => []TypeOK
  BY OwnedInvariant, PTL

(* Each result has one owner and each owner an allocated result, for any   *)
(* number of threads, buffers and results (gstlookoutvisionmeta.cc:13-26,  *)
(* 52-66).                                                                 *)
THEOREM ResultsHaveOneOwner == Spec => []SoleOwner
<1>1. TypeOK /\ Owned => SoleOwner
  <2> SUFFICES ASSUME TypeOK, Owned, NEW c \in Cells
               PROVE  LET buffers == {b \in Buffers : c \in metas[b]}
                          chains  == {p \in Places : own[p] = c}
                      IN  /\ heap[c] # Free <=> buffers # {} \/ chains # {}
                          /\ buffers = {} \/ chains = {}
                          /\ \A a, b \in buffers : a = b
                          /\ \A p, q \in chains : p = q
    BY DEF SoleOwner
  <2> DEFINE buffers == {b \in Buffers : c \in metas[b]}
             chains  == {p \in Places : own[p] = c}
  <2>1. heap[c] # Free => buffers # {} \/ chains # {}
    BY DEF Owned, NoLeak
  <2>2. buffers # {} => heap[c] # Free
    BY DEF Owned, MetasAllocated
  <2>3. chains # {} => heap[c] # Free
    BY ResultMetaAssumption DEF Owned, OwnAllocated
  <2>4. buffers = {} \/ chains = {}
    BY DEF Owned, NotBoth
  <2>5. \A a, b \in buffers : a = b
    BY DEF Owned, OneBuffer
  <2>6. \A p, q \in chains : p = q
    BY ResultMetaAssumption DEF Owned, OneChain
  <2> QED
    BY <2>1, <2>2, <2>3, <2>4, <2>5, <2>6
<1> QED
  BY <1>1, OwnedInvariant, PTL

-----------------------------------------------------------------------------
(* What the steps do to the results, seen as values.                       *)

(* The results a chain function is about to add and those being read stay  *)
(* what they are.                                                          *)
InUseKept(p) == \A q \in Places :
    /\ q # p /\ pc[q] = "add" => heap'[own[q]] = heap[own[q]]
    /\ pc[q] = "read" => heap'[ptr[q]] = heap[ptr[q]]

LEMMA SameResults ==
    ASSUME NEW b, metas'[b] = metas[b], \A c \in metas[b] : heap'[c] = heap[c]
    PROVE  Results(b)' = Results(b)
  BY DEF Results

(* Writing memory that was free changes no result.                         *)
LEMMA FreshWrite ==
    ASSUME TypeOK, Owned, NEW c \in FreeCells, NEW v, NEW p \in Places,
           heap' = [heap EXCEPT ![c] = v]
    PROVE  InUseKept(p) /\ \A b \in Buffers : \A d \in metas[b] : heap'[d] = heap[d]
<1> USE ResultMetaAssumption DEF TypeOK, Owned, FreeCells
<1>1. \A d \in Cells : heap[d] # Free => heap'[d] = heap[d]
  OBVIOUS
<1>2. \A b \in Buffers : \A d \in metas[b] : heap'[d] = heap[d]
  BY <1>1 DEF MetasAllocated
<1>3. \A q \in Places : pc[q] = "add" => heap'[own[q]] = heap[own[q]]
  BY <1>1 DEF OwnAllocated
<1>4. \A q \in Places : pc[q] = "read" => heap'[ptr[q]] = heap[ptr[q]]
  BY <1>2 DEF ReadsHeld
<1> QED
  BY <1>2, <1>3, <1>4 DEF InUseKept

(* A result for a buffer held elsewhere is not added.                      *)
LEMMA AddResults ==
    ASSUME TypeOK, Owned, NEW p \in Places, AddMeta(p)
    PROVE  /\ InUseKept(p)
           /\ \A b \in Buffers :
                 Results(b)' = IF b = held[p] /\ Sole(p)
                               THEN Results(b) \cup {heap[own[p]]} ELSE Results(b)
<1> USE DEF TypeOK
<1>1. CASE ~Sole(p)
  BY <1>1 DEF AddMeta, InUseKept, Results
<1>2. CASE Sole(p)
  <2> PICK c \in FreeCells :
        /\ heap' = [heap EXCEPT ![c] = heap[own[p]]]
        /\ metas' = [metas EXCEPT ![held[p]] = @ \cup {c}]
    BY <1>2 DEF AddMeta
  <2>1. InUseKept(p) /\ \A b \in Buffers : \A d \in metas[b] : heap'[d] = heap[d]
    BY FreshWrite
  <2>2. c \in Cells /\ heap'[c] = heap[own[p]] /\ held[p] \in Buffers
    BY DEF FreeCells, AddMeta
  <2>3. Results(held[p])' = Results(held[p]) \cup {heap[own[p]]}
    <3>1. metas'[held[p]] = metas[held[p]] \cup {c} /\ held' = held
      BY <2>2 DEF AddMeta, bufferVars
    <3> QED
      BY <2>1, <2>2, <3>1 DEF Results
  <2>4. \A b \in Buffers : b # held[p] => Results(b)' = Results(b)
    BY <2>1, <2>2 DEF Results
  <2> QED
    BY <1>2, <2>1, <2>3, <2>4 DEF AddMeta, bufferVars
<1> QED
  BY <1>1, <1>2

(* chain's delete takes a result that nobody else refers to.               *)
LEMMA DeleteEffect ==
    ASSUME TypeOK, Owned, NEW p \in Places, Delete(p)
    PROVE  InUseKept(p) /\ \A b \in Buffers : Results(b)' = Results(b)
<1> USE ResultMetaAssumption DEF TypeOK, Owned
<1>1. own[p] \in Cells /\ \A d \in Cells : d # own[p] => heap'[d] = heap[d]
  BY DEF Delete
<1>2. \A b \in Buffers : \A d \in metas[b] : heap'[d] = heap[d]
  BY <1>1 DEF NotBoth
<1>3. \A b \in Buffers : Results(b)' = Results(b)
  BY <1>2 DEF Results, Delete
<1>4. \A q \in Places : q # p /\ pc[q] = "add" => heap'[own[q]] = heap[own[q]]
  BY <1>1 DEF OneChain
<1>5. \A q \in Places : pc[q] = "read" => heap'[ptr[q]] = heap[ptr[q]]
  BY <1>2 DEF ReadsHeld
<1> QED
  BY <1>3, <1>4, <1>5 DEF InUseKept

(* The last reference of a buffer takes its results and no others.         *)
LEMMA UnrefEffect ==
    ASSUME TypeOK, Owned, NEW p \in Places, held[p] \in Buffers, pc[p] = "idle",
           NEW copies \in SUBSET FreeCells,
           \A c \in Cells : c \notin copies /\ c \notin Freed(p) => heap'[c] = heap[c]
    PROVE  /\ InUseKept(p)
           /\ \A a \in Buffers : ~(a = held[p] /\ Sole(p)) =>
                 \A c \in metas[a] : heap'[c] = heap[c]
<1> USE ResultMetaAssumption DEF TypeOK, Owned, FreeCells
<1>1. ASSUME NEW a \in Buffers, ~(a = held[p] /\ Sole(p)), NEW c \in metas[a]
      PROVE  heap'[c] = heap[c]
  <2>1. c \in Cells /\ c \notin copies
    BY DEF MetasAllocated
  <2>2. c \notin Freed(p)
    BY <1>1 DEF Freed, OneBuffer
  <2> QED
    BY <2>1, <2>2
<1>2. ASSUME NEW q \in Places, pc[q] = "add" PROVE heap'[own[q]] = heap[own[q]]
  <2>1. own[q] \in Cells /\ own[q] \notin copies
    BY <1>2 DEF OwnAllocated
  <2>2. own[q] \notin Freed(p)
    BY DEF Freed, NotBoth
  <2> QED
    BY <2>1, <2>2
<1>3. ASSUME NEW q \in Places, pc[q] = "read" PROVE heap'[ptr[q]] = heap[ptr[q]]
  <2>1. ptr[q] \in metas[held[q]] /\ held[q] \in Buffers
    BY <1>3 DEF ReadsHeld
  <2>2. ~(held[q] = held[p] /\ Sole(p))
    BY <1>3 DEF Sole
  <2> QED
    BY <1>1, <2>1, <2>2
<1>4. InUseKept(p)
  BY <1>2, <1>3 DEF InUseKept
<1> QED
  BY <1>1, <1>4

LEMMA UnrefResults ==
    ASSUME TypeOK, Owned, NEW p \in Places, Unref(p)
    PROVE  /\ InUseKept(p)
           /\ \A a \in Buffers :
                 Results(a)' = IF a = held[p] /\ Sole(p) THEN {} ELSE Results(a)
<1> USE DEF TypeOK
<1>1. held[p] \in Buffers /\ pc[p] = "idle"
  BY DEF Unref
<1>2. \A c \in Cells : c \notin {} /\ c \notin Freed(p) => heap'[c] = heap[c]
  BY DEF Unref
<1>3. /\ InUseKept(p)
      /\ \A a \in Buffers : ~(a = held[p] /\ Sole(p)) =>
            \A c \in metas[a] : heap'[c] = heap[c]
  BY <1>1, <1>2, UnrefEffect
<1>4. ASSUME NEW a \in Buffers
      PROVE  Results(a)' = IF a = held[p] /\ Sole(p) THEN {} ELSE Results(a)
  <2>1. metas'[a] = IF a = held[p] /\ Sole(p) THEN {} ELSE metas[a]
    BY <1>1 DEF Unref, MetasWithout
  <2> QED
    BY <1>3, <2>1 DEF Results
<1> QED
  BY <1>3, <1>4

(* The transform function gives the copy results of its own.               *)
LEMMA TransformResults ==
    ASSUME TypeOK, Owned, NEW p \in Places, NEW b \in Buffers, Transform(p, b)
    PROVE  /\ InUseKept(p)
           /\ Results(b)' = Results(held[p])
           /\ \A a \in Buffers \ {b} :
                 Results(a)' = IF a = held[p] /\ Sole(p) THEN {} ELSE Results(a)
<1> USE DEF TypeOK
<1> PICK copies \in SUBSET FreeCells : \E of \in Bijection(copies, metas[held[p]]) :
      /\ metas' = [MetasWithout(p) EXCEPT ![b] = copies]
      /\ heap' = [c \in Cells |-> IF c \in copies THEN heap[of[c]]
                                  ELSE IF c \in Freed(p) THEN Free ELSE heap[c]]
  BY DEF Transform
<1> PICK of \in Bijection(copies, metas[held[p]]) :
      /\ metas' = [MetasWithout(p) EXCEPT ![b] = copies]
      /\ heap' = [c \in Cells |-> IF c \in copies THEN heap[of[c]]
                                  ELSE IF c \in Freed(p) THEN Free ELSE heap[c]]
  OBVIOUS
<1>1. held[p] \in Buffers /\ pc[p] = "idle" /\ held[p] # b
  BY ResultMetaAssumption DEF Transform, Live
<1>2. /\ of \in [copies -> metas[held[p]]]
      /\ \A t \in metas[held[p]] : \E c \in copies : of[c] = t
  BY BijectionFacts
<1>3. \A c \in Cells : c \notin copies /\ c \notin Freed(p) => heap'[c] = heap[c]
  OBVIOUS
<1>4. /\ InUseKept(p)
      /\ \A a \in Buffers : ~(a = held[p] /\ Sole(p)) =>
            \A c \in metas[a] : heap'[c] = heap[c]
  BY <1>1, <1>3, UnrefEffect
<1>5. Results(b)' = Results(held[p])
  <2>1. metas'[b] = copies /\ \A c \in copies : heap'[c] = heap[of[c]]
    BY <1>1 DEF MetasWithout, FreeCells
  <2>2. \A c \in copies : \E t \in metas[held[p]] : heap'[c] = heap[t]
    BY <1>2, <2>1
  <2>3. ASSUME NEW t \in metas[held[p]] PROVE \E c \in copies : heap'[c] = heap[t]
    <3>1. PICK c \in copies : of[c] = t
      BY <1>2
    <3>2. heap'[c] = heap[of[c]]
      BY <2>1
    <3> QED
      BY <3>1, <3>2
  <2> QED
    BY <2>1, <2>2, <2>3 DEF Results
<1>6. ASSUME NEW a \in Buffers \ {b}
      PROVE  Results(a)' = IF a = held[p] /\ Sole(p) THEN {} ELSE Results(a)
  <2>1. metas'[a] = IF a = held[p] /\ Sole(p) THEN {} ELSE metas[a]
    BY <1>1 DEF MetasWithout
  <2>2. CASE a = held[p] /\ Sole(p)
    BY <2>1, <2>2 DEF Results
  <2>3. CASE ~(a = held[p] /\ Sole(p))
    <3>1. metas'[a] = metas[a] /\ \A c \in metas[a] : heap'[c] = heap[c]
      BY <1>4, <2>1, <2>3
    <3>2. Results(a)' = Results(a)
      BY <3>1, SameResults
    <3> QED
      BY <2>3, <3>2
  <2> QED
    BY <2>2, <2>3
<1> QED
  BY <1>4, <1>5, <1>6

-----------------------------------------------------------------------------
(* The results a buffer carries are results for its frame; all of them, if *)
(* the frame was never in two branches; and frames in two places were.     *)
MetasTrue == \A b \in Buffers : Results(b) \subseteq done[frame[b]]
AllThere == \A b \in Buffers :
    Live(b) /\ frame[b] \notin teed => done[frame[b]] \subseteq Results(b)
TeedTwice == \A p, q \in Places :
    /\ p # q /\ held[p] # None /\ held[q] # None
    /\ frame[held[p]] = frame[held[q]]
    => frame[held[p]] \in teed
Truth == MetasTrue /\ AllThere /\ TeedTwice

(* Every step keeps what the results say true.                             *)
LEMMA TruthStep == TypeOK /\ Owned /\ Truth /\ [Next]_vars => Truth'
<1> SUFFICES ASSUME TypeOK, Owned, Truth, [Next]_vars PROVE Truth'
  OBVIOUS
<1> USE ResultMetaAssumption
    DEF TypeOK, Truth, MetasTrue, AllThere, TeedTwice, Live, bufferVars, historyVars
<1>1. CASE UNCHANGED vars
  BY <1>1 DEF vars, Results
<1>2. CASE Next
  <2> PICK p \in Places : Step(p)
    BY <1>2 DEF Next
  <2>1. CASE \E b \in Buffers, f \in Frames : New(p, b, f)
    BY <2>1 DEF New, Results
  <2>2. CASE \E q \in Places : Tee(p, q)
    BY <2>2 DEF Tee, Hands, Results
  <2>3. CASE \E q \in Places : Queue(p, q)
    BY <2>3 DEF Queue, Hands, Results
  <2>4. CASE \E s \in Status : DetectAnomalies(p, s)
    <3> PICK s \in Status, c \in FreeCells :
          heap' = [heap EXCEPT ![c] = [frame |-> frame[held[p]], status |-> s]]
      BY <2>4 DEF DetectAnomalies
    <3>1. \A b \in Buffers : \A d \in metas[b] : heap'[d] = heap[d]
      BY FreshWrite
    <3>2. \A b \in Buffers : Results(b)' = Results(b)
      BY <2>4, <3>1 DEF DetectAnomalies, Results
    <3> QED
      BY <2>4, <3>2 DEF DetectAnomalies
  <2>5. CASE AddMeta(p)
    <3>1. /\ UNCHANGED <<held, frame, teed>> /\ held[p] \in Buffers
          /\ done' = [done EXCEPT ![frame[held[p]]] = @ \cup {heap[own[p]]}]
      BY <2>5 DEF AddMeta
    <3>2. MetasTrue'
      BY <2>5, <3>1, AddResults DEF Sole
    <3>3. AllThere'
      BY <2>5, <3>1, AddResults DEF Sole
    <3> QED
      BY <3>1, <3>2, <3>3
  <2>6. CASE Delete(p)
    <3>1. UNCHANGED <<held, frame, done, teed>>
      BY <2>6 DEF Delete
    <3>2. \A b \in Buffers : Results(b)' = Results(b)
      BY <2>6, DeleteEffect
    <3> QED
      BY <3>1, <3>2
  <2>7. CASE \E b \in Buffers : Transform(p, b)
    <3> PICK b \in Buffers : Transform(p, b)
      BY <2>7
    <3>1. /\ UNCHANGED <<done, teed>> /\ held' = [held EXCEPT ![p] = b]
          /\ frame' = [frame EXCEPT ![b] = frame[held[p]]]
          /\ held[p] \in Buffers /\ \A q \in Places : held[q] # b
      BY DEF Transform
    <3>2. MetasTrue' /\ AllThere'
      BY <3>1, TransformResults DEF Sole
    <3>3. TeedTwice'
      BY <3>1
    <3> QED
      BY <3>2, <3>3
  <2>8. CASE Unref(p)
    <3>1. /\ UNCHANGED <<frame, done, teed>> /\ held' = [held EXCEPT ![p] = None]
          /\ held[p] \in Buffers
      BY <2>8 DEF Unref
    <3>2. MetasTrue' /\ AllThere'
      BY <2>8, <3>1, UnrefResults DEF Sole
    <3>3. TeedTwice'
      BY <3>1
    <3> QED
      BY <3>2, <3>3
  <2>9. CASE Read(p)
    BY <2>9 DEF Read, Results
  <2>10. CASE ReadUnregistered(p)
    BY <2>10 DEF ReadUnregistered, Results
  <2>11. CASE ReadEnds(p)
    BY <2>11 DEF ReadEnds, Results
  <2> QED
    BY <2>1, <2>2, <2>3, <2>4, <2>5, <2>6, <2>7, <2>8, <2>9, <2>10, <2>11 DEF Step
<1> QED
  BY <1>1, <1>2

LEMMA TruthInvariant == Spec => [](TypeOK /\ Owned /\ Truth)
<1>1. Init => Truth
  BY DEF Init, Truth, MetasTrue, AllThere, TeedTwice, Live, Results
<1> QED
  BY <1>1, TruthStep, OwnedInvariant, PTL DEF Spec

(* Whatever other threads do, a reader sees a result inferred for the      *)
(* frame it holds (gstinferenceconsumer.cc:110-116).                       *)
THEOREM ReadersSeeTrueResults == Spec => []ReadsAreTrue
<1>1. TypeOK /\ Owned /\ Truth => ReadsAreTrue
  BY ResultMetaAssumption DEF TypeOK, Owned, ReadsHeld, Truth, MetasTrue, ReadsAreTrue, Results
<1> QED
  BY <1>1, TruthInvariant, PTL

(* Frames that no tee has duplicated keep all their results through copies *)
(* (gstlookoutvisionmeta.cc:19-26).                                        *)
THEOREM UnteedFramesAreAnnotated == Spec => []AnnotatedUnlessTeed
<1>1. Truth => AnnotatedUnlessTeed
  BY DEF Truth, MetasTrue, AllThere, AnnotatedUnlessTeed
<1> QED
  BY <1>1, TruthInvariant, PTL

-----------------------------------------------------------------------------
(* The refinement: steps of pointers are steps of values, or none.         *)

Notes   == [b \in Buffers |-> Results(b)]
Pending == [p \in Places |-> IF pc[p] = "add" THEN heap[own[p]] ELSE None]
Reading == [p \in Places |-> IF pc[p] = "read" THEN heap[ptr[p]] ELSE None]

(* A thread between two elements has no result in hand.                    *)
LEMMA IdleMaps ==
    ASSUME NEW p \in Places, pc[p] = "idle"
    PROVE  Values!Idle(p)
  BY DEF Values!Idle

LEMMA PendingMaps ==
    ASSUME NEW p \in Places, InUseKept(p), pc'[p] # "add", ptr' = ptr,
           \A q \in Places : q # p => pc'[q] = pc[q] /\ own'[q] = own[q],
           pc'[p] = "read" <=> pc[p] = "read"
    PROVE  Pending' = [Pending EXCEPT ![p] = None] /\ Reading' = Reading
<1>1. \A q \in Places : Pending'[q] = IF q = p THEN None ELSE Pending[q]
  BY DEF Pending, InUseKept
<1>2. \A q \in Places : Reading'[q] = Reading[q]
  BY DEF Reading, InUseKept
<1> QED
  BY <1>1, <1>2 DEF Pending, Reading

LEMMA InferMaps ==
    ASSUME NEW p \in Places, NEW v \in Verdict, pc[p] = "idle", held[p] # None,
           \A q \in Places : Pending'[q] = IF q = p THEN v ELSE Pending[q],
           \A q \in Places : Reading'[q] = Reading[q],
           UNCHANGED <<held, frame, Notes>>
    PROVE  Values!Next
<1>1. Pending' = [Pending EXCEPT ![p] = v] /\ Reading' = Reading
  BY DEF Pending, Reading
<1>2. Values!Infer(p, v)
  BY <1>1, IdleMaps DEF Values!Infer, Notes, Pending, Reading
<1> QED
  BY <1>2, Zenon DEF Values!Next

LEMMA ValueStep == TypeOK /\ Owned /\ [Next]_vars => [Values!Next]_(Values!vars)
<1> SUFFICES ASSUME TypeOK, Owned, [Next]_vars
             PROVE  Values!Next \/ UNCHANGED <<held, frame, Notes, Pending, Reading>>
  BY DEF Values!vars, Notes, Pending, Reading
<1> USE ResultMetaAssumption DEF TypeOK, bufferVars, historyVars, Verdict
<1>1. CASE UNCHANGED vars
  BY <1>1 DEF vars, Notes, Results, Pending, Reading
<1>2. CASE Next
  <2> PICK p \in Places : Step(p)
    BY <1>2 DEF Next
  <2>1. CASE \E b \in Buffers, f \in Frames : New(p, b, f)
    <3> PICK b \in Buffers, f \in Frames : New(p, b, f)
      BY <2>1
    <3>1. UNCHANGED <<Notes, Pending, Reading>>
      BY DEF New, Notes, Results, Pending, Reading
    <3>2. Values!New(p, b, f)
      BY <3>1, IdleMaps DEF New, Live, Values!New, Values!Live, Notes, Pending, Reading
    <3> QED
      BY <3>2 DEF Values!Next
  <2>2. CASE \E q \in Places : Tee(p, q)
    <3> PICK q \in Places : Tee(p, q)
      BY <2>2
    <3>1. UNCHANGED <<Notes, Pending, Reading>>
      BY DEF Tee, Notes, Results, Pending, Reading
    <3>2. Values!Share(p, q)
      BY <3>1, IdleMaps DEF Tee, Hands, Values!Share, Notes, Pending, Reading
    <3> QED
      BY <3>2 DEF Values!Next
  <2>3. CASE \E q \in Places : Queue(p, q)
    <3> PICK q \in Places : Queue(p, q)
      BY <2>3
    <3>1. UNCHANGED <<Notes, Pending, Reading>>
      BY DEF Queue, Notes, Results, Pending, Reading
    <3>2. Values!Move(p, q)
      BY <3>1, IdleMaps DEF Queue, Hands, Values!Move, Notes, Pending, Reading
    <3> QED
      BY <3>2 DEF Values!Next
  <2>4. CASE \E s \in Status : DetectAnomalies(p, s)
    <3> PICK s \in Status, c \in FreeCells :
          /\ heap' = [heap EXCEPT ![c] = [frame |-> frame[held[p]], status |-> s]]
          /\ own' = [own EXCEPT ![p] = c]
          /\ DetectAnomalies(p, s)
      BY <2>4 DEF DetectAnomalies
    <3> DEFINE v == [frame |-> frame[held[p]], status |-> s]
    <3>1. /\ InUseKept(p) /\ \A b \in Buffers : \A d \in metas[b] : heap'[d] = heap[d]
          /\ v \in Verdict /\ held[p] \in Buffers /\ heap'[c] = v
      BY FreshWrite DEF DetectAnomalies, FreeCells
    <3>2. Notes' = Notes
      BY <3>1, SameResults DEF DetectAnomalies, Notes
    <3>3. /\ pc[p] = "idle" /\ pc' = [pc EXCEPT ![p] = "add"] /\ ptr' = ptr
          /\ own' = [own EXCEPT ![p] = c] /\ UNCHANGED <<held, frame>> /\ held[p] # None
      BY <3>1 DEF DetectAnomalies
    <3>4. \A q \in Places : Pending'[q] = IF q = p THEN v ELSE Pending[q]
      <4> SUFFICES ASSUME NEW q \in Places
                   PROVE  Pending'[q] = IF q = p THEN v ELSE Pending[q]
        OBVIOUS
      <4>1. CASE q = p
        BY <3>1, <3>3, <4>1 DEF Pending
      <4>2. CASE q # p
        BY <3>1, <3>3, <4>2 DEF Pending, InUseKept
      <4> QED
        BY <4>1, <4>2
    <3>5. \A q \in Places : Reading'[q] = Reading[q]
      BY <3>1, <3>3 DEF Reading, InUseKept
    <3> QED
      BY <3>1, <3>2, <3>3, <3>4, <3>5, InferMaps
  <2>5. CASE AddMeta(p)
    <3>1. /\ Pending[p] = heap[own[p]] /\ heap[own[p]] # None
          /\ UNCHANGED <<held, frame, own, ptr>> /\ held[p] \in Buffers
          /\ pc[p] = "add" /\ pc' = [pc EXCEPT ![p] = "delete"]
      BY <2>5 DEF AddMeta, Pending, Owned, OwnAllocated
    <3>2. Pending' = [Pending EXCEPT ![p] = None] /\ Reading' = Reading
      BY <2>5, <3>1, AddResults, PendingMaps
    <3>3. Notes' = IF Sole(p) THEN [Notes EXCEPT ![held[p]] = @ \cup {Pending[p]}] ELSE Notes
      BY <2>5, <3>1, AddResults DEF Notes
    <3>4. Values!Attach(p)
      BY <3>1, <3>2, <3>3 DEF Values!Attach, Values!Sole, Sole, Notes, Pending, Reading
    <3> QED
      BY <3>4 DEF Values!Next
  <2>6. CASE Delete(p)
    <3>1. /\ UNCHANGED <<held, frame, ptr>> /\ Pending[p] = None
          /\ pc[p] = "delete" /\ pc' = [pc EXCEPT ![p] = "idle"]
          /\ \A q \in Places : q # p => own'[q] = own[q]
      BY <2>6 DEF Delete, Pending
    <3>2. Pending' = Pending /\ Reading' = Reading
      BY <2>6, <3>1, DeleteEffect, PendingMaps DEF Pending
    <3>3. Notes' = Notes
      BY <2>6, DeleteEffect DEF Notes
    <3> QED
      BY <3>1, <3>2, <3>3
  <2>7. CASE \E b \in Buffers : Transform(p, b)
    <3> PICK b \in Buffers : Transform(p, b)
      BY <2>7
    <3>1. /\ held' = [held EXCEPT ![p] = b] /\ held[p] \in Buffers /\ held[p] # b
          /\ frame' = [frame EXCEPT ![b] = frame[held[p]]]
          /\ UNCHANGED <<pc, own, ptr>> /\ pc[p] = "idle" /\ ~Live(b)
      BY DEF Transform, Live
    <3>2. Pending' = Pending /\ Reading' = Reading
      BY <3>1, TransformResults, PendingMaps DEF Pending
    <3>3. Notes' = [(IF Sole(p) THEN [Notes EXCEPT ![held[p]] = {}] ELSE Notes)
                     EXCEPT ![b] = Notes[held[p]]]
      <4>1. /\ Results(b)' = Results(held[p])
            /\ \A a \in Buffers \ {b} :
                 Results(a)' = IF a = held[p] /\ Sole(p) THEN {} ELSE Results(a)
        BY TransformResults
      <4>2. \A a \in Buffers : Notes'[a] = IF a = b THEN Notes[held[p]]
              ELSE IF a = held[p] /\ Sole(p) THEN {} ELSE Notes[a]
        BY <3>1, <4>1 DEF Notes
      <4> QED
        BY <3>1, <4>2 DEF Notes
    <3>4. Values!Copy(p, b)
      BY <3>1, <3>2, <3>3, IdleMaps
         DEF Values!Copy, Values!Drop, Values!Sole, Values!Live, Sole, Live, Notes, Pending, Reading
    <3> QED
      BY <3>4 DEF Values!Next
  <2>8. CASE Unref(p)
    <3>1. /\ held' = [held EXCEPT ![p] = None] /\ held[p] \in Buffers
          /\ UNCHANGED <<frame, pc, own, ptr>> /\ pc[p] = "idle"
      BY <2>8 DEF Unref
    <3>2. Pending' = Pending /\ Reading' = Reading
      BY <2>8, <3>1, UnrefResults, PendingMaps DEF Pending
    <3>3. Notes' = IF Sole(p) THEN [Notes EXCEPT ![held[p]] = {}] ELSE Notes
      BY <2>8, <3>1, UnrefResults DEF Notes
    <3>4. Values!Unref(p)
      BY <3>1, <3>2, <3>3, IdleMaps
         DEF Values!Unref, Values!Drop, Values!Sole, Sole, Notes, Pending, Reading
    <3> QED
      BY <3>4 DEF Values!Next
  <2>9. CASE Read(p)
    <3>1. PICK c \in metas[held[p]] : ptr' = [ptr EXCEPT ![p] = c]
      BY <2>9 DEF Read
    <3>2. /\ UNCHANGED <<held, frame, metas, heap, own>> /\ held[p] \in Buffers
          /\ pc[p] = "idle" /\ pc' = [pc EXCEPT ![p] = "read"]
      BY <2>9 DEF Read
    <3>3. Notes' = Notes /\ Pending' = Pending
      BY <3>2 DEF Notes, Results, Pending
    <3>4. heap[c] \in Notes[held[p]] /\ Reading' = [Reading EXCEPT ![p] = heap[c]]
      BY <3>1, <3>2 DEF Notes, Results, Reading
    <3>5. Values!Read(p)
      BY <3>2, <3>3, <3>4, IdleMaps DEF Values!Read, Notes, Pending, Reading
    <3> QED
      BY <3>5 DEF Values!Next
  <2>10. CASE ReadUnregistered(p)
    BY <2>10 DEF ReadUnregistered, Notes, Results, Pending, Reading
  <2>11. CASE ReadEnds(p)
    <3>1. /\ UNCHANGED <<held, frame, metas, heap, own>> /\ pc[p] = "read"
          /\ pc' = [pc EXCEPT ![p] = "idle"] /\ ptr' = [ptr EXCEPT ![p] = None]
      BY <2>11 DEF ReadEnds
    <3>2. UNCHANGED <<Notes, Pending>> /\ Reading' = [Reading EXCEPT ![p] = None]
      <4>1. Notes' = Notes
        BY <3>1 DEF Notes, Results
      <4>2. \A q \in Places : Pending'[q] = Pending[q]
        BY <3>1 DEF Pending
      <4>3. \A q \in Places : Reading'[q] = IF q = p THEN None ELSE Reading[q]
        BY <3>1 DEF Reading
      <4> QED
        BY <4>1, <4>2, <4>3 DEF Pending, Reading
    <3>3. Reading[p] # None
      <4>1. ptr[p] \in metas[held[p]] /\ held[p] \in Buffers
        BY <3>1 DEF Owned, ReadsHeld
      <4> QED
        BY <3>1, <4>1 DEF Reading, Owned, MetasAllocated
    <3>4. Values!ReadEnds(p)
      BY <3>1, <3>2, <3>3 DEF Values!ReadEnds, Notes, Pending, Reading
    <3> QED
      BY <3>4 DEF Values!Next
  <2> QED
    BY <2>1, <2>2, <2>3, <2>4, <2>5, <2>6, <2>7, <2>8, <2>9, <2>10, <2>11 DEF Step
<1> QED
  BY <1>1, <1>2

(* To the elements of any pipeline, results are values that travel with    *)
(* their buffers (gstlookoutvisionmeta.h, gstlookoutvisionmeta.cc:7-26).   *)
THEOREM ImplementsValues == Spec => ActsByValue
<1>1. Init => Values!Init
  BY DEF Init, Values!Init, Results
<1> QED
  BY <1>1, ValueStep, OwnedInvariant, PTL DEF Spec, ActsByValue, Values!Spec
=============================================================================
