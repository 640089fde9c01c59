\* The process stops at a segmentation fault.
CHECK_DEADLOCK FALSE
SPECIFICATION Spec
CONSTANTS
    Places = {p1, p2}
    Buffers = {b1, b2, b3}
    Frames = {f1, f2}
    Cells = {c1, c2, c3, c4}
    Status = {SUCCESSFUL, FAILED}
    None = None
    Free = Free
SYMMETRY Symmetry
INVARIANTS
    TypeOK
    SoleOwner
    ReadsAreTrue
    AnnotatedUnlessTeed
PROPERTIES
    ActsByValue
