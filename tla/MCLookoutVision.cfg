SPECIFICATION Spec
CONSTANTS
    Models = {m1, m2}
    Servers = {s1, s2}
    DefaultServer = s1
    Timeouts = {0, 180}
    DefaultTimeout = 180
    Dims = {d1, d2}
    NoDims = NoDims
    Zero = Zero
    NULL = NULL
    Freed = Freed
SYMMETRY Symmetry
INVARIANTS
    TypeOK
    NoUseAfterFree
    UnstartedIsReported
    OnlyStartedModels
    DimsFresh
