\* StopServer may wait for ever when it comes too early.
CHECK_DEADLOCK FALSE
SPECIFICATION FairSpec
CONSTANTS
    SharedMemory = TRUE
INVARIANTS
    TypeOK
    AssertionsHold
    DiesOnlyOfRaces
    NothingLeft
PROPERTIES
    ProgramsEnd
