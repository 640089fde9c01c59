SPECIFICATION Spec
CONSTANTS
    None = None
    Junk = Junk
    Error = Error
    Clients = {c1, c2}
    tiny = tiny
    small = small
    large = large
    huge = huge
    Frames = {tiny, small}
    Size <- MCSize
    DefaultSize = 2
    Objects = {o1, o2}
    MaxMade = 2
SYMMETRY Symmetry
INVARIANTS
    ResultIsForThisFrame
