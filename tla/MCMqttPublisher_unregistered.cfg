SPECIFICATION Spec
CONSTANTS
    Topics = {t1, t2}
    DefaultTopic = t1
    Verdicts = {normal, anomalous}
    MaxFrames = 2
    NULL = NULL
    Freed = Freed
CHECK_DEADLOCK FALSE
SYMMETRY Symmetry
PROPERTIES
    NoMetadataNoHarm
