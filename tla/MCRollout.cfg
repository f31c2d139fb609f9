SPECIFICATION Spec
CONSTANTS
    Images = {V1, V2}
    Memories = {4, 8}
    MaxStamp = 1
    MaxRevision = 3
SYMMETRY MCSymmetry
INVARIANTS
    TypeOK
    RollbackRestores
PROPERTIES
    UndoReadsAnother
    SecondUndoRedeploys
CHECK_DEADLOCK FALSE
