\* Two segments of two cells and one, with a program of four steps.
CONSTANTS
    Cells <- TwoSegments
    Values = {0, 1}
    Zero = 0
    InitialValue <- Filled
    SCAN_BATCH_SIZE = 1
    MaxSteps = 4
    None = None
SPECIFICATION Spec
CHECK_DEADLOCK FALSE
INVARIANTS ProofCompletes
PROPERTY ImplementsRam
