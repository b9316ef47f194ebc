SPECIFICATION Spec
CONSTANTS
    Jobs = {j1, j2}
    Callers = {c1}
    MaxWatches = 2
    MaxJobs = 1
    MaxBoxes = 2
    MaxRestarts = 1
    MaxErrors = 1
    None = None
SYMMETRY Symmetry
INVARIANTS
    AnswerIsFinal
    
    
    Adopted
CHECK_DEADLOCK FALSE
