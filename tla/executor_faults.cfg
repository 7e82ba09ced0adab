CONSTANTS
    N = 3
    Compensable = {1, 2, 3}
    Patching <- MCPatching
    Timed = {1}
    Attempts <- MCAttempts
    CompAttempts <- MCOneAttempt
    Caller = caller
    Workers = {w1}
    HasOutbox = FALSE
    Rejecting <- MCAwaits
    Exclusive = TRUE
    MaxCrashes = 1
    MaxRejects = 2
    MaxClaims = 2
    MaxResumes = 1
SPECIFICATION Spec
INVARIANTS
    TypeOK
    NoStepAheadOfAnother
    CompensatedResidue
    LaterStepsUndoneFirst
    CompletedStepsInContext
    AnswerStands
    NoEffectWithoutRecord
PROPERTIES
    SettledStepsStaySettled
    TerminalStable
    RowsInOrder
CHECK_DEADLOCK FALSE
