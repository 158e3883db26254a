SPECIFICATION FairExecSpec
CONSTANTS
    MaxSignals = 1
    Unix = FALSE
    ExitCodes = {0, 3}
    DeathSignals = {}
    MaxDescendants = 2
    Killable = TRUE
    PidReuse = FALSE
INVARIANTS StatusReported KillIsReported
PROPERTIES ExecReturns
