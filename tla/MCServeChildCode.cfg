SPECIFICATION Spec
CONSTANTS
    MaxSignals = 2
    Unix = TRUE
    ExitCodes = {0, 3}
    DeathSignals = {2}
    MaxDescendants = 1
    Killable = TRUE
    PidReuse = FALSE
    Conns = {c1}
INVARIANTS ChildCodeIsExitCode
