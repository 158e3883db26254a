SPECIFICATION FairExecSpec
CONSTANTS
    MaxSignals = 1
    Unix = TRUE
    ExitCodes = {0, 3}
    DeathSignals = {2}
    MaxDescendants = 2
    Killable = TRUE
    PidReuse = TRUE
INVARIANTS ExecTypeOK GroupGoneAtRestore TerminalReturned StatusReported KillIsReported
PROPERTIES TerminalHandover NoSecondKill ExecReturns
