SPECIFICATION Spec
CONSTANTS
    Folded <- MCFolded
    Contained <- MCContained
    Selects <- MCSelects
    Rank <- MCRank
    Commands <- MCCommands
    Stdins <- MCStdins
    Files <- MCFiles
    EnvFiles <- MCEnvFiles
    Rooms <- MCRooms
INVARIANTS WriteErrorsExitTwo
