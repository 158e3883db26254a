SPECIFICATION MutatorSpec
CONSTANTS
    Folded <- MCFolded
    Contained <- MCContained
    Selects <- MCSelects
    Positions <- MCPositions
    Groups <- MCGroups
    Commands <- MCCommands
    Streams <- MCStreams
    MaxDepth = 9
INVARIANTS MutatorTypeOK SharedNodesArePatch SecondPassChangesNothing
PROPERTIES ImplementsMutation

