SPECIFICATION StoreSpec
CONSTANTS
    KnownTypes <- MCKnownTypes
    Spelled <- MCSpelled
    Rank <- MCRank
    Labels <- MCLabels
    Matches <- MCMatches
    Resources <- MCResources
    Namespaces <- MCNamespaces
    Names <- MCNames
    Selectors <- MCSelectors
    Streams <- MCStreams
INVARIANTS ClusterListIgnoresNamespace
