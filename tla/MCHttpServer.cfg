SPECIFICATION FairServeSpec
CONSTANTS
    MaxSignals = 0
    Conns = {c1, c2}
INVARIANTS ServeTypeOK ServerGone ServeFailureReported
PROPERTIES NoLateAccept NoRequestCut ShutdownEnds ServeFailureCancels
