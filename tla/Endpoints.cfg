SPECIFICATION FairSpec
CONSTANTS
    n1 = n1
    n2 = n2
    n3 = n3
    Node <- AllNodes
    Discovered <- DiscoveredNodes
    Handle = {1, 2}
    Target <- PinnedBy
    Call = {1, 2}
    MaxVanish = 1
    MaxMoves = 1
    MaxLag = 1
INVARIANTS CallsKept NeverUnroutable PinRoutable SingleFlight
PROPERTIES CloseDrains
CHECK_DEADLOCK FALSE
