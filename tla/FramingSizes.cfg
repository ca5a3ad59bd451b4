CONSTANTS
    Clients = {k1, k2, k3}
    Registered = {k1, k2}
    DataSizes = {0, 65521, 65522, 65533}
    TargetCounts = {0, 1}
    MaxInFlight = 2
SPECIFICATION FramingSpec
INVARIANTS
    FramingTypeOK
    LostOnlyOverlong
    RequestPayloadRight
    ResultRead
SYMMETRY Symmetry
