CONSTANTS
    Conns = {c1, c2, c3}
    Ids = {i1}
    NoId = 0
    Eps = {o1}
    NoEp = NoEp
    NoConn = NoConn
    SvcTypes = {0}
    AllTypes = 0
    OneIdPerConnection = FALSE
    MayTakeOver = TRUE
    x = x
    y = y
    Codes = {x, y}
    Empty = Empty
    Absent = Absent
    DefaultCode <- MCDefaultCode
    ModeTags <- MCModeTags
SPECIFICATION SetupSpec
INVARIANTS
    SetupTypeOK
    RoleEarned
PROPERTIES
    SetupOutcome
SYMMETRY Symmetry
