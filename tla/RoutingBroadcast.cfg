CONSTANTS
    Conns = {c1, c2}
    Ids = {i1, i2}
    NoId = 0
    Eps = {o1, o2}
    NoEp = NoEp
    NoConn = NoConn
    SvcTypes = {0}
    AllTypes = 0
    OneIdPerConnection = TRUE
    MayTakeOver = FALSE
    MsgTypes = {0}
    NoType = 0
    FwdIds = {0, i1, i2}
    SrcIds = {i1, i2}
    AskedRoles = {"Normal", "Admin"}
    Commands = {"FWD", "UNFWD", "REJECT", "UNREJECT", "PUBLISH", "SVC_RSP", "KICKOUT"}
SPECIFICATION RoutingSpec
INVARIANTS
    RoutingTypeOK
    BroadcastExact
SYMMETRY Symmetry
