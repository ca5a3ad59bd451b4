CONSTANTS
    Conns = {c1, c2, c3}
    Ids = {i1, i2, i3}
    NoId = 0
    Eps = {o1, o2, o3}
    NoEp = NoEp
    NoConn = NoConn
    SvcTypes = {0, 1}
    AllTypes = 0
    OneIdPerConnection = TRUE
    MayTakeOver = FALSE
    MsgTypes = {0, 1}
    NoType = 0
    FwdIds = {}
    SrcIds = {}
    AskedRoles = {"Normal", "Service"}
    Commands = {"REJECT", "SVC"}
SPECIFICATION RoutingSpec
INVARIANTS
    TypedServerFound
    RecipientsAlive
    CountsAddUp
SYMMETRY Symmetry
