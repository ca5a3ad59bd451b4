CONSTANTS
    Conns = {c1, c2}
    Ids = {i1, i2}
    NoId = 0
    Eps = {o1, o2, o3}
    NoEp = NoEp
    NoConn = NoConn
    SvcTypes = {0}
    AllTypes = 0
    OneIdPerConnection = FALSE
    MayTakeOver = TRUE
    MsgTypes = {0, 1}
    NoType = 0
    FwdIds = {}
    SrcIds = {}
    AskedRoles = {"Normal"}
    Commands = {"SUB", "UNSUB", "PUBLISH_2"}
SPECIFICATION RoutingSpec
INVARIANTS
    SubscribersComplete
    SubscriptionReaches
    WhiteListRespected
SYMMETRY Symmetry
