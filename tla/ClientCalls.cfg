CONSTANTS
    Conns = {c1, c2}
    Ids = {i1, i2}
    NoId = 0
    Eps = {o1, o2}
    NoEp = NoEp
    NoConn = NoConn
    SvcTypes = {0}
    AllTypes = 0
    OneIdPerConnection = FALSE
    MayTakeOver = FALSE
    Clients = {k1, k2}
    k2 = k2
    i1 = i1
    OptionRoles <- RolesOfCalls
    ClientRoles <- NoRoles
    NamedIds <- NoNames
    Kickouts <- NoKickouts
    CodeRoles = {"Normal", "Service"}
    MaxUnanswered = 2
    MsgTypes = {0}
    NoType = 0
    FwdIds = {0, i1, i2}
    SrcIds = {i1, i2}
    AskedRoles = {"Normal","Service"}
    Commands = {"SVC", "SVC_RSP"}
    Sessions = {s1}
    NoClient = NoClient
    FilterCommands <- NoCommands
SPECIFICATION FairTrafficSpec
INVARIANTS
    TrafficTypeOK
    OneMessagePerCall
    AnswersReachCaller
PROPERTIES
    CallsEnd
    ClientsRoute
