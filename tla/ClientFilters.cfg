CONSTANTS
    Conns = {c1, c2}
    Ids = {i1}
    NoId = 0
    Eps = {o1}
    NoEp = NoEp
    NoConn = NoConn
    SvcTypes = {0}
    AllTypes = 0
    OneIdPerConnection = FALSE
    MayTakeOver = FALSE
    Clients = {k1}
    k2 = k2
    i1 = i1
    OptionRoles <- RolesOfFilters
    ClientRoles <- NoRoles
    NamedIds <- NoNames
    Kickouts <- NoKickouts
    CodeRoles = {"Normal"}
    MaxUnanswered = 2
    MsgTypes = {0, 1}
    NoType = 0
    FwdIds = {0, i1}
    SrcIds = {i1}
    AskedRoles = {"Normal"}
    Commands = {"FWD", "UNFWD", "SUB", "UNSUB", "REJECT", "UNREJECT", "SVC", "SVC_RSP"}
    Sessions = {}
    NoClient = NoClient
    FilterCommands <- EveryCommand
SPECIFICATION TrafficSpec
INVARIANTS
    FiltersShown
SYMMETRY ConnSymmetry
