CONSTANTS
    Conns = {c1, c2}
    Ids = {i1, i2}
    NoId = 0
    Eps = {o1, o2}
    NoEp = NoEp
    NoConn = NoConn
    SvcTypes = {0}
    AllTypes = 0
    OneIdPerConnection = FALSE
    MayTakeOver = FALSE
    Clients = {k1, k2}
    k1 = k1
    OptionRoles <- MCOptionRoles
    ClientRoles <- MCClientRoles
    NamedIds <- AnyNames
    i1 = i1
    Kickouts <- MCKickouts
    CodeRoles = {"Normal"}
    MaxUnanswered = 1
SPECIFICATION HistorySpec
INVARIANTS
    RoleIndexExact
    ShownIsRegistered
PROPERTIES
    CloseRemovesOwn
SYMMETRY ConnSymmetry
