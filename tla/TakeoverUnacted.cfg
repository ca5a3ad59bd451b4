CONSTANTS
    Conns = {c1, c2}
    Ids = {i1, i2}
    NoId = 0
    Eps = {o1, o2}
    NoEp = NoEp
    NoConn = NoConn
    SvcTypes = {0, 1}
    AllTypes = 0
    OneIdPerConnection = TRUE
    MayTakeOver = TRUE
SPECIFICATION Spec
INVARIANT
    ToldIsActing
