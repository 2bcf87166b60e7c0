SPECIFICATION Spec
CONSTANTS
    u1 = u1
    c1 = c1  c2 = c2
    p1 = p1  p2 = p2  p3 = p3
    NoProc = NoProc  NoConn = NoConn  NoUser = NoUser
    Procs <- MCProcs
    Users <- MCUsers
    Conns <- MCConns
    Owner <- MCOwner
    Faults = {"redis", "replica"}
SYMMETRY MCSymmetry
INVARIANTS
    IInv
    LiveStayRegistered
    SendReachesAll
PROPERTY RefinesRegistry
