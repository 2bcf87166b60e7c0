SPECIFICATION HandlerSpec
CONSTANTS
    u1 = u1  u2 = u2  c1 = c1  c2 = c2  n1 = n1  n2 = n2  k1 = k1
    NoProc = NoProc  NoConn = NoConn  NoUser = NoUser
    Users <- MCUsers
    Conns <- MCConn
    Owner <- MCOwner
    Creators <- MCCreators
    Procs <- MCProcs
    Notes <- MCNote
    Doc <- MCDoc
    Events = {"markAsRead"}
    MaxEvents = 1
    Faults = {}
INVARIANT ViewsCurrent
