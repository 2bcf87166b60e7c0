------------------------------ MODULE Parties ------------------------------
(***************************************************************************)
(* The names every module shares: the users, the websocket connections     *)
(* with the user that each connection's token names (its userId), and what *)
(* may go wrong:                                                           *)
(*   redis, mongo    a request returns an error                            *)
(*   race            a data race in the store has its worst outcome        *)
(*   replica         another replica of the server uses the databases      *)
(*   break, stall    a connection breaks; its peer stops reading           *)
(*   redial          a client whose connection is closed dials again       *)
(*   crash           the process dies and is started again                 *)
(***************************************************************************)
CONSTANTS
    Users,
    NoUser,     \* no user
    Conns,
    NoConn,     \* no connection
    Owner,
    Faults

ASSUME NoUserAssumption == NoUser \notin Users
ASSUME NoConnAssumption == NoConn \notin Conns
ASSUME OwnerAssumption == Owner \in [Conns -> Users]
ASSUME FaultsAssumption ==
    Faults \subseteq {"redis", "mongo", "race", "replica", "break", "stall", "redial", "crash"}

Flags == {"on", "off"}     \* EnableNotification

MongoFails == "mongo" \in Faults
=============================================================================
