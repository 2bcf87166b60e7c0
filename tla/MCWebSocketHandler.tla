------------------------- MODULE MCWebSocketHandler -------------------------
(***************************************************************************)
(* Instances of WebSocketHandler for TLC: one user with one notification   *)
(* and up to two connections, or two users with a notification each.       *)
(***************************************************************************)
EXTENDS ServerInvariants, TLC

CONSTANTS u1, u2, c1, c2, n1, n2, k1

MCUsers  == {u1}
MCUsers2 == {u1, u2}
MCConn   == {c1}
MCConns  == {c1, c2}
MCOwner  == [c \in Conns |-> u1]
MCCreators == {k1}
MCProcs == {<<"serve", c>> : c \in Conns} \union {<<"ping", c>> : c \in Conns} \union Creators
MCNote  == {n1}
MCNotes == {n1, n2}
MCDoc   == [n \in Notes |->
              [userId |-> IF n = n2 THEN u2 ELSE u1, appId |-> "app", groupKey |-> "group"]]
MCSymmetry == Permutations(Conns)
=============================================================================
