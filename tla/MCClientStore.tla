--------------------------- MODULE MCClientStore ---------------------------
(***************************************************************************)
(* Instances of ClientStore for TLC: one user (users share nothing but the *)
(* mutex) with two connections, and three goroutines, so that a goroutine  *)
(* that registers, one that removes and one that sends can overlap.        *)
(***************************************************************************)
EXTENDS ClientStore, TLC

CONSTANTS u1, c1, c2, p1, p2, p3

MCUsers == {u1}
MCConns == {c1, c2}
MCOwner == [c \in MCConns |-> u1]
MCProcs == {p1, p2, p3}
MCSymmetry == Permutations(MCConns) \union Permutations(MCProcs)
=============================================================================
