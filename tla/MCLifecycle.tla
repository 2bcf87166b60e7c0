---------------------------- MODULE MCLifecycle ----------------------------
(***************************************************************************)
(* An instance of Lifecycle for TLC: a partition with three events, so     *)
(* that one may be delivered again between two others, and one REST        *)
(* request.  (Partitions share nothing but the end of the process.)        *)
(***************************************************************************)
EXTENDS Lifecycle, TLC

CONSTANTS p1, e1, e2, e3

MCPartitionOf == (e1 :> p1 @@ e2 :> p1 @@ e3 :> p1)
=============================================================================
