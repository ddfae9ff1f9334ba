----------------------------- MODULE MCRoutingTable -----------------------------
(* Small instances of RoutingTable. *)
EXTENDS RoutingTable, TLC

CONSTANTS p1, g1

OneKey == {[table |-> "http", process |-> p1, port |-> 8080]}

(* The instance has index 1: one desired instance leaves it undesired. *)
MCProcessOf == [g \in Guids |-> p1]
MCIndexOf == [g \in Guids |-> 1]

(* Addresses are only compared with each other, so they may be permuted. *)
NetInfoSymmetry == Permutations(NetInfos)
================================================================================
