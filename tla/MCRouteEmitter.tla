----------------------------- MODULE MCRouteEmitter -----------------------------
(* Small instances of RouteEmitter. *)
EXTENDS RouteEmitter

CONSTANTS p1, g1

OneKey == {[table |-> "http", process |-> p1, port |-> 8080]}

MCProcessOf == [g \in Guids |-> p1]
MCIndexOf == [g \in Guids |-> 0]
MCEpochs == 0..MaxChanges
MCTagIndexes == 0..MaxChanges
================================================================================
