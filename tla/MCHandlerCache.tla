---------------------------- MODULE MCHandlerCache ----------------------------
(* Small instances of HandlerCache. *)
EXTENDS HandlerCache, TLC

CONSTANTS p1, g1, n1

OneKey == {[table |-> "http", process |-> p1, port |-> 8080]}
MCProcessOf == [g \in Guids |-> p1]
MCIndexOf == [g \in Guids |-> 0]
MCNetOf == [g \in Guids |-> n1]

(* Two routes that differ in nothing the routers tell apart. *)
MCUriOf == [r \in Routes |-> "u1"]

(* Routes occur in no other way, so they may be permuted. *)
RouteSymmetry == Permutations(Routes)
================================================================================
