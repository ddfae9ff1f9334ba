-------------------------------- MODULE Registry --------------------------------
(***************************************************************************)
(* What the routing table and its messages promise the routers.  The       *)
(* routers hold no pair of route and instance that is not wanted, a pair   *)
(* that becomes wanted is registered by the same step, and a registration  *)
(* is withdrawn only when its pair is no longer wanted.  A router may lose *)
(* a registration on its own, which marks its key as pruned; the mark goes *)
(* when every pair under the key is registered again.                      *)
(***************************************************************************)
VARIABLES wanted, registered, pruned

Init == wanted = {} /\ registered = {} /\ pruned = {}

Change ==
    LET new == wanted'
    IN  /\ pruned' \subseteq pruned
        /\ registered' \subseteq new
        /\ new \ wanted \subseteq registered'
        /\ registered \cap new \subseteq registered'
        /\ \A k \in pruned \ pruned' :
                \A m \in new : m.key = k => m \in registered'

Lose ==
    /\ \E m \in registered : /\ registered' = registered \ {m}
                             /\ pruned' = pruned \cup {m.key}
    /\ UNCHANGED wanted

Next == Change \/ Lose

Spec == Init /\ [][Next]_<<wanted, registered, pruned>>
================================================================================
