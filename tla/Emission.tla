-------------------------------- MODULE Emission --------------------------------
(***************************************************************************)
(* What NATSEmitter.Emit promises its callers, the handler and the         *)
(* unregistration sender: every message is published once, in any order,   *)
(* before the call returns, and the call fails exactly when a publication  *)
(* failed.                                                                 *)
(***************************************************************************)
CONSTANTS Callers, Messages

VARIABLES
    active,  \* callers inside Emit
    todo,    \* messages of a caller still to be published
    failed,  \* a publication of the caller's emission failed
    result   \* what the caller's last Emit returned

vars == <<active, todo, failed, result>>

Init ==
    /\ active = {}
    /\ todo = [c \in Callers |-> {}]
    /\ failed = [c \in Callers |-> FALSE]
    /\ result = [c \in Callers |-> "none"]

Call(c, messages) ==
    /\ c \notin active
    /\ active' = active \cup {c}
    /\ todo' = [todo EXCEPT ![c] = messages]
    /\ failed' = [failed EXCEPT ![c] = FALSE]
    /\ result' = [result EXCEPT ![c] = "none"]

Publish(c, m, error) ==
    /\ m \in todo[c]
    /\ todo' = [todo EXCEPT ![c] = @ \ {m}]
    /\ failed' = [failed EXCEPT ![c] = @ \/ error]
    /\ UNCHANGED <<active, result>>

Return(c) ==
    /\ c \in active
    /\ todo[c] = {}
    /\ active' = active \ {c}
    /\ result' = [result EXCEPT ![c] = IF failed[c] THEN "error" ELSE "ok"]
    /\ UNCHANGED <<todo, failed>>

Next ==
    \E c \in Callers :
        \/ \E messages \in SUBSET Messages : Call(c, messages)
        \/ \E m \in Messages, error \in BOOLEAN : Publish(c, m, error)
        \/ Return(c)

Spec == Init /\ [][Next]_vars
================================================================================
