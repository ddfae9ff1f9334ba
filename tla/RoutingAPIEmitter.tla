--------------------------- MODULE RoutingAPIEmitter ---------------------------
(***************************************************************************)
(* routingAPIEmitter.Emit (emitter/routing_api_emitter.go), the handler    *)
(* that calls it for TCP routes, and the routing API that keeps a mapping  *)
(* until its time to live runs out.                                        *)
(*                                                                         *)
(* The routing API and the UAA token fetcher are external.  A request that *)
(* fails may still have been applied to some of its mappings.              *)
(*                                                                         *)
(* Time is counted in ticks and passes at any point: a call may take any   *)
(* number of them, and so may the wait for the next periodic emission,     *)
(* since the watcher's select takes any case that is ready and any number  *)
(* of events, with their own emissions, may come before one that is due.   *)
(***************************************************************************)
EXTENDS Naturals, FiniteSets

CONSTANTS
    Mappings,   \* TCP route mappings
    TTL         \* TCPRouteTTL, where the clocks stop as well

ASSUME TTLAssumption == TTL \in Nat

VARIABLES
    wanted,     \* the mappings of the routing table
    api,        \* ticks a mapping has left in the routing API, 0 when absent
    token,      \* the token fetcher's cached token
    pc,         \* "idle", or the call of emit that comes next
    count,      \* emit's loop counter
    regs,       \* arguments of the emission
    unregs,
    periodic,   \* it is EmitExternal's
    result,     \* what the last Emit returned
    faults,     \* history: faults that can hurt the current emission, 2 for more
    settled,    \* history: wanted mappings a successful upsert has covered
    elapsed,    \* history: ticks of the current emission
    unrenewed,  \* history: ticks since a periodic emission last succeeded
    unwanted    \* history: ticks since a mapping was last wanted

vars == <<wanted, api, token, pc, count, regs, unregs, periodic, result,
          faults, settled, elapsed, unrenewed, unwanted>>

call == <<regs, unregs, periodic>>
clocks == <<elapsed, unrenewed, unwanted>>

Tokens == {"none", "valid", "revoked"}

OneMore(n, limit) == IF n = limit THEN limit ELSE n + 1

TypeOK ==
    /\ wanted \subseteq Mappings /\ settled \subseteq wanted
    /\ api \in [Mappings -> 0..TTL]
    /\ token \in Tokens
    /\ pc \in {"idle", "fetch", "upsert", "delete"}
    /\ count \in 0..1
    /\ regs \subseteq Mappings /\ unregs \subseteq Mappings /\ periodic \in BOOLEAN
    /\ result \in {"none", "ok", "error"}
    /\ faults \in 0..2
    /\ elapsed \in 0..TTL /\ unrenewed \in 0..TTL
    /\ unwanted \in [Mappings -> 0..TTL]

Init ==
    /\ wanted = {} /\ settled = {}
    /\ api = [m \in Mappings |-> 0]
    /\ token = "none"
    /\ pc = "idle" /\ count = 0
    /\ regs = {} /\ unregs = {} /\ periodic = FALSE
    /\ result = "none"
    /\ faults = 0
    /\ elapsed = 0 /\ unrenewed = 0
    /\ unwanted = [m \in Mappings |-> TTL]

--------------------------------------------------------------------------------
(* The handler. *)

(* Emit with nothing to send returns at once. *)
Emit(registrations, unregistrations, isPeriodic) ==
    /\ pc = "idle"
    /\ regs' = registrations
    /\ unregs' = unregistrations
    /\ periodic' = isPeriodic
    /\ pc' = IF registrations = {} /\ unregistrations = {} THEN "idle" ELSE "fetch"
    /\ result' = IF registrations = {} /\ unregistrations = {} THEN "ok" ELSE "none"
    /\ count' = 0
    /\ elapsed' = 0
    /\ faults' = IF token = "revoked" THEN 1 ELSE 0

(* An event of the table: mappings that appear and mappings that vanish. *)
EmitChange(new, gone) ==
    /\ new \subseteq Mappings \ wanted
    /\ gone \subseteq wanted
    /\ new # {} \/ gone # {}
    /\ Emit(new, gone, FALSE)
    /\ wanted' = (wanted \cup new) \ gone
    /\ settled' = settled \ gone
    /\ unwanted' = [m \in Mappings |-> IF m \in new \cup gone THEN 0 ELSE unwanted[m]]
    /\ UNCHANGED <<api, token, unrenewed>>

EmitExternal ==
    /\ Emit(wanted, {}, TRUE)
    /\ unrenewed' = IF wanted = {} THEN 0 ELSE unrenewed
    /\ UNCHANGED <<wanted, api, token, settled, unwanted>>

--------------------------------------------------------------------------------
(* emit: two attempts, the second with a new token. *)

Return(outcome) ==
    /\ pc' = "idle"
    /\ result' = outcome
    /\ UNCHANGED count

(* Mutant of Retry: the second attempt goes on where the first one failed. *)
RetryNext ==
    IF count = 0 /\ pc = "upsert"
    THEN pc' = "delete" /\ count' = 1 /\ UNCHANGED result
    ELSE Return("error")

(* A request failed. *)
Retry ==
    IF count = 0
    THEN pc' = "fetch" /\ count' = 1 /\ UNCHANGED result
    ELSE Return("error")

(* Mutant of NeedsFetch: forceUpdate is never set. *)
NeedsFetchOnce == token = "none"

NeedsFetch == count > 0 \/ token = "none"

FetchToken ==
    /\ pc = "fetch"
    /\ pc' = IF regs # {} THEN "upsert" ELSE "delete"
    /\ token' = IF NeedsFetch THEN "valid" ELSE token
    /\ UNCHANGED <<wanted, api, count, call, result, clocks, faults, settled>>

FetchTokenFails ==
    /\ pc = "fetch"
    /\ NeedsFetch
    /\ Return("error")
    /\ faults' = 2
    /\ UNCHANGED <<wanted, api, token, call, clocks, settled>>

(* Mutants of Renewed: the mapping is sent without the emitter's ttl; a    *)
(* mapping the routing API has is not sent again.                          *)
RenewedIfAbsent(mappings) ==
    [m \in Mappings |-> IF m \in mappings /\ api[m] = 0 THEN TTL ELSE api[m]]

RenewedLonger(mappings) ==
    [m \in Mappings |-> IF m \in mappings THEN TTL + 1 ELSE api[m]]

Renewed(mappings) == [m \in Mappings |-> IF m \in mappings THEN TTL ELSE api[m]]

Removed(mappings) == [m \in Mappings |-> IF m \in mappings THEN 0 ELSE api[m]]

Upsert ==
    /\ pc = "upsert"
    /\ token = "valid"
    /\ api' = Renewed(regs)
    /\ settled' = settled \cup (regs \cap wanted)
    /\ IF unregs # {}
       THEN pc' = "delete" /\ UNCHANGED <<count, result>>
       ELSE Return("ok")
    /\ unrenewed' = IF periodic THEN 0 ELSE unrenewed
    /\ UNCHANGED <<wanted, token, call, faults, elapsed, unwanted>>

Delete ==
    /\ pc = "delete"
    /\ token = "valid"
    /\ api' = Removed(unregs)
    /\ Return("ok")
    /\ UNCHANGED <<wanted, token, call, clocks, faults, settled>>

(* The request is refused because of the token, ... *)
Unauthorized ==
    /\ pc \in {"upsert", "delete"}
    /\ token = "revoked"
    /\ Retry
    /\ UNCHANGED <<wanted, api, token, call, clocks, faults, settled>>

(* ... or fails, applied to some of the mappings. *)
RequestFails ==
    /\ pc \in {"upsert", "delete"}
    /\ token = "valid"
    /\ IF pc = "upsert"
       THEN \E applied \in SUBSET regs : api' = Renewed(applied)
       ELSE \E applied \in SUBSET unregs : api' = Removed(applied)
    /\ Retry
    /\ faults' = OneMore(faults, 2)
    /\ UNCHANGED <<wanted, token, call, clocks, settled>>

--------------------------------------------------------------------------------
(* The environment. *)

(* The cached token is no longer accepted. *)
Revoke ==
    /\ token = "valid"
    /\ token' = "revoked"
    /\ faults' = IF pc = "idle" THEN faults ELSE OneMore(faults, 2)
    /\ UNCHANGED <<wanted, api, pc, count, call, result, clocks, settled>>

Tick ==
    /\ api' = [m \in Mappings |-> IF api[m] = 0 THEN 0 ELSE api[m] - 1]
    /\ elapsed' = IF pc = "idle" THEN elapsed ELSE OneMore(elapsed, TTL)
    /\ unrenewed' = OneMore(unrenewed, TTL)
    /\ unwanted' = [m \in Mappings |->
                        IF m \in wanted THEN 0 ELSE OneMore(unwanted[m], TTL)]
    /\ UNCHANGED <<wanted, token, pc, count, call, result, faults, settled>>

Next ==
    \/ \E new, gone \in SUBSET Mappings : EmitChange(new, gone)
    \/ EmitExternal
    \/ FetchToken \/ FetchTokenFails
    \/ Upsert \/ Delete \/ Unauthorized \/ RequestFails
    \/ Revoke \/ Tick

Spec == Init /\ [][Next]_vars

--------------------------------------------------------------------------------
(* Properties. *)

(* Emit fails only when UAA does not answer or after a second fault: a     *)
(* token revoked at any point, or one failed request, is repaired by the   *)
(* second attempt and its forced token (routing_api_emitter.go:52).        *)
SurvivesOneFault == result = "error" => faults >= 2

(* A mapping of the table that reached the routing API has at least what   *)
(* is left of a ttl since the last periodic emission that succeeded: it    *)
(* expires there only if none succeeded for a whole ttl, whatever events,  *)
(* slow calls, failed emissions and changes of the table come in between   *)
(* (EmitExternal renews every mapping, routing_api_emitter.go:74).         *)
WantedMappingsLive == \A m \in settled : api[m] >= TTL - unrenewed

(* A mapping the table gave up outlives that by no more than its ttl, also *)
(* when its deletion failed or was skipped after a failed upsert: no later *)
(* attempt or emission renews it.                                          *)
StaleMappingsExpire == \A m \in Mappings \ wanted : api[m] <= TTL - unwanted[m]

(* Mappings are deleted only when every mapping that replaces them has     *)
(* been renewed by the same emission, so that it is in the routing API     *)
(* unless the emission outlasts the ttl (the upsert precedes the delete in *)
(* emitRoutingAPI and its failure skips the delete, on either attempt).    *)
MakeBeforeBreak ==
    [][(pc = "delete" /\ pc' # pc /\ \E m \in unregs : api[m] > 0 /\ api'[m] = 0)
       => \A m \in regs : api[m] >= TTL - elapsed]_vars
================================================================================
