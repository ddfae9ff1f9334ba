------------------------ MODULE RoutingAPIEmitterProofs ------------------------
(***************************************************************************)
(* Proofs about RoutingAPIEmitter for every set of mappings and every ttl, *)
(* with any number of failures, events and ticks between two emissions.    *)
(***************************************************************************)
EXTENDS RoutingAPIEmitter, TLAPS

(* What an emission sends. *)
CallInv ==
    pc # "idle" =>
        /\ regs \subseteq wanted /\ unregs \cap wanted = {}
        /\ periodic => regs = wanted /\ unregs = {}
        /\ pc = "delete" => unregs # {}
        /\ regs = {} => unregs # {}

(* The faults behind the attempt an emission is in. *)
FaultInv ==
    /\ pc # "idle" => count <= faults
    /\ pc # "idle" /\ token = "revoked" => faults >= 1
    /\ pc \in {"upsert", "delete"} /\ token = "revoked" => faults >= count + 1
    /\ result = "error" => faults >= 2 /\ pc = "idle"

(* While mappings are deleted, those that replace them are as old as the emission. *)
ReplacedInv == pc = "delete" => \A m \in regs : api[m] >= TTL - elapsed

(* The inductive invariant. *)
IInv ==
    /\ TypeOK /\ CallInv /\ FaultInv
    /\ WantedMappingsLive /\ StaleMappingsExpire /\ ReplacedInv

(* Types are kept. *)
LEMMA TypeStep ==
    ASSUME IInv, [Next]_vars
    PROVE  TypeOK'
<1> USE TTLAssumption DEF IInv, TypeOK, CallInv, FaultInv, Tokens, call, clocks, OneMore
<1>1. ASSUME NEW new \in SUBSET Mappings, NEW gone \in SUBSET Mappings, EmitChange(new, gone)
      PROVE  TypeOK'
  <2>1. unwanted' \in [Mappings -> 0..TTL]
    BY <1>1 DEF EmitChange
  <2>2. wanted' \subseteq Mappings /\ settled' \subseteq wanted'
    BY <1>1 DEF EmitChange
  <2>3. /\ pc' \in {"idle", "fetch"} /\ result' \in {"none", "ok"}
        /\ count' = 0 /\ elapsed' = 0 /\ faults' \in 0..1
        /\ regs' = new /\ unregs' = gone /\ periodic' = FALSE
    BY <1>1 DEF EmitChange, Emit
  <2>4. UNCHANGED <<api, token, unrenewed>>
    BY <1>1 DEF EmitChange
  <2>5. TypeOK
    BY DEF IInv
  <2> HIDE TTLAssumption DEF IInv, TypeOK, CallInv, FaultInv, Tokens
  <2>6. /\ api' \in [Mappings -> 0..TTL] /\ token' \in Tokens
        /\ unrenewed' \in 0..TTL
    BY <2>4, <2>5 DEF TypeOK
  <2>7. elapsed' \in 0..TTL
    BY <2>3, TTLAssumption
  <2>8. count' \in 0..1 /\ faults' \in 0..2
    BY <2>3
  <2>9. /\ pc' \in {"idle", "fetch", "upsert", "delete"} /\ result' \in {"none", "ok", "error"}
        /\ regs' \subseteq Mappings /\ unregs' \subseteq Mappings
    BY <2>3
  <2>10. periodic' \in BOOLEAN
    BY <2>3, Zenon
  <2>11. QED
    BY <2>1, <2>2, <2>6, <2>7, <2>8, <2>9, <2>10 DEF TypeOK
<1>2. CASE EmitExternal
  BY <1>2 DEF EmitExternal, Emit
<1>3. CASE FetchToken
  BY <1>3 DEF FetchToken, NeedsFetch
<1>4. CASE FetchTokenFails
  BY <1>4 DEF FetchTokenFails, NeedsFetch, Return
<1>5. CASE Upsert
  BY <1>5 DEF Upsert, Renewed, Return
<1>6. CASE Delete
  BY <1>6 DEF Delete, Removed, Return
<1>7. CASE Unauthorized
  BY <1>7 DEF Unauthorized, Retry, Return
<1>8. CASE RequestFails
  BY <1>8 DEF RequestFails, Renewed, Removed, Retry, Return
<1>9. CASE Revoke
  BY <1>9 DEF Revoke
<1>10. CASE Tick
  BY <1>10 DEF Tick
<1>11. CASE UNCHANGED vars
  BY <1>11 DEF vars
<1>12. QED
  BY <1>1, <1>2, <1>3, <1>4, <1>5, <1>6, <1>7, <1>8, <1>9, <1>10, <1>11, Zenon DEF Next

(* An emission keeps what it sends. *)
LEMMA CallStep ==
    ASSUME IInv, [Next]_vars
    PROVE  CallInv'
<1> USE TTLAssumption DEF IInv, TypeOK, CallInv, FaultInv, Tokens, call, clocks, OneMore
<1>1. ASSUME NEW new \in SUBSET Mappings, NEW gone \in SUBSET Mappings, EmitChange(new, gone)
      PROVE  CallInv'
  BY <1>1 DEF EmitChange, Emit
<1>2. CASE EmitExternal
  BY <1>2 DEF EmitExternal, Emit
<1>3. CASE FetchToken
  BY <1>3 DEF FetchToken, NeedsFetch
<1>4. CASE FetchTokenFails
  BY <1>4 DEF FetchTokenFails, NeedsFetch, Return
<1>5. CASE Upsert
  BY <1>5 DEF Upsert, Renewed, Return
<1>6. CASE Delete
  BY <1>6 DEF Delete, Removed, Return
<1>7. CASE Unauthorized
  BY <1>7 DEF Unauthorized, Retry, Return
<1>8. CASE RequestFails
  BY <1>8 DEF RequestFails, Renewed, Removed, Retry, Return
<1>9. CASE Revoke
  BY <1>9 DEF Revoke
<1>10. CASE Tick
  BY <1>10 DEF Tick
<1>11. CASE UNCHANGED vars
  BY <1>11 DEF vars
<1>12. QED
  BY <1>1, <1>2, <1>3, <1>4, <1>5, <1>6, <1>7, <1>8, <1>9, <1>10, <1>11, Zenon DEF Next

(* Every attempt but the first has a fault behind it. *)
LEMMA FaultStep ==
    ASSUME IInv, [Next]_vars
    PROVE  FaultInv'
<1> USE TTLAssumption DEF IInv, TypeOK, FaultInv, Tokens, call, clocks, OneMore
<1>1. ASSUME NEW new \in SUBSET Mappings, NEW gone \in SUBSET Mappings, EmitChange(new, gone)
      PROVE  FaultInv'
  BY <1>1 DEF EmitChange, Emit
<1>2. CASE EmitExternal
  BY <1>2 DEF EmitExternal, Emit
<1>3. CASE FetchToken
  BY <1>3 DEF FetchToken, NeedsFetch
<1>4. CASE FetchTokenFails
  BY <1>4 DEF FetchTokenFails, NeedsFetch, Return
<1>5. CASE Upsert
  BY <1>5 DEF Upsert, Renewed, Return
<1>6. CASE Delete
  BY <1>6 DEF Delete, Removed, Return
<1>7. CASE Unauthorized
  BY <1>7 DEF Unauthorized, Retry, Return
<1>8. CASE RequestFails
  BY <1>8 DEF RequestFails, Renewed, Removed, Retry, Return
<1>9. CASE Revoke
  BY <1>9 DEF Revoke
<1>10. CASE Tick
  BY <1>10 DEF Tick
<1>11. CASE UNCHANGED vars
  BY <1>11 DEF vars
<1>12. QED
  BY <1>1, <1>2, <1>3, <1>4, <1>5, <1>6, <1>7, <1>8, <1>9, <1>10, <1>11 DEF Next

(* A mapping that is not wanted ages. *)
LEMMA StaleStep ==
    ASSUME IInv, [Next]_vars
    PROVE  StaleMappingsExpire'
<1> USE TTLAssumption DEF IInv, TypeOK, CallInv, StaleMappingsExpire, call, clocks, OneMore
<1>1. ASSUME NEW new \in SUBSET Mappings, NEW gone \in SUBSET Mappings, EmitChange(new, gone)
      PROVE  StaleMappingsExpire'
  BY <1>1 DEF EmitChange, Emit
<1>2. CASE EmitExternal
  BY <1>2 DEF EmitExternal, Emit
<1>3. CASE FetchToken
  BY <1>3 DEF FetchToken, NeedsFetch
<1>4. CASE FetchTokenFails
  BY <1>4 DEF FetchTokenFails, NeedsFetch, Return
<1>5. CASE Upsert
  BY <1>5 DEF Upsert, Renewed, Return
<1>6. CASE Delete
  BY <1>6 DEF Delete, Removed, Return
<1>7. CASE Unauthorized
  BY <1>7 DEF Unauthorized, Retry, Return
<1>8. CASE RequestFails
  BY <1>8 DEF RequestFails, Renewed, Removed, Retry, Return
<1>9. CASE Revoke
  BY <1>9 DEF Revoke
<1>10. CASE Tick
  BY <1>10 DEF Tick
<1>11. CASE UNCHANGED vars
  BY <1>11 DEF vars
<1>12. QED
  BY <1>1, <1>2, <1>3, <1>4, <1>5, <1>6, <1>7, <1>8, <1>9, <1>10, <1>11 DEF Next

(* Replacements stay. *)
LEMMA ReplacedStep ==
    ASSUME IInv, [Next]_vars
    PROVE  ReplacedInv'
<1> USE TTLAssumption DEF IInv, TypeOK, CallInv, ReplacedInv, call, clocks, OneMore
<1>1. ASSUME NEW new \in SUBSET Mappings, NEW gone \in SUBSET Mappings, EmitChange(new, gone)
      PROVE  ReplacedInv'
  BY <1>1 DEF EmitChange, Emit
<1>2. CASE EmitExternal
  BY <1>2 DEF EmitExternal, Emit
<1>3. CASE FetchToken
  BY <1>3 DEF FetchToken, NeedsFetch
<1>4. CASE FetchTokenFails
  BY <1>4 DEF FetchTokenFails, NeedsFetch, Return
<1>5. CASE Upsert
  BY <1>5 DEF Upsert, Renewed, Return
<1>6. CASE Delete
  BY <1>6 DEF Delete, Removed, Return
<1>7. CASE Unauthorized
  BY <1>7 DEF Unauthorized, Retry, Return
<1>8. CASE RequestFails
  BY <1>8 DEF RequestFails, Renewed, Removed, Retry, Return
<1>9. CASE Revoke
  BY <1>9 DEF Revoke
<1>10. CASE Tick
  BY <1>10 DEF Tick
<1>11. CASE UNCHANGED vars
  BY <1>11 DEF vars
<1>12. QED
  BY <1>1, <1>2, <1>3, <1>4, <1>5, <1>6, <1>7, <1>8, <1>9, <1>10, <1>11, Zenon DEF Next

(* A settled mapping ages no faster than the last successful emission. *)
LEMMA WantedStep ==
    ASSUME IInv, [Next]_vars
    PROVE  WantedMappingsLive'
<1> USE TTLAssumption DEF IInv, TypeOK, CallInv, WantedMappingsLive, call, clocks, OneMore
<1>1. ASSUME NEW new \in SUBSET Mappings, NEW gone \in SUBSET Mappings, EmitChange(new, gone)
      PROVE  WantedMappingsLive'
  BY <1>1 DEF EmitChange, Emit
<1>2. CASE EmitExternal
  BY <1>2 DEF EmitExternal, Emit
<1>3. CASE FetchToken
  BY <1>3 DEF FetchToken, NeedsFetch
<1>4. CASE FetchTokenFails
  BY <1>4 DEF FetchTokenFails, NeedsFetch, Return
<1>5. CASE Upsert
  BY <1>5 DEF Upsert, Renewed, Return
<1>6. CASE Delete
  BY <1>6 DEF Delete, Removed, Return
<1>7. CASE Unauthorized
  BY <1>7 DEF Unauthorized, Retry, Return
<1>8. CASE RequestFails
  BY <1>8 DEF RequestFails, Renewed, Removed, Retry, Return
<1>9. CASE Revoke
  BY <1>9 DEF Revoke
<1>10. CASE Tick
  BY <1>10 DEF Tick
<1>11. CASE UNCHANGED vars
  BY <1>11 DEF vars
<1>12. QED
  BY <1>1, <1>2, <1>3, <1>4, <1>5, <1>6, <1>7, <1>8, <1>9, <1>10, <1>11, Zenon DEF Next

(* The inductive invariant holds initially, when nothing is wanted and the *)
(* routing API is empty, and every step of the emitter, the routing API,   *)
(* UAA and the clock keeps it.                                             *)
THEOREM Invariance == Spec => []IInv
<1>1. Init => IInv
  <2> SUFFICES ASSUME Init PROVE IInv
    OBVIOUS
  <2>0. periodic \in BOOLEAN
    BY Zenon DEF Init
  <2>1. TypeOK /\ StaleMappingsExpire
    BY <2>0, TTLAssumption DEF Init, TypeOK, Tokens, StaleMappingsExpire
  <2>2. CallInv /\ FaultInv /\ WantedMappingsLive /\ ReplacedInv
    BY DEF Init, CallInv, FaultInv, WantedMappingsLive, ReplacedInv
  <2>3. QED
    BY <2>1, <2>2 DEF IInv
<1>2. IInv /\ [Next]_vars => IInv'
  BY TypeStep, CallStep, FaultStep, WantedStep, StaleStep, ReplacedStep DEF IInv
<1>3. QED
  BY <1>1, <1>2, PTL DEF Spec

(* Every variable keeps its type: in particular the attempt counter of     *)
(* emit stays below its limit and no mapping has more than the ttl left.   *)
THEOREM TypeCorrect == Spec => []TypeOK
<1>1. IInv => TypeOK
  BY DEF IInv
<1>2. QED
  BY <1>1, Invariance, PTL

(* Emit returns an error only after two faults (routing_api_emitter.go:52, *)
(* the two attempts of emit, the second with a forced token).              *)
THEOREM OneFaultSurvived == Spec => []SurvivesOneFault
<1>1. IInv => SurvivesOneFault
  BY DEF IInv, FaultInv, SurvivesOneFault
<1>2. QED
  BY <1>1, Invariance, PTL

(* A mapping of the table that the routing API once took expires only when *)
(* no periodic emission succeeded for a whole ttl, however many events and *)
(* failures lie in between (handler.go:116, routing_api_emitter.go:74).    *)
THEOREM WantedLive == Spec => []WantedMappingsLive
<1>1. IInv => WantedMappingsLive
  BY DEF IInv
<1>2. QED
  BY <1>1, Invariance, PTL

(* A mapping that is no longer wanted is gone from the routing API a ttl   *)
(* later, whether its deletion succeeded, failed or was skipped.           *)
THEOREM StaleExpire == Spec => []StaleMappingsExpire
<1>1. IInv => StaleMappingsExpire
  BY DEF IInv
<1>2. QED
  BY <1>1, Invariance, PTL

(* Whenever a mapping is deleted, the mappings upserted in its place were  *)
(* renewed by the same emission (routing_api_emitter.go:82).               *)
THEOREM DeletesFollowUpserts == Spec => MakeBeforeBreak
<1>1. IInv => (pc = "delete" => \A m \in regs : api[m] >= TTL - elapsed)
  BY DEF IInv, ReplacedInv
<1>2. QED
  BY <1>1, Invariance, PTL DEF MakeBeforeBreak
================================================================================
