----------------------------- MODULE Unregistration -----------------------------
(***************************************************************************)
(* The unregistration cache and its sender (unregistration/) beside the    *)
(* handler thread that fills the cache (routehandlers/handler.go) and the  *)
(* routers.                                                                *)
(*                                                                         *)
(* A pair is what the cache's hash tells apart: URI, host, ports and       *)
(* protocol.  Messages that differ in the other fields only (app, route    *)
(* service, isolation segment, tags, time of update) are one pair, so a    *)
(* change may register and unregister the same pair.                       *)
(*                                                                         *)
(* The cache maps a hash to a pointer.  The sender works through the       *)
(* pointers List gave it, which are Shared with the cache until the entry  *)
(* is replaced or removed; from then on the sender counts on a Message of  *)
(* its own.                                                                *)
(***************************************************************************)
EXTENDS Naturals, FiniteSets

CONSTANTS
    Pairs,      \* pairs of a route and an address
    SendCount,  \* UnregistrationSendCount
    MaxChanges, \* bound on the changes of the table
    MaxLost,    \* bound on the publications NATS loses
    Nil,        \* no Message
    Shared      \* the Message the cache holds

ASSUME SendCountAssumption == SendCount \in Nat \ {0}
ASSUME BoundsAssumption == MaxChanges \in Nat /\ MaxLost \in Nat
ASSUME NilSharedAssumption ==
    Nil \notin Nat \cup Pairs /\ Shared \notin Nat /\ Nil # Shared

VARIABLES
    table,      \* the pairs of the routing table
    routers,    \* the pairs the routers have
    cache,      \* SentCount of the cached Message of a pair, or Nil
    pc,         \* what the handler does next
    toRegister,     \* RegistrationMessages of the handler's operation
    toUnregister,   \* its UnregistrationMessages
    batch,      \* the sender's list: SentCount of its Message of a pair, Shared or Nil
    sending,    \* the pair the sender has published and not yet counted, or Nil
    changes,    \* number of changes of the table
    lost        \* number of lost publications

(* History: what last changed a pair; how often the sender withdrew it     *)
(* since an update took it out of the cache, or since another operation    *)
(* published its registration; pairs whose Message left the cache early.   *)
VARIABLES changedBy, late, dropped

code == <<cache, pc, toRegister, toUnregister, batch, sending>>
history == <<changedBy, late, dropped>>
vars == <<table, routers, code, changes, lost, history>>

Counts == 0..(SendCount - 1)
MaxLate == SendCount + 2

TypeOK ==
    /\ table \subseteq Pairs
    /\ routers \subseteq Pairs
    /\ cache \in [Pairs -> Counts \cup {Nil}]
    /\ pc \in {"idle", "add", "remove", "emit"}
    /\ toRegister \subseteq Pairs
    /\ toUnregister \subseteq Pairs
    /\ batch \in [Pairs -> Counts \cup {Nil, Shared}]
    /\ sending \in Pairs \cup {Nil}
    /\ changes \in 0..MaxChanges
    /\ lost \in 0..MaxLost
    /\ changedBy \in [Pairs -> {"update", "other"}]
    /\ late \in [Pairs -> 0..MaxLate]
    /\ dropped \subseteq Pairs

(* The emitter has registered what a sync gave it. *)
Init ==
    /\ table \in SUBSET Pairs
    /\ routers = table
    /\ cache = [p \in Pairs |-> Nil]
    /\ pc = "idle"
    /\ toRegister = {}
    /\ toUnregister = {}
    /\ batch = [p \in Pairs |-> Nil]
    /\ sending = Nil
    /\ changes = 0
    /\ lost = 0
    /\ changedBy = [p \in Pairs |-> "update"]
    /\ late = [p \in Pairs |-> 0]
    /\ dropped = {}

--------------------------------------------------------------------------------
(* The cache.  All three operations hold its mutex. *)

(* The Messages of ps leave the cache; the sender keeps the pointers it has. *)
Detach(ps) ==
    batch' = [p \in Pairs |->
                IF p \in ps /\ batch[p] = Shared THEN cache[p] ELSE batch[p]]

Add(ps) ==
    /\ cache' = [p \in Pairs |-> IF p \in ps THEN 0 ELSE cache[p]]
    /\ Detach(ps)

(* Mutant of Remove: nothing is removed. *)
RemoveNothing(ps) == UNCHANGED <<cache, batch>>

Remove(ps) ==
    /\ cache' = [p \in Pairs |-> IF p \in ps THEN Nil ELSE cache[p]]
    /\ Detach(ps)

List == [p \in Pairs |-> IF cache[p] = Nil THEN Nil ELSE Shared]

--------------------------------------------------------------------------------
(* NATS, external: one connection, which delivers in order or loses. *)

Register(p) ==
    \/ routers' = routers \cup {p} /\ UNCHANGED lost
    \/ lost < MaxLost /\ lost' = lost + 1 /\ UNCHANGED routers

Unregister(p) ==
    \/ routers' = routers \ {p} /\ UNCHANGED lost
    \/ lost < MaxLost /\ lost' = lost + 1 /\ UNCHANGED routers

--------------------------------------------------------------------------------
(* The handler. *)

(* An operation leaves the pairs new; the pairs of renewed stay with other *)
(* contents.                                                               *)
ChangeTable(new, renewed, how) ==
    /\ pc = "idle"
    /\ changes < MaxChanges
    /\ changes' = changes + 1
    /\ table' = new
    /\ toRegister' = (new \ table) \cup renewed
    /\ toUnregister' = (table \ new) \cup renewed
    /\ LET changed == toRegister' \cup toUnregister'
       IN  /\ changedBy' = [p \in Pairs |-> IF p \in changed THEN how ELSE changedBy[p]]
           /\ late' = [p \in Pairs |-> IF p \in changed THEN 0 ELSE late[p]]
           /\ dropped' = dropped \ changed
    /\ UNCHANGED <<routers, cache, batch, sending, lost>>

(* handleDesiredUpdate, handleActualUpdate, Sync: cache, then emit. *)
Update ==
    \E new \in SUBSET Pairs : \E renewed \in SUBSET (table \cap new) :
        ChangeTable(new, renewed, "update") /\ pc' = "add"

(* handleDesiredCreate, handleDesiredDelete, handleActualCreate,           *)
(* handleActualDelete, RefreshDesired: emit only.                          *)
OtherChange ==
    \E new \in SUBSET Pairs : \E renewed \in SUBSET (table \cap new) :
        ChangeTable(new, renewed, "other") /\ pc' = "emit"

EmitExternal ==
    /\ pc = "idle"
    /\ pc' = "emit"
    /\ toRegister' = table
    /\ UNCHANGED <<table, routers, cache, toUnregister, batch, sending, changes, lost, history>>

AddUnregistrations ==
    /\ pc = "add"
    /\ pc' = "remove"
    /\ Add(toUnregister)
    /\ UNCHANGED <<table, routers, toRegister, toUnregister, sending, changes, lost, history>>

RemoveRegistrations ==
    /\ pc = "remove"
    /\ pc' = "emit"
    /\ Remove(toRegister)
    /\ late' = [p \in Pairs |-> IF p \in toRegister THEN 0 ELSE late[p]]
    /\ UNCHANGED <<table, routers, toRegister, toUnregister, sending, changes, lost,
                   changedBy, dropped>>

(* The work pool publishes the messages of an emission in any order. *)
EmitRegistration(p) ==
    /\ pc = "emit"
    /\ p \in toRegister
    /\ Register(p)
    /\ toRegister' = toRegister \ {p}
    /\ UNCHANGED <<table, cache, pc, toUnregister, batch, sending, changes, history>>

EmitUnregistration(p) ==
    /\ pc = "emit"
    /\ p \in toUnregister
    /\ Unregister(p)
    /\ toUnregister' = toUnregister \ {p}
    /\ UNCHANGED <<table, cache, pc, toRegister, batch, sending, changes, history>>

Emitted ==
    /\ pc = "emit"
    /\ toRegister = {}
    /\ toUnregister = {}
    /\ pc' = "idle"
    /\ UNCHANGED <<table, routers, cache, toRegister, toUnregister, batch, sending,
                   changes, lost, history>>

--------------------------------------------------------------------------------
(* The sender. *)

Tick ==
    /\ batch = [p \in Pairs |-> Nil]
    /\ sending = Nil
    /\ batch' = List
    /\ batch' # batch
    /\ UNCHANGED <<table, routers, cache, pc, toRegister, toUnregister, sending,
                   changes, lost, history>>

Registered(p) == p \in table /\ (changedBy[p] = "other" => p \notin toRegister)

(* A failed Emit is logged and counts as sent. *)
Send(p) ==
    /\ sending = Nil
    /\ batch[p] # Nil
    /\ Unregister(p)
    /\ sending' = p
    /\ late' = IF Registered(p) /\ late[p] < MaxLate
               THEN [late EXCEPT ![p] = @ + 1]
               ELSE late
    /\ UNCHANGED <<table, cache, pc, toRegister, toUnregister, batch, changes,
                   changedBy, dropped>>

SentCount(p) == IF batch[p] = Shared THEN cache[p] ELSE batch[p]

(* Mutants of Counted: a complete Message stays in the cache; a Message is *)
(* complete one send late, or one send early.                              *)
CountedForEver(p) ==
    /\ cache' = cache
    /\ UNCHANGED dropped

CountedOneMore(p) ==
    IF SentCount(p) = SendCount
    THEN /\ cache' = [cache EXCEPT ![p] = Nil]
         /\ UNCHANGED dropped
    ELSE /\ cache' = IF batch[p] = Shared THEN [cache EXCEPT ![p] = @ + 1] ELSE cache
         /\ UNCHANGED dropped

CountedOneShort(p) ==
    IF SentCount(p) + 2 >= SendCount
    THEN /\ cache' = [cache EXCEPT ![p] = Nil]
         /\ UNCHANGED dropped
    ELSE /\ cache' = IF batch[p] = Shared THEN [cache EXCEPT ![p] = @ + 1] ELSE cache
         /\ UNCHANGED dropped

(* message.SentCount++, and Remove(message) by its hash once it is complete. *)
Counted(p) ==
    IF SentCount(p) + 1 = SendCount
    THEN /\ cache' = [cache EXCEPT ![p] = Nil]
         /\ dropped' = IF batch[p] # Shared /\ cache[p] # Nil THEN dropped \cup {p} ELSE dropped
    ELSE /\ cache' = IF batch[p] = Shared THEN [cache EXCEPT ![p] = @ + 1] ELSE cache
         /\ UNCHANGED dropped

CountSent ==
    /\ sending # Nil
    /\ Counted(sending)
    /\ batch' = [batch EXCEPT ![sending] = Nil]
    /\ sending' = Nil
    /\ UNCHANGED <<table, routers, pc, toRegister, toUnregister, changes, lost,
                   changedBy, late>>

--------------------------------------------------------------------------------
(* A router, external, prunes a pair it no longer hears. *)
RouterPrunes(p) ==
    /\ p \in routers \ table
    /\ routers' = routers \ {p}
    /\ UNCHANGED <<table, code, changes, lost, history>>

Handle ==
    \/ EmitExternal
    \/ AddUnregistrations
    \/ RemoveRegistrations
    \/ \E p \in Pairs : EmitRegistration(p) \/ EmitUnregistration(p)
    \/ Emitted

Sender == Tick \/ (\E p \in Pairs : Send(p)) \/ CountSent

Next ==
    \/ Update
    \/ OtherChange
    \/ Handle
    \/ Sender
    \/ \E p \in Pairs : RouterPrunes(p)

Spec == Init /\ [][Next]_vars

(* Handler and sender are goroutines that never wait for each other, and   *)
(* the tickers of both keep ticking.  Nothing is assumed of changes,       *)
(* losses and pruning.                                                     *)
FairSpec == Spec /\ WF_vars(Handle) /\ WF_vars(Sender)

--------------------------------------------------------------------------------
(* Properties. *)

(* The handler has yet to take p out of the cache. *)
Clearing(p) == pc \in {"add", "remove"} /\ p \in toRegister

(* Once an update or a sync that registered a pair has removed it from the *)
(* cache (handler.go:243, 292, 197), the sender withdraws it at most once  *)
(* more: the Message it had listed before.                                 *)
UpdateStopsSender ==
    \A p \in table : changedBy[p] = "update" /\ ~Clearing(p) => late[p] <= 1

(* Whatever registers a pair, the sender withdraws it a bounded number of  *)
(* times after that: a create event or a refresh (handler.go:223, 233)     *)
(* leaves its Message in the cache, which is sent until it is complete,    *)
(* and the sender may hold one more that was replaced.                     *)
WithdrawalsBounded == \A p \in table : ~Clearing(p) => late[p] <= SendCount + 1

(* The sender gets rid of every Message: an unregistration is not repeated *)
(* for ever.                                                               *)
CacheDrains == <>[](cache = [p \in Pairs |-> Nil])

(* After the last change the sender stops disturbing the routers: they     *)
(* keep every pair of the table, through losses and messages of the cache  *)
(* that contradict it.                                                     *)
WantedPairsStay == <>[](table \subseteq routers)

(* The repetition makes up for losses: a pair that an update withdrew      *)
(* leaves the routers when no more than SendCount publications are lost,   *)
(* without pruning, unless it is registered again or its Message was       *)
(* dropped early (sender.go:67).                                           *)
RepeatsCoverLosses ==
    \A p \in Pairs :
        (p \notin table /\ changedBy[p] = "update")
            ~> (p \notin routers \/ p \in table \/ p \in dropped)

================================================================================
