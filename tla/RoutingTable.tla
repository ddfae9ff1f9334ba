------------------------------ MODULE RoutingTable ------------------------------
(***************************************************************************)
(* The routing table under every sequence of calls its users make, and the *)
(* routers that receive the messages the calls return.                     *)
(*                                                                         *)
(* The live table is called by the watcher's goroutine: by                 *)
(* Handler.HandleEvent with the LRPs of BBS events, in any order and with  *)
(* any age of modification tag, and by Handler.Sync.  Sync builds a second *)
(* table with the same calls, whose messages it drops, and swaps it in.    *)
(*                                                                         *)
(* The routers are external: a set of registrations to which the           *)
(* registrations of one emission are added before its unregistrations are  *)
(* taken out, the order in which the emitters submit them.                 *)
(***************************************************************************)
EXTENDS RoutingTableOps

VARIABLES
    entries,    \* internalRoutingTable.entries of the live table
    newEntries, \* entries of the newTable of Handler.Sync
    inSync,     \* Handler.Sync is building newTable
    registered, \* what the routers have registered
    pruned      \* keys of registrations lost by the routers since they were last emitted

vars == <<entries, newEntries, inSync, registered, pruned>>

TypeOK ==
    /\ entries \in Table
    /\ newEntries \in Table
    /\ inSync \in BOOLEAN
    /\ registered \subseteq
         [key : Keys, route : Routes, guid : Guids, net : NetInfos]
    /\ pruned \subseteq Keys

Init ==
    /\ entries = EmptyTable
    /\ newEntries = EmptyTable
    /\ inSync = FALSE
    /\ registered = {}
    /\ pruned = {}

--------------------------------------------------------------------------------
(* The BBS copies an instance's net info when it evacuates it: the         *)
(* ordinary and the evacuating record of an instance agree on it.          *)
TwinAgrees(table, lrp) ==
    \A k \in Keys :
        HasEndpoint(lrp, k) =>
            LET twin == Lookup(table, k).endpoints[Flip(key(lrp))]
            IN  twin # Nil => twin.net = lrp.net

(* handler.routingTable: Sync points it at newTable while it builds it. *)
routingTable == IF inSync THEN newEntries ELSE entries

(* A call changes the table the handler points at into next.  The messages *)
(* of the live table are emitted, those of newTable dropped.               *)
Call(next) ==
    \/ /\ ~inSync
       /\ entries' = next
       /\ registered' = (registered \cup Registrations(entries, next))
                            \ Unregistrations(entries, next)
       /\ UNCHANGED <<newEntries, inSync, pruned>>
    \/ /\ inSync
       /\ newEntries' = next
       /\ UNCHANGED <<entries, inSync, registered, pruned>>

(* DesiredLRP created, fetched or in a sync (no before), or changed. *)
CallSetRoutes(before, after) ==
    /\ before # Nil => before.process = after.process
    /\ Call(SetRoutes(routingTable, before, after))

CallRemoveRoutes(lrp) == Call(RemoveRoutes(routingTable, lrp))

CallAddEndpoint(lrp) ==
    /\ TwinAgrees(routingTable, lrp)
    /\ Call(AddEndpoint(routingTable, lrp))

CallRemoveEndpoint(lrp) == Call(RemoveEndpoint(routingTable, lrp))

(* Handler.Sync: a new table, and at the end the swap. *)
StartSync ==
    /\ ~inSync
    /\ inSync' = TRUE
    /\ newEntries' = EmptyTable
    /\ UNCHANGED <<entries, registered, pruned>>

CallSwap(domains) ==
    /\ inSync
    /\ inSync' = FALSE
    /\ newEntries' = EmptyTable
    /\ entries' = Swap(entries, newEntries, domains)
    /\ registered' = (registered \cup Registrations(entries, entries'))
                         \ Unregistrations(entries, entries')
    /\ pruned' = pruned

(* Handler.EmitExternal and EmitInternal: everything in their sub-tables   *)
(* is registered again.                                                    *)
EmitExternal ==
    /\ ~inSync
    /\ registered' = registered \cup GetExternalRoutingEvents(entries)
    /\ pruned' = pruned \ ExternalKeys
    /\ UNCHANGED <<entries, newEntries, inSync>>

EmitInternal ==
    /\ ~inSync
    /\ registered' = registered \cup GetInternalRoutingEvents(entries)
    /\ pruned' = pruned \ InternalKeys
    /\ UNCHANGED <<entries, newEntries, inSync>>

(* A router restarts, or prunes a registration that it did not hear again in time. *)
RouterPrunes ==
    /\ \E m \in registered : /\ registered' = registered \ {m}
                             /\ pruned' = pruned \cup {m.key}
    /\ UNCHANGED <<entries, newEntries, inSync>>

Next ==
    \/ \E before \in DesiredLRP \cup {Nil}, after \in DesiredLRP :
            CallSetRoutes(before, after)
    \/ \E lrp \in DesiredLRP : CallRemoveRoutes(lrp)
    \/ \E lrp \in ActualLRP : CallAddEndpoint(lrp) \/ CallRemoveEndpoint(lrp)
    \/ StartSync
    \/ \E domains \in SUBSET Domains : CallSwap(domains)
    \/ EmitExternal
    \/ EmitInternal
    \/ RouterPrunes

Spec == Init /\ [][Next]_vars

--------------------------------------------------------------------------------
(* The routers never hold a registration for a pair of route and instance  *)
(* that the table no longer has: whatever sequence of route changes,       *)
(* endpoint changes, evacuations, late events and swaps, the messages that *)
(* emitDiffMessages computes from one entry to the next withdraw every     *)
(* pair that goes.                                                         *)
NoStaleRegistration == registered \subseteq Associations(entries)

(* And unless a router lost some of a key since its sub-table was last     *)
(* emitted, they hold every pair the table has under that key: no call     *)
(* drops a registration it should have sent, or unregisters a pair that    *)
(* stays (an instance that is evacuating and ordinary at once, a route     *)
(* that merely changes owner).                                             *)
NoMissingRegistration ==
    \A m \in Associations(entries) : m.key \in pruned \/ m \in registered

(* While a domain is not fresh, a swap takes no route away: a registration *)
(* of a route known from that domain stays with the routers as long as the *)
(* instance behind it is in the new table, however the BBS answered about  *)
(* the routes.                                                             *)
SwapKeepsUnfreshRegistrations ==
    [][\A domains \in SUBSET Domains :
        CallSwap(domains) =>
            \A m \in registered :
                LET old == Lookup(entries, m.key)
                    new == Lookup(newEntries, m.key)
                IN  (/\ old.domain \notin domains
                     /\ \E ek \in Present(new.endpoints) :
                            ek[1] = m.guid /\ new.endpoints[ek].net = m.net)
                    => m \in registered']_vars

(* An event that arrives late never takes the live table back: as long as  *)
(* an entry or an endpoint stays in the table, its modification tag does   *)
(* not return to an earlier one of the same epoch.  Only a swap, which     *)
(* takes the BBS's word, may.                                              *)
Precedes(m, other) == m.epoch = other.epoch /\ m.index < other.index

NoRollback ==
    [][~inSync => \A k \in Keys :
        entries[k] # Nil /\ entries'[k] # Nil =>
            /\ ~Precedes(entries'[k].tag, entries[k].tag)
            /\ \A ek \in EndpointKey :
                LET old == entries[k].endpoints[ek]
                    new == entries'[k].endpoints[ek]
                IN  old # Nil /\ new # Nil => ~Precedes(new.tag, old.tag)]_vars

(* A swap with every domain fresh leaves exactly the routes of the new     *)
(* table, so the routers lose the routes the BBS no longer has.            *)
FreshSwapIsExact ==
    [][CallSwap(Domains) =>
        \A k \in Keys :
            Lookup(entries', k).routes = Lookup(newEntries, k).routes]_vars

Reg == INSTANCE Registry WITH wanted <- Associations(entries)

(* Table and messages together implement Registry: a step of the table     *)
(* never withdraws a pair that stays and never leaves a new one out, even  *)
(* when routers have lost others, and a periodic emission gives the        *)
(* routers back whatever they lost of its sub-table.                       *)
RegistrySpec == Reg!Spec
================================================================================
