---------------------------- MODULE RoutingTableOps ----------------------------
(***************************************************************************)
(* The operations of the routing table of route-emitter                    *)
(* (routingtable/routingtable.go) as operators on a table value.           *)
(*                                                                         *)
(* A routing table is three internalRoutingTables (HTTP, TCP, internal)    *)
(* that receive the same calls and never look at each other.  One table    *)
(* value stands for the three: a key names its sub-table, so the union of  *)
(* the three maps is a function on Keys.  Go's "key not in the map" is     *)
(* Nil.                                                                    *)
(*                                                                         *)
(* Routes are told apart by what Route.Hash compares; an endpoint is what  *)
(* endpointDifferent compares (net: host, ports, addresses) and its        *)
(* modification tag.  Index and process of an instance never change and    *)
(* are functions of its guid.                                              *)
(***************************************************************************)
EXTENDS Naturals

CONSTANTS
    Keys,           \* RoutingKeys: records with fields table, process, port
    Processes,      \* process guids (DesiredLRPs)
    Guids,          \* instance guids (ActualLRPs)
    ProcessOf,      \* the process an instance belongs to
    IndexOf,        \* the index of an instance
    Routes,         \* route hashes
    NetInfos,       \* what endpointDifferent compares
    Domains,        \* BBS domains
    Epochs,         \* epochs of modification tags
    TagIndexes,     \* indexes of modification tags
    InstanceCounts, \* values of DesiredLRP.Instances
    Nil             \* Go's nil, "" and absent map entry

--------------------------------------------------------------------------------
(* bbs/models: ModificationTag.  A tag without an epoch is the nil tag.    *)

BBSTag == [epoch : Epochs, index : TagIndexes]
NilTag == [epoch |-> Nil, index |-> 0]
ModificationTag == BBSTag \cup {NilTag}

SucceededBy(m, other) ==
    \/ m.epoch = Nil
    \/ other.epoch = Nil
    \/ m.epoch # other.epoch
    \/ m.index < other.index

Equal(m, other) == m = other

(* bbs/models: the LRPs, reduced to what the table reads.                  *)

DesiredLRP ==
    {d \in [process : Processes, routes : [Keys -> SUBSET Routes],
            domain : Domains, instances : InstanceCounts, tag : BBSTag] :
        \A k \in Keys : k.process # d.process => d.routes[k] = {}}

ActualLRP ==
    [guid : Guids, evacuating : BOOLEAN, net : NetInfos, tag : BBSTag]

--------------------------------------------------------------------------------
(* The data held per routing key.                                          *)

EndpointKey == Guids \X BOOLEAN
Endpoint == [net : NetInfos, tag : ModificationTag]
NoEndpoints == [ek \in EndpointKey |-> Nil]

RoutableEndpoints ==
    [domain : Domains \cup {Nil}, routes : SUBSET Routes,
     endpoints : [EndpointKey -> Endpoint \cup {Nil}],
     desiredInstances : InstanceCounts \cup {0}, tag : ModificationTag]

ZeroEntry ==
    [domain |-> Nil, routes |-> {}, endpoints |-> NoEndpoints,
     desiredInstances |-> 0, tag |-> NilTag]

Table == [Keys -> RoutableEndpoints \cup {Nil}]
EmptyTable == [k \in Keys |-> Nil]

ASSUME ConstantsAssumption ==
    /\ TagIndexes \subseteq Nat
    /\ InstanceCounts \subseteq Nat
    /\ ProcessOf \in [Guids -> Processes]
    /\ IndexOf \in [Guids -> Nat]

ASSUME NilAssumption ==
    /\ Nil \notin Domains
    /\ Nil \notin Epochs
    /\ Nil \notin Endpoint
    /\ Nil \notin RoutableEndpoints
    /\ Nil \notin DesiredLRP

(* table.entries[key]: Go yields the zero RoutableEndpoints for a missing key. *)
Lookup(entries, k) == IF entries[k] = Nil THEN ZeroEntry ELSE entries[k]

deleteEntryIfEmpty(entry) ==
    IF entry.routes = {} /\ entry.endpoints = NoEndpoints THEN Nil ELSE entry

--------------------------------------------------------------------------------
(* Messages: what the difference between two entries makes the emitter     *)
(* send.  diffEndpoints falls back on the key with the Evacuating bit      *)
(* flipped, so that an instance that only changes presence is no change.   *)

Present(endpoints) == {ek \in EndpointKey : endpoints[ek] # Nil}
Flip(ek) == <<ek[1], ~ek[2]>>

(* Mutant of Counterpart: no fallback on the flipped Evacuating bit. *)
CounterpartUnflipped(endpoints, ek) == endpoints[ek]

Counterpart(endpoints, ek) ==
    IF endpoints[ek] # Nil THEN endpoints[ek] ELSE endpoints[Flip(ek)]

endpointDifferent(before, after) == before.net # after.net

(* diffEndpoints: removed is Unmatched(before, after), added is            *)
(* Unmatched(after, before).                                               *)
Unmatched(endpoints, other) ==
    {ek \in Present(endpoints) :
        \/ Counterpart(other, ek) = Nil
        \/ endpointDifferent(Counterpart(other, ek), endpoints[ek])}

(* One message per route and endpoint. *)
MessagesFor(k, routes, endpoints, eks) ==
    {[key |-> k, route |-> r, guid |-> ek[1], net |-> endpoints[ek].net] :
        r \in routes, ek \in eks}

RegistrationsFor(k, old, new) ==
    MessagesFor(k, new.routes \ old.routes, new.endpoints, Present(new.endpoints))
    \cup MessagesFor(k, new.routes, new.endpoints,
                     Unmatched(new.endpoints, old.endpoints))

(* Mutant of UnregistrationsFor: routes and endpoints of the new entry. *)
UnregistrationsOfNew(k, old, new) ==
    MessagesFor(k, old.routes \ new.routes, new.endpoints, Present(new.endpoints))
    \cup MessagesFor(k, new.routes, old.endpoints,
                     Unmatched(old.endpoints, new.endpoints))

UnregistrationsFor(k, old, new) ==
    MessagesFor(k, old.routes \ new.routes, old.endpoints, Present(old.endpoints))
    \cup MessagesFor(k, old.routes, old.endpoints,
                     Unmatched(old.endpoints, new.endpoints))

(* emitDiffMessages runs for every key an operation writes; for the keys   *)
(* it leaves alone the difference, and so the set of messages, is empty.   *)
Registrations(old, new) ==
    UNION {RegistrationsFor(k, Lookup(old, k), Lookup(new, k)) : k \in Keys}

Unregistrations(old, new) ==
    UNION {UnregistrationsFor(k, Lookup(old, k), Lookup(new, k)) : k \in Keys}

(* GetRoutingEvents of a sub-table: the difference from the empty entry,   *)
(* for each of its keys.                                                   *)
GetRoutingEvents(entries, keys) ==
    UNION {RegistrationsFor(k, ZeroEntry, Lookup(entries, k)) : k \in keys}

ExternalKeys == {k \in Keys : k.table # "internal"}
InternalKeys == {k \in Keys : k.table = "internal"}

GetExternalRoutingEvents(entries) == GetRoutingEvents(entries, ExternalKeys)
GetInternalRoutingEvents(entries) == GetRoutingEvents(entries, InternalKeys)

--------------------------------------------------------------------------------
(* SetRoutes(before, after).  A key the LRP has a route for is a key of    *)
(* the map that routesGenerator builds.                                    *)

HasKey(lrp, k) == lrp # Nil /\ lrp.routes[k] # {}

UpdatesRoutes(entry, k, after) ==
    HasKey(after, k) /\ SucceededBy(entry.tag, after.tag)

ScaledDown(endpoints, before, after) ==
    IF before # Nil /\ before.instances > after.instances
    THEN [ek \in EndpointKey |->
            IF IndexOf[ek[1]] < after.instances THEN endpoints[ek] ELSE Nil]
    ELSE endpoints

(* Mutant of WithRoutes: the number of instances accumulates. *)
WithRoutesAccumulating(entry, k, before, after) ==
    [domain |-> after.domain, routes |-> after.routes[k],
     endpoints |-> ScaledDown(entry.endpoints, before, after),
     desiredInstances |-> entry.desiredInstances + after.instances, tag |-> after.tag]

WithRoutes(entry, k, before, after) ==
    [domain |-> after.domain, routes |-> after.routes[k],
     endpoints |-> ScaledDown(entry.endpoints, before, after),
     desiredInstances |-> after.instances, tag |-> after.tag]

(* A delete needs a tag that is not older, an update one that is newer. *)
ClearsRoutes(entry, k, before, after) ==
    /\ HasKey(before, k)
    /\ ~HasKey(after, k)
    /\ IF after = Nil
       THEN Equal(entry.tag, before.tag) \/ SucceededBy(entry.tag, before.tag)
       ELSE SucceededBy(entry.tag, after.tag)

WithoutRoutes(entry, after) ==
    IF after = Nil
    THEN [entry EXCEPT !.routes = {}]
    ELSE [entry EXCEPT !.routes = {}, !.domain = after.domain, !.tag = after.tag,
                       !.desiredInstances = after.instances]

SetRoutes(entries, before, after) ==
    [k \in Keys |->
        CASE UpdatesRoutes(Lookup(entries, k), k, after) ->
                WithRoutes(Lookup(entries, k), k, before, after)
          [] ClearsRoutes(Lookup(entries, k), k, before, after) ->
                deleteEntryIfEmpty(WithoutRoutes(Lookup(entries, k), after))
          [] OTHER -> entries[k]]

RemoveRoutes(entries, lrp) == SetRoutes(entries, lrp, Nil)

--------------------------------------------------------------------------------
(* AddEndpoint and RemoveEndpoint.  An instance has an endpoint under each *)
(* key of its process: one per port and, for internal routes, port 0.      *)

key(lrp) == <<lrp.guid, lrp.evacuating>>
HasEndpoint(lrp, k) == k.process = ProcessOf[lrp.guid]

(* Mutant of AcceptsEndpoint: the modification tag is not compared. *)
AcceptsAnyTag(entry, lrp) ==
    entry.desiredInstances > 0 => IndexOf[lrp.guid] < entry.desiredInstances

AcceptsEndpoint(entry, lrp) ==
    /\ entry.desiredInstances > 0 => IndexOf[lrp.guid] < entry.desiredInstances
    /\ \/ entry.endpoints[key(lrp)] = Nil
       \/ SucceededBy(entry.endpoints[key(lrp)].tag, lrp.tag)

AddEndpoint(entries, lrp) ==
    [k \in Keys |->
        IF HasEndpoint(lrp, k) /\ AcceptsEndpoint(Lookup(entries, k), lrp)
        THEN [Lookup(entries, k) EXCEPT
                !.endpoints[key(lrp)] = [net |-> lrp.net, tag |-> lrp.tag]]
        ELSE entries[k]]

RemovesEndpoint(entry, lrp) ==
    LET current == entry.endpoints[key(lrp)]
    IN  /\ current # Nil
        /\ Equal(current.tag, lrp.tag) \/ SucceededBy(current.tag, lrp.tag)

RemoveEndpoint(entries, lrp) ==
    [k \in Keys |->
        IF HasEndpoint(lrp, k) /\ RemovesEndpoint(Lookup(entries, k), lrp)
        THEN deleteEntryIfEmpty(
                [Lookup(entries, k) EXCEPT !.endpoints[key(lrp)] = Nil])
        ELSE entries[k]]

--------------------------------------------------------------------------------
(* Swap(otherTable, domains). *)

(* Mutants of mergeUnfreshRoutes: the freshness test inverted; the         *)
(* endpoints merged as well.                                               *)
mergeFreshRoutes(before, after, domains) ==
    [after EXCEPT
        !.domain = before.domain,
        !.routes = @ \cup (IF before.domain \in domains THEN before.routes ELSE {})]

mergeUnfreshEndpoints(before, after, domains) ==
    IF before.domain \in domains
    THEN [after EXCEPT !.domain = before.domain]
    ELSE [after EXCEPT
            !.domain = before.domain,
            !.routes = @ \cup before.routes,
            !.endpoints = [ek \in EndpointKey |->
                              IF @[ek] = Nil THEN before.endpoints[ek] ELSE @[ek]]]

mergeUnfreshRoutes(before, after, domains) ==
    [after EXCEPT
        !.domain = before.domain,
        !.routes = @ \cup (IF before.domain \in domains THEN {} ELSE before.routes)]

Swap(entries, other, domains) ==
    [k \in Keys |->
        IF entries[k] = Nil
        THEN other[k]
        ELSE deleteEntryIfEmpty(
                mergeUnfreshRoutes(entries[k], Lookup(other, k), domains))]

--------------------------------------------------------------------------------
(* Reading the table. *)

(* HasExternalRoutes looks at the HTTP and TCP keys of the instance. *)
HasExternalRoutes(entries, lrp) ==
    \E k \in ExternalKeys : HasEndpoint(lrp, k) /\ Lookup(entries, k).routes # {}

(* The route-endpoint pairs the table stands for.  AssociationsCount also   *)
(* counts an instance that is present twice, ordinary and evacuating.      *)
Associations(entries) ==
    UNION {MessagesFor(k, Lookup(entries, k).routes, Lookup(entries, k).endpoints,
                       Present(Lookup(entries, k).endpoints)) : k \in Keys}

================================================================================
