--------------------------- MODULE RoutingTableProofs ---------------------------
(***************************************************************************)
(* Proofs about RoutingTable for every set of keys, routes, instances and  *)
(* tags: type correctness, and that the routers mirror the table.          *)
(***************************************************************************)
EXTENDS RoutingTable, RoutingTableLemmas, TLAPS

(* An ActualLRP is an instance. *)
LEMMA ActualIsInstance ==
    ASSUME NEW lrp \in ActualLRP
    PROVE  IsInstance(lrp)
  BY DEF ActualLRP, IsInstance

--------------------------------------------------------------------------------
(* The inductive invariant: type correctness, tables with twins that       *)
(* agree (without it the diff could withdraw a pair that stays), and the   *)
(* mirror itself.                                                          *)
Inv ==
    /\ TypeOK
    /\ Twins(entries)
    /\ Twins(newEntries)
    /\ NoStaleRegistration
    /\ NoMissingRegistration

(* A call that turns the table the handler points at into a well-formed    *)
(* table preserves the invariant.                                          *)
LEMMA CallPreservesInv ==
    ASSUME Inv, NEW next, TableOK(next), Call(next)
    PROVE  Inv'
<1>1. CASE inSync
  BY <1>1 DEF Inv, Call, TypeOK, TableOK, NoStaleRegistration, NoMissingRegistration
<1>2. CASE ~inSync
  <2>1. /\ registered' \subseteq Associations(next)
        /\ Associations(next) \subseteq
              registered' \cup (Associations(entries) \ registered)
    BY <1>2, EmissionMirrors
       DEF Inv, Call, TypeOK, TableOK, NoStaleRegistration
  <2>2. registered' \subseteq [key : Keys, route : Routes, guid : Guids, net : NetInfos]
    BY <2>1, AssociationsType DEF TableOK
  <2>3. QED
    BY <1>2, <2>1, <2>2
       DEF Inv, Call, TypeOK, TableOK, NoStaleRegistration, NoMissingRegistration
<1>3. QED
  BY <1>1, <1>2

(* The swap at the end of a sync preserves the invariant. *)
LEMMA SwapPreservesInv ==
    ASSUME Inv, NEW domains, CallSwap(domains)
    PROVE  Inv'
<1>1. TableOK(entries') /\ TableOK(newEntries')
  BY SwapOK, EmptyTableOK DEF Inv, TypeOK, TableOK, CallSwap
<1>2. /\ registered' \subseteq Associations(entries')
      /\ Associations(entries') \subseteq
            registered' \cup (Associations(entries) \ registered)
  BY <1>1, EmissionMirrors DEF Inv, TypeOK, TableOK, NoStaleRegistration, CallSwap
<1>3. registered' \subseteq [key : Keys, route : Routes, guid : Guids, net : NetInfos]
  BY <1>1, <1>2, AssociationsType DEF TableOK
<1>4. QED
  BY <1>1, <1>2, <1>3, Zenon
     DEF Inv, TypeOK, TableOK, NoStaleRegistration, NoMissingRegistration, CallSwap

(* The invariant holds initially. *)
LEMMA InitInv == Init => Inv
  BY EmptyTableOK, Zenon
     DEF Init, Inv, TypeOK, TableOK, NoStaleRegistration, NoMissingRegistration

(* Every step preserves the invariant. *)
LEMMA NextInv == Inv /\ [Next]_vars => Inv'
<1> SUFFICES ASSUME Inv, [Next]_vars PROVE Inv'
  OBVIOUS
<1>1. TableOK(entries) /\ TableOK(newEntries) /\ TableOK(routingTable)
  BY DEF Inv, TypeOK, TableOK, routingTable
<1>2. ASSUME NEW before \in DesiredLRP \cup {Nil}, NEW after \in DesiredLRP,
             CallSetRoutes(before, after)
      PROVE  Inv'
  BY <1>1, <1>2, SetRoutesOK, CallPreservesInv DEF CallSetRoutes
<1>3. ASSUME NEW lrp \in DesiredLRP, CallRemoveRoutes(lrp)
      PROVE  Inv'
  BY <1>1, <1>3, SetRoutesOK, CallPreservesInv DEF CallRemoveRoutes, RemoveRoutes
<1>4. ASSUME NEW lrp \in ActualLRP, CallAddEndpoint(lrp)
      PROVE  Inv'
  BY <1>1, <1>4, ActualIsInstance, AddEndpointOK, CallPreservesInv
     DEF CallAddEndpoint, TwinAgrees
<1>5. ASSUME NEW lrp \in ActualLRP, CallRemoveEndpoint(lrp)
      PROVE  Inv'
  BY <1>1, <1>5, ActualIsInstance, RemoveEndpointOK, CallPreservesInv DEF CallRemoveEndpoint
<1>6. CASE StartSync
  BY <1>6, EmptyTableOK
     DEF StartSync, Inv, TypeOK, TableOK, NoStaleRegistration, NoMissingRegistration
<1>7. ASSUME NEW domains \in SUBSET Domains, CallSwap(domains)
      PROVE  Inv'
  BY <1>7, SwapPreservesInv
<1>8. CASE EmitExternal \/ EmitInternal
  <2>1. PICK keys \in SUBSET Keys :
           /\ registered' = registered \cup GetRoutingEvents(entries, keys)
           /\ pruned' = pruned \ keys
           /\ UNCHANGED <<entries, newEntries, inSync>>
    BY <1>8, Zenon DEF EmitExternal, EmitInternal, ExternalKeys, InternalKeys,
                GetExternalRoutingEvents, GetInternalRoutingEvents
  <2>2. GetRoutingEvents(entries, keys) = {m \in Associations(entries) : m.key \in keys}
    BY <1>1, EmitsAssociations DEF TableOK
  <2>3. QED
    BY <1>1, <2>1, <2>2, AssociationsType
       DEF Inv, TypeOK, TableOK, NoStaleRegistration, NoMissingRegistration
<1>9. CASE RouterPrunes
  BY <1>9 DEF RouterPrunes, Inv, TypeOK, NoStaleRegistration, NoMissingRegistration
<1>10. CASE UNCHANGED vars
  BY <1>10 DEF vars, Inv, TypeOK, NoStaleRegistration, NoMissingRegistration
<1>11. QED
  BY <1>2, <1>3, <1>4, <1>5, <1>6, <1>7, <1>8, <1>9, <1>10 DEF Next

(* The mirror and what it rests on hold in every state the calls of the    *)
(* handler reach.                                                          *)
THEOREM SpecInv == Spec => []Inv
  BY InitInv, NextInv, PTL DEF Spec

(* The tables and the routers' registrations keep their types under every  *)
(* sequence of calls.                                                      *)
THEOREM TypeCorrect == Spec => []TypeOK
<1>1. Inv => TypeOK
  BY DEF Inv
<1>2. QED
  BY <1>1, SpecInv, PTL

(* Whatever calls the handler makes, and however many swaps, the messages  *)
(* withdraw every pair of route and instance that leaves the table.        *)
THEOREM NeverStale == Spec => []NoStaleRegistration
<1>1. Inv => NoStaleRegistration
  BY DEF Inv
<1>2. QED
  BY <1>1, SpecInv, PTL

(* And they register every pair that enters it and unregister none that    *)
(* stays, so that only a router's own loss leaves a pair unregistered, and *)
(* the next periodic emission ends that.                                   *)
THEOREM NeverMissing == Spec => []NoMissingRegistration
<1>1. Inv => NoMissingRegistration
  BY DEF Inv
<1>2. QED
  BY <1>1, SpecInv, PTL

--------------------------------------------------------------------------------
(* A swap in which the domain of a route is not fresh keeps the route: the *)
(* step property behind SwapKeepsUnfreshRegistrations.                     *)
LEMMA SwapKeepsPair ==
    ASSUME Inv, NEW domains \in SUBSET Domains, CallSwap(domains),
           NEW m \in registered,
           Lookup(entries, m.key).domain \notin domains,
           NEW ek \in Present(Lookup(newEntries, m.key).endpoints),
           ek[1] = m.guid,
           Lookup(newEntries, m.key).endpoints[ek].net = m.net
    PROVE  m \in registered'
<1> DEFINE k == m.key
<1>1. TableOK(entries) /\ TableOK(newEntries) /\ TableOK(entries')
  BY SwapOK DEF Inv, TypeOK, TableOK, CallSwap
<1>2. k \in Keys /\ m \in Pairs(k, Lookup(entries, k))
  <2>1. PICK k2 \in Keys : m \in Pairs(k2, Lookup(entries, k2))
    BY InAssociations DEF Inv, NoStaleRegistration
  <2>2. QED
    BY <2>1, MessageKey
<1>3. m.route \in Lookup(entries, k).routes
      /\ m = [key |-> k, route |-> m.route, guid |-> m.guid, net |-> m.net]
  BY <1>2, InMessagesFor DEF Pairs
<1>4. entries[k] # Nil /\ Lookup(entries, k) = entries[k]
  BY <1>3 DEF Lookup, ZeroEntry
<1>5. EntryOK(Lookup(newEntries, k)) /\ EntryOK(entries[k])
  BY <1>1, <1>2, <1>4, LookupOK
<1> DEFINE merged == mergeUnfreshRoutes(entries[k], Lookup(newEntries, k), domains)
<1>6. m.route \in merged.routes /\ merged.endpoints = Lookup(newEntries, k).endpoints
  BY <1>3, <1>4, <1>5 DEF mergeUnfreshRoutes, EntryOK, RoutableEndpoints
<1>7. entries'[k] = merged
  BY <1>2, <1>4, <1>6 DEF CallSwap, Swap, deleteEntryIfEmpty
<1>8. merged # Nil
  <2>1. merged \in RoutableEndpoints
    BY <1>5, Zenon DEF mergeUnfreshRoutes, EntryOK, RoutableEndpoints
  <2>2. QED
    BY <2>1, NilAssumption
<1>9. Lookup(entries', k) = merged
  BY <1>7, <1>8 DEF Lookup
<1>10. m \in Pairs(k, Lookup(entries', k))
  <2>1. \E r \in merged.routes, ek2 \in Present(merged.endpoints) :
           m = [key |-> k, route |-> r, guid |-> ek2[1], net |-> merged.endpoints[ek2].net]
    BY <1>3, <1>6
  <2>2. QED
    BY <1>9, <2>1, InMessagesFor DEF Pairs
<1>11. m \in Associations(entries')
  BY <1>2, <1>10, InAssociations
<1>12. m \notin Unregistrations(entries, entries')
  BY <1>1, <1>11, StayingAssociations DEF TableOK
<1>13. QED
  BY <1>12 DEF CallSwap

(* While a domain is not fresh, no sync takes a registered route of that   *)
(* domain from an instance that still runs.                                *)
THEOREM UnfreshRoutesKept == Spec => SwapKeepsUnfreshRegistrations
<1> DEFINE Step ==
       \A domains \in SUBSET Domains :
        CallSwap(domains) =>
            \A m \in registered :
                LET old == Lookup(entries, m.key)
                    new == Lookup(newEntries, m.key)
                IN  (/\ old.domain \notin domains
                     /\ \E ek \in Present(new.endpoints) :
                            ek[1] = m.guid /\ new.endpoints[ek].net = m.net)
                    => m \in registered'
<1>1. Inv => Step
  BY SwapKeepsPair
<1>2. QED
  BY <1>1, SpecInv, PTL DEF SwapKeepsUnfreshRegistrations

--------------------------------------------------------------------------------
(* Rollback of modification tags.                                          *)

(* The index of a tag is a number, and only the nil tag has no epoch. *)
LEMMA TagFields ==
    ASSUME NEW m \in ModificationTag
    PROVE  /\ m.index \in Nat
           /\ m \in BBSTag => m.epoch # Nil
<1>1. CASE m \in BBSTag
  BY <1>1, ConstantsAssumption, NilAssumption, Zenon DEF BBSTag
<1>2. CASE m = NilTag
  <2>1. m.index = 0 /\ m.epoch = Nil
    BY <1>2 DEF NilTag
  <2>2. m \notin BBSTag
    BY <2>1, NilAssumption DEF BBSTag
  <2>3. QED
    BY <2>1, <2>2
<1>3. QED
  BY <1>1, <1>2 DEF ModificationTag

(* A tag that succeeds another one does not precede it. *)
LEMMA SucceededNotPreceded ==
    ASSUME NEW m \in ModificationTag, NEW other \in BBSTag,
           Equal(m, other) \/ SucceededBy(m, other)
    PROVE  ~Precedes(other, m)
<1>1. other \in ModificationTag /\ other.epoch # Nil
      /\ m.index \in Nat /\ other.index \in Nat
  BY TagFields DEF ModificationTag
<1>2. QED
  BY <1>1 DEF Equal, SucceededBy, Precedes

(* No tag precedes itself. *)
LEMMA NotPrecedesItself ==
    ASSUME NEW m \in ModificationTag
    PROVE  ~Precedes(m, m)
  BY TagFields DEF Precedes

(* Entry new may follow entry old in the live table. *)
Follows(old, new) ==
    /\ ~Precedes(new.tag, old.tag)
    /\ \A ek \in EndpointKey :
         old.endpoints[ek] # Nil /\ new.endpoints[ek] # Nil =>
            ~Precedes(new.endpoints[ek].tag, old.endpoints[ek].tag)

(* An entry whose own tag does not go back, and whose endpoints are kept or dropped. *)
LEMMA FollowsWithSameEndpoints ==
    ASSUME NEW old \in RoutableEndpoints, NEW new, ~Precedes(new.tag, old.tag),
           \A ek \in EndpointKey :
              new.endpoints[ek] = Nil \/ new.endpoints[ek] = old.endpoints[ek]
    PROVE  Follows(old, new)
<1>1. ASSUME NEW ek \in EndpointKey, old.endpoints[ek] # Nil, new.endpoints[ek] # Nil
      PROVE  ~Precedes(new.endpoints[ek].tag, old.endpoints[ek].tag)
  <2>1. old.endpoints[ek].tag \in ModificationTag
    BY <1>1 DEF RoutableEndpoints, Endpoint
  <2>2. QED
    BY <1>1, <2>1, NotPrecedesItself
<1>2. QED
  BY <1>1 DEF Follows

(* SetRoutes never takes an entry back. *)
LEMMA SetRoutesFollows ==
    ASSUME NEW table \in Table, NEW k \in Keys,
           NEW before \in DesiredLRP \cup {Nil}, NEW after \in DesiredLRP \cup {Nil},
           table[k] # Nil, SetRoutes(table, before, after)[k] # Nil
    PROVE  Follows(table[k], SetRoutes(table, before, after)[k])
<1> DEFINE old == table[k]
           new == SetRoutes(table, before, after)[k]
<1>1. old \in RoutableEndpoints /\ Lookup(table, k) = old /\ old.tag \in ModificationTag
  BY DEF Table, Lookup, RoutableEndpoints
<1>2. CASE UpdatesRoutes(old, k, after)
  <2>1. after \in DesiredLRP /\ after.tag \in BBSTag
    BY <1>2 DEF UpdatesRoutes, HasKey, DesiredLRP
  <2>2. new = WithRoutes(old, k, before, after)
    <3>1. ~ClearsRoutes(old, k, before, after)
      BY <1>2 DEF UpdatesRoutes, ClearsRoutes
    <3>2. QED
      BY <1>1, <1>2, <3>1 DEF SetRoutes
  <2>3. ~Precedes(new.tag, old.tag)
    BY <1>1, <1>2, <2>1, <2>2, SucceededNotPreceded DEF WithRoutes, UpdatesRoutes
  <2>4. \A ek \in EndpointKey :
           new.endpoints[ek] = Nil \/ new.endpoints[ek] = old.endpoints[ek]
    BY <1>1, <2>2 DEF WithRoutes, ScaledDown, RoutableEndpoints
  <2>5. QED
    BY <1>1, <2>3, <2>4, FollowsWithSameEndpoints
<1>3. CASE ~UpdatesRoutes(old, k, after) /\ ClearsRoutes(old, k, before, after)
  <2>1. new = WithoutRoutes(old, after)
    BY <1>1, <1>3 DEF SetRoutes, deleteEntryIfEmpty
  <2>2. new.endpoints = old.endpoints
    BY <1>1, <2>1 DEF WithoutRoutes, RoutableEndpoints
  <2>3. ~Precedes(new.tag, old.tag)
    <3>1. CASE after = Nil
      BY <1>1, <2>1, <3>1, NotPrecedesItself DEF WithoutRoutes, RoutableEndpoints
    <3>2. CASE after # Nil
      <4>1. new.tag = after.tag /\ after.tag \in BBSTag
        BY <1>1, <2>1, <3>2 DEF WithoutRoutes, RoutableEndpoints, DesiredLRP
      <4>2. QED
        BY <1>1, <1>3, <3>2, <4>1, SucceededNotPreceded DEF ClearsRoutes
    <3>3. QED
      BY <3>1, <3>2
  <2>4. QED
    BY <1>1, <2>2, <2>3, FollowsWithSameEndpoints
<1>4. CASE ~UpdatesRoutes(old, k, after) /\ ~ClearsRoutes(old, k, before, after)
  <2>1. new = old
    BY <1>1, <1>4 DEF SetRoutes
  <2>2. QED
    BY <1>1, <2>1, NotPrecedesItself, FollowsWithSameEndpoints
<1>5. QED
  BY <1>2, <1>3, <1>4

(* Neither does AddEndpoint: the endpoint it replaces is older. *)
LEMMA AddEndpointFollows ==
    ASSUME NEW table \in Table, NEW k \in Keys, NEW lrp \in ActualLRP, table[k] # Nil
    PROVE  Follows(table[k], AddEndpoint(table, lrp)[k])
<1> DEFINE old == table[k]
           new == AddEndpoint(table, lrp)[k]
<1>1. old \in RoutableEndpoints /\ Lookup(table, k) = old /\ old.tag \in ModificationTag
  BY DEF Table, Lookup, RoutableEndpoints
<1>2. CASE HasEndpoint(lrp, k) /\ AcceptsEndpoint(old, lrp)
  <2>1. new = [old EXCEPT !.endpoints[key(lrp)] = [net |-> lrp.net, tag |-> lrp.tag]]
    BY <1>1, <1>2 DEF AddEndpoint
  <2>2. /\ new.tag = old.tag
        /\ new.endpoints[key(lrp)].tag = lrp.tag
        /\ \A ek \in EndpointKey : ek # key(lrp) => new.endpoints[ek] = old.endpoints[ek]
    BY <1>1, <2>1, ActualIsInstance, KeyType DEF RoutableEndpoints
  <2>3. ASSUME NEW ek \in EndpointKey, old.endpoints[ek] # Nil
        PROVE  ~Precedes(new.endpoints[ek].tag, old.endpoints[ek].tag)
    <3>1. old.endpoints[ek].tag \in ModificationTag /\ lrp.tag \in BBSTag
      BY <1>1, <2>3 DEF RoutableEndpoints, Endpoint, ActualLRP
    <3>2. CASE ek = key(lrp)
      BY <1>2, <2>2, <2>3, <3>1, <3>2, SucceededNotPreceded DEF AcceptsEndpoint
    <3>3. CASE ek # key(lrp)
      BY <2>2, <3>1, <3>3, NotPrecedesItself
    <3>4. QED
      BY <3>2, <3>3
  <2>4. QED
    BY <1>1, <2>2, <2>3, NotPrecedesItself DEF Follows
<1>3. CASE ~(HasEndpoint(lrp, k) /\ AcceptsEndpoint(old, lrp))
  <2>1. new = old
    BY <1>1, <1>3 DEF AddEndpoint
  <2>2. QED
    BY <1>1, <2>1, NotPrecedesItself, FollowsWithSameEndpoints
<1>4. QED
  BY <1>2, <1>3

(* Nor RemoveEndpoint, which changes no tag. *)
LEMMA RemoveEndpointFollows ==
    ASSUME NEW table \in Table, NEW k \in Keys, NEW lrp \in ActualLRP,
           table[k] # Nil, RemoveEndpoint(table, lrp)[k] # Nil
    PROVE  Follows(table[k], RemoveEndpoint(table, lrp)[k])
<1> DEFINE old == table[k]
           new == RemoveEndpoint(table, lrp)[k]
<1>1. old \in RoutableEndpoints /\ Lookup(table, k) = old /\ old.tag \in ModificationTag
  BY DEF Table, Lookup, RoutableEndpoints
<1>2. new = old \/ new = [old EXCEPT !.endpoints[key(lrp)] = Nil]
  BY <1>1 DEF RemoveEndpoint, deleteEntryIfEmpty
<1>3. /\ new.tag = old.tag
      /\ \A ek \in EndpointKey :
           new.endpoints[ek] = Nil \/ new.endpoints[ek] = old.endpoints[ek]
  BY <1>1, <1>2, ActualIsInstance, KeyType DEF RoutableEndpoints
<1>4. QED
  BY <1>1, <1>3, NotPrecedesItself, FollowsWithSameEndpoints

(* A late event never takes the live table back to an earlier version of   *)
(* an LRP.                                                                 *)
THEOREM LateEventsIgnored == Spec => NoRollback
<1> DEFINE Step ==
      ~inSync => \A k \in Keys :
        entries[k] # Nil /\ entries'[k] # Nil =>
            /\ ~Precedes(entries'[k].tag, entries[k].tag)
            /\ \A ek \in EndpointKey :
                LET old == entries[k].endpoints[ek]
                    new == entries'[k].endpoints[ek]
                IN  old # Nil /\ new # Nil => ~Precedes(new.tag, old.tag)
<1>1. Inv /\ [Next]_vars => Step
  <2> SUFFICES ASSUME Inv, [Next]_vars, ~inSync, NEW k \in Keys,
                      entries[k] # Nil, entries'[k] # Nil
               PROVE  Follows(entries[k], entries'[k])
    BY DEF Follows
  <2>1. entries \in Table /\ routingTable = entries
    BY DEF Inv, TypeOK, routingTable
  <2>2. entries[k] \in RoutableEndpoints /\ entries[k].tag \in ModificationTag
    BY <2>1 DEF Table, RoutableEndpoints
  <2>3. ASSUME NEW before \in DesiredLRP \cup {Nil}, NEW after \in DesiredLRP,
               CallSetRoutes(before, after)
        PROVE  Follows(entries[k], entries'[k])
    BY <2>1, <2>3, SetRoutesFollows DEF CallSetRoutes, Call
  <2>4. ASSUME NEW lrp \in DesiredLRP, CallRemoveRoutes(lrp)
        PROVE  Follows(entries[k], entries'[k])
    BY <2>1, <2>4, SetRoutesFollows DEF CallRemoveRoutes, RemoveRoutes, Call
  <2>5. ASSUME NEW lrp \in ActualLRP, CallAddEndpoint(lrp)
        PROVE  Follows(entries[k], entries'[k])
    BY <2>1, <2>5, AddEndpointFollows DEF CallAddEndpoint, Call
  <2>6. ASSUME NEW lrp \in ActualLRP, CallRemoveEndpoint(lrp)
        PROVE  Follows(entries[k], entries'[k])
    BY <2>1, <2>6, RemoveEndpointFollows DEF CallRemoveEndpoint, Call
  <2>7. CASE UNCHANGED entries
    BY <2>2, <2>7, NotPrecedesItself, FollowsWithSameEndpoints
  <2>8. QED
    BY <2>3, <2>4, <2>5, <2>6, <2>7
       DEF Next, StartSync, CallSwap, EmitExternal, EmitInternal, RouterPrunes, vars
<1>2. QED
  BY <1>1, SpecInv, PTL DEF NoRollback, Spec

--------------------------------------------------------------------------------
(* The table implements Registry.                                          *)

(* A step of the live table to a well-formed table, whose messages the     *)
(* routers receive, is a change of the registry.                           *)
LEMMA EmissionIsChange ==
    ASSUME Inv, TableOK(entries'),
           registered' = (registered \cup Registrations(entries, entries'))
                             \ Unregistrations(entries, entries'),
           pruned' = pruned
    PROVE  Reg!Change
<1>1. /\ registered' \subseteq Associations(entries')
      /\ Associations(entries') \subseteq
            registered' \cup (Associations(entries) \ registered)
  BY EmissionMirrors DEF Inv, TypeOK, TableOK, NoStaleRegistration
<1>2. QED
  BY <1>1 DEF Reg!Change

(* So is a call, or it changes newTable alone and nothing of the registry. *)
LEMMA CallIsChange ==
    ASSUME Inv, NEW next, TableOK(next), Call(next)
    PROVE  Reg!Change \/ UNCHANGED <<Associations(entries), registered, pruned>>
<1>1. CASE inSync
  BY <1>1 DEF Call
<1>2. CASE ~inSync
  BY <1>2, EmissionIsChange DEF Call
<1>3. QED
  BY <1>1, <1>2

(* Every step of the table is a step of the registry, or changes nothing of it. *)
LEMMA NextRefines ==
    ASSUME Inv, [Next]_vars
    PROVE  [Reg!Next]_<<Associations(entries), registered, pruned>>
<1> USE DEF Reg!Next
<1>1. TableOK(entries) /\ TableOK(newEntries) /\ TableOK(routingTable)
  BY DEF Inv, TypeOK, TableOK, routingTable
<1>2. ASSUME NEW before \in DesiredLRP \cup {Nil}, NEW after \in DesiredLRP,
             CallSetRoutes(before, after)
      PROVE  [Reg!Next]_<<Associations(entries), registered, pruned>>
  BY <1>1, <1>2, SetRoutesOK, CallIsChange DEF CallSetRoutes
<1>3. ASSUME NEW lrp \in DesiredLRP, CallRemoveRoutes(lrp)
      PROVE  [Reg!Next]_<<Associations(entries), registered, pruned>>
  BY <1>1, <1>3, SetRoutesOK, CallIsChange DEF CallRemoveRoutes, RemoveRoutes
<1>4. ASSUME NEW lrp \in ActualLRP, CallAddEndpoint(lrp)
      PROVE  [Reg!Next]_<<Associations(entries), registered, pruned>>
  BY <1>1, <1>4, ActualIsInstance, AddEndpointOK, CallIsChange
     DEF CallAddEndpoint, TwinAgrees
<1>5. ASSUME NEW lrp \in ActualLRP, CallRemoveEndpoint(lrp)
      PROVE  [Reg!Next]_<<Associations(entries), registered, pruned>>
  BY <1>1, <1>5, ActualIsInstance, RemoveEndpointOK, CallIsChange DEF CallRemoveEndpoint
<1>6. ASSUME NEW domains \in SUBSET Domains, CallSwap(domains)
      PROVE  [Reg!Next]_<<Associations(entries), registered, pruned>>
  <2>1. TableOK(entries')
    BY <1>1, <1>6, SwapOK DEF CallSwap
  <2>2. QED
    BY <1>6, <2>1, EmissionIsChange DEF CallSwap
<1>7. CASE EmitExternal \/ EmitInternal
  <2>1. PICK keys \in SUBSET Keys :
           /\ registered' = registered \cup GetRoutingEvents(entries, keys)
           /\ pruned' = pruned \ keys
           /\ UNCHANGED <<entries, newEntries, inSync>>
    BY <1>7, Zenon DEF EmitExternal, EmitInternal, ExternalKeys, InternalKeys,
                GetExternalRoutingEvents, GetInternalRoutingEvents
  <2>2. GetRoutingEvents(entries, keys) = {m \in Associations(entries) : m.key \in keys}
    BY <1>1, EmitsAssociations DEF TableOK
  <2>3. QED
    BY <2>1, <2>2 DEF Reg!Change, Inv, NoStaleRegistration
<1>8. CASE RouterPrunes
  BY <1>8 DEF RouterPrunes, Reg!Lose
<1>9. CASE StartSync \/ UNCHANGED vars
  BY <1>9 DEF StartSync, vars
<1>10. QED
  BY <1>2, <1>3, <1>4, <1>5, <1>6, <1>7, <1>8, <1>9 DEF Next

(* Under every sequence of calls, the table and its messages are a         *)
(* registry: they withdraw nothing that stays and miss nothing that comes. *)
THEOREM ImplementsRegistry == Spec => RegistrySpec
<1>1. Init => Reg!Init
  BY EmptyTableOK DEF Init, Reg!Init
<1>2. Inv /\ [Next]_vars => [Reg!Next]_<<Associations(entries), registered, pruned>>
  BY NextRefines
<1>3. QED
  BY <1>1, <1>2, SpecInv, PTL DEF Spec, RegistrySpec, Reg!Spec

================================================================================
