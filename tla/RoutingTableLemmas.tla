--------------------------- MODULE RoutingTableLemmas ---------------------------
(***************************************************************************)
(* What the operations of RoutingTableOps do to a table and to the         *)
(* routers, and what the loops of Handler over the LRPs and events of a    *)
(* sync leave, for every set of keys, routes, instances and tags.  The     *)
(* proofs about RoutingTable and RouteEmitter rest on these.               *)
(***************************************************************************)
EXTENDS Handler, WellFoundedInduction, TLAPS

(* The ordinary and the evacuating endpoint of an instance agree. *)
EntryTwins(entry) ==
    \A ek \in EndpointKey :
        entry.endpoints[ek] # Nil /\ entry.endpoints[Flip(ek)] # Nil =>
            entry.endpoints[ek].net = entry.endpoints[Flip(ek)].net

Twins(table) == \A k \in Keys : EntryTwins(Lookup(table, k))

--------------------------------------------------------------------------------
(* What the messages between two entries do.                               *)

Pairs(k, entry) ==
    MessagesFor(k, entry.routes, entry.endpoints, Present(entry.endpoints))

(* A message stands for a route and an endpoint. *)
LEMMA InMessagesFor ==
    ASSUME NEW k, NEW routes, NEW endpoints, NEW eks, NEW m
    PROVE  m \in MessagesFor(k, routes, endpoints, eks) <=>
              \E r \in routes, ek \in eks :
                 m = [key |-> k, route |-> r, guid |-> ek[1],
                      net |-> endpoints[ek].net]
  BY DEF MessagesFor

(* Flipping the Evacuating bit twice gives the key back, and an instance has no third key. *)
LEMMA FlipFact ==
    ASSUME NEW ek \in EndpointKey
    PROVE  /\ Flip(ek) \in EndpointKey
           /\ Flip(ek)[1] = ek[1]
           /\ Flip(Flip(ek)) = ek
           /\ \A ek2 \in EndpointKey : ek2[1] = ek[1] => ek2 = ek \/ ek2 = Flip(ek)
<1>1. PICK g \in Guids, b \in BOOLEAN : ek = <<g, b>>
  BY DEF EndpointKey
<1>2. Flip(ek) = <<g, ~b>>
  BY <1>1 DEF Flip
<1>3. Flip(Flip(ek)) = <<g, ~~b>>
  BY <1>2, Zenon DEF Flip
<1>4. /\ (~b) \in BOOLEAN
      /\ (~~b) = b
      /\ \A c \in BOOLEAN : c = b \/ c = ~b
  BY Zenon
<1>5. Flip(ek) \in EndpointKey /\ Flip(ek)[1] = ek[1]
  <2>1. PICK c \in BOOLEAN : Flip(ek) = <<g, c>>
    BY <1>2, <1>4, Zenon
  <2>2. QED
    BY <1>1, <2>1 DEF EndpointKey
<1>6. Flip(Flip(ek)) = ek
  BY <1>1, <1>3, <1>4
<1>7. ASSUME NEW ek2 \in EndpointKey, ek2[1] = ek[1]
      PROVE  ek2 = ek \/ ek2 = Flip(ek)
  <2>1. PICK c \in BOOLEAN : ek2 = <<g, c>>
    BY <1>1, <1>7 DEF EndpointKey
  <2>2. QED
    BY <1>1, <1>2, <1>4, <2>1
<1>8. QED
  BY <1>5, <1>6, <1>7

(* What is not withdrawn by the diff is still a pair of the new entry. *)
LEMMA KeptPairs ==
    ASSUME NEW k, NEW old \in RoutableEndpoints, NEW new \in RoutableEndpoints,
           NEW m \in Pairs(k, old), m \notin UnregistrationsFor(k, old, new)
    PROVE  m \in Pairs(k, new)
<1>1. PICK r \in old.routes, ek \in Present(old.endpoints) :
         m = [key |-> k, route |-> r, guid |-> ek[1], net |-> old.endpoints[ek].net]
  BY InMessagesFor DEF Pairs
<1>2. r \in new.routes
  <2>1. m \notin MessagesFor(k, old.routes \ new.routes, old.endpoints,
                             Present(old.endpoints))
    BY DEF UnregistrationsFor
  <2>2. QED
    BY <1>1, <2>1, InMessagesFor
<1>3. ek \notin Unmatched(old.endpoints, new.endpoints)
  <2>1. m \notin MessagesFor(k, old.routes, old.endpoints,
                             Unmatched(old.endpoints, new.endpoints))
    BY DEF UnregistrationsFor
  <2>2. QED
    BY <1>1, <2>1, InMessagesFor
<1>4. PICK ek2 \in Present(new.endpoints) :
         ek2[1] = ek[1] /\ new.endpoints[ek2].net = old.endpoints[ek].net
  <2>1. ek \in EndpointKey
    BY DEF Present
  <2>2. Counterpart(new.endpoints, ek) # Nil
        /\ Counterpart(new.endpoints, ek).net = old.endpoints[ek].net
    BY <1>3 DEF Unmatched, endpointDifferent
  <2>3. CASE new.endpoints[ek] # Nil
    BY <2>1, <2>2, <2>3 DEF Counterpart, Present
  <2>4. CASE new.endpoints[ek] = Nil
    BY <2>1, <2>2, <2>4, FlipFact DEF Counterpart, Present
  <2>5. QED
    BY <2>3, <2>4
<1>5. QED
  BY <1>1, <1>2, <1>4, InMessagesFor DEF Pairs

(* Only pairs of the new entry are registered. *)
LEMMA RegisteredPairs ==
    ASSUME NEW k, NEW old, NEW new, NEW m \in RegistrationsFor(k, old, new)
    PROVE  m \in Pairs(k, new)
  BY InMessagesFor DEF RegistrationsFor, Pairs, Unmatched

(* Every pair of the new entry was one of the old entry or is registered. *)
LEMMA NewPairs ==
    ASSUME NEW k, NEW old \in RoutableEndpoints, NEW new \in RoutableEndpoints,
           NEW m \in Pairs(k, new)
    PROVE  m \in Pairs(k, old) \/ m \in RegistrationsFor(k, old, new)
<1>1. PICK r \in new.routes, ek \in Present(new.endpoints) :
         m = [key |-> k, route |-> r, guid |-> ek[1], net |-> new.endpoints[ek].net]
  BY InMessagesFor DEF Pairs
<1>2. CASE r \notin old.routes
  BY <1>1, <1>2, InMessagesFor DEF RegistrationsFor
<1>3. CASE ek \in Unmatched(new.endpoints, old.endpoints)
  BY <1>1, <1>3, InMessagesFor DEF RegistrationsFor
<1>4. CASE r \in old.routes /\ ek \notin Unmatched(new.endpoints, old.endpoints)
  <2>1. ek \in EndpointKey
    BY DEF Present
  <2>2. Counterpart(old.endpoints, ek) # Nil
        /\ Counterpart(old.endpoints, ek).net = new.endpoints[ek].net
    BY <1>4 DEF Unmatched, endpointDifferent
  <2>3. PICK ek2 \in Present(old.endpoints) :
           ek2[1] = ek[1] /\ old.endpoints[ek2].net = new.endpoints[ek].net
    <3>1. CASE old.endpoints[ek] # Nil
      BY <2>1, <2>2, <3>1 DEF Counterpart, Present
    <3>2. CASE old.endpoints[ek] = Nil
      BY <2>1, <2>2, <3>2, FlipFact DEF Counterpart, Present
    <3>3. QED
      BY <3>1, <3>2
  <2>4. QED
    BY <1>1, <1>4, <2>3, InMessagesFor DEF Pairs
<1>5. QED
  BY <1>2, <1>3, <1>4

(* No pair of the new entry is unregistered: its route stays, and so does  *)
(* an endpoint of the instance at the same address, because the ordinary   *)
(* and the evacuating endpoint of the instance agree.                      *)
LEMMA StayingPairs ==
    ASSUME NEW k, NEW old \in RoutableEndpoints, NEW new \in RoutableEndpoints,
           EntryTwins(new), NEW m \in Pairs(k, new)
    PROVE  m \notin UnregistrationsFor(k, old, new)
<1>1. PICK r \in new.routes, ek \in Present(new.endpoints) :
         m = [key |-> k, route |-> r, guid |-> ek[1], net |-> new.endpoints[ek].net]
  BY InMessagesFor DEF Pairs
<1>2. m \notin MessagesFor(k, old.routes \ new.routes, old.endpoints,
                           Present(old.endpoints))
  BY <1>1, InMessagesFor
<1>3. ASSUME NEW ek2 \in Unmatched(old.endpoints, new.endpoints),
             ek2[1] = ek[1], old.endpoints[ek2].net = new.endpoints[ek].net
      PROVE  FALSE
  <2>1. ek \in EndpointKey /\ ek2 \in EndpointKey /\ new.endpoints[ek] # Nil
    BY DEF Present, Unmatched
  <2>2. ek2 = ek \/ (ek2 = Flip(ek) /\ Flip(ek2) = ek)
    BY <1>3, <2>1, FlipFact
  <2>3. new.endpoints[ek2] # Nil => new.endpoints[ek2].net = new.endpoints[ek].net
    BY <2>1, <2>2 DEF EntryTwins
  <2>4. Counterpart(new.endpoints, ek2) # Nil
        /\ Counterpart(new.endpoints, ek2).net = new.endpoints[ek].net
    BY <2>1, <2>2, <2>3 DEF Counterpart
  <2>5. QED
    BY <1>3, <2>4 DEF Unmatched, endpointDifferent
<1>4. m \notin MessagesFor(k, old.routes, old.endpoints,
                           Unmatched(old.endpoints, new.endpoints))
  BY <1>1, <1>3, InMessagesFor
<1>5. QED
  BY <1>2, <1>4 DEF UnregistrationsFor

--------------------------------------------------------------------------------
(* The same for tables.                                                    *)

(* The zero RoutableEndpoints is an entry. *)
LEMMA ZeroEntryType == ZeroEntry \in RoutableEndpoints
  BY DEF ZeroEntry, RoutableEndpoints, NoEndpoints, ModificationTag

(* Reading a table yields an entry, present or zero. *)
LEMMA LookupType ==
    ASSUME NEW table \in Table, NEW k \in Keys
    PROVE  Lookup(table, k) \in RoutableEndpoints
  BY ZeroEntryType DEF Lookup, Table

(* A pair of the table is a pair of one of its entries. *)
LEMMA InAssociations ==
    ASSUME NEW table, NEW m
    PROVE  m \in Associations(table) <=>
              \E k \in Keys : m \in Pairs(k, Lookup(table, k))
  BY DEF Associations, Pairs

(* A message of a table's change is a message of the change of one of its entries. *)
LEMMA InRegistrations ==
    ASSUME NEW old, NEW new, NEW m
    PROVE  /\ m \in Registrations(old, new) <=>
                \E k \in Keys : m \in RegistrationsFor(k, Lookup(old, k), Lookup(new, k))
           /\ m \in Unregistrations(old, new) <=>
                \E k \in Keys : m \in UnregistrationsFor(k, Lookup(old, k), Lookup(new, k))
  BY DEF Registrations, Unregistrations

(* A message names its key. *)
LEMMA MessageKey ==
    ASSUME NEW k, NEW old, NEW new, NEW m
    PROVE  /\ m \in Pairs(k, new) => m.key = k
           /\ m \in UnregistrationsFor(k, old, new) => m.key = k
  BY InMessagesFor DEF Pairs, UnregistrationsFor

(* One emission turns a set of registrations that mirrors the old table    *)
(* (from below, from above) into one that mirrors the new table.           *)
LEMMA EmissionMirrors ==
    ASSUME NEW old \in Table, NEW new \in Table, Twins(new), NEW R
    PROVE  LET R2 == (R \cup Registrations(old, new)) \ Unregistrations(old, new)
           IN  /\ R \subseteq Associations(old) => R2 \subseteq Associations(new)
               /\ Associations(new) \subseteq R2 \cup (Associations(old) \ R)
<1> DEFINE R2 == (R \cup Registrations(old, new)) \ Unregistrations(old, new)
<1>1. ASSUME R \subseteq Associations(old), NEW m \in R2
      PROVE  m \in Associations(new)
  <2>1. CASE m \in Registrations(old, new)
    BY <2>1, RegisteredPairs, InRegistrations, InAssociations
  <2>2. CASE m \in R
    <3>1. PICK k \in Keys : m \in Pairs(k, Lookup(old, k))
      BY <1>1, <2>2, InAssociations
    <3>2. m \notin UnregistrationsFor(k, Lookup(old, k), Lookup(new, k))
      BY <1>1, InRegistrations
    <3>3. m \in Pairs(k, Lookup(new, k))
      BY <3>1, <3>2, KeptPairs, LookupType
    <3>4. QED
      BY <3>3, InAssociations
  <2>3. QED
    BY <1>1, <2>1, <2>2
<1>2. ASSUME NEW m \in Associations(new), m \in Associations(old) => m \in R
      PROVE  m \in R2
  <2>1. PICK k \in Keys : m \in Pairs(k, Lookup(new, k))
    BY <1>2, InAssociations
  <2>2. m \in R \cup Registrations(old, new)
    BY <1>2, <2>1, NewPairs, LookupType, InAssociations, InRegistrations
  <2>3. m \notin Unregistrations(old, new)
    <3>1. SUFFICES ASSUME NEW k2 \in Keys,
                          m \in UnregistrationsFor(k2, Lookup(old, k2), Lookup(new, k2))
                   PROVE  FALSE
      BY InRegistrations
    <3>2. k2 = k
      BY <2>1, <3>1, MessageKey
    <3>3. EntryTwins(Lookup(new, k))
      BY DEF Twins
    <3>4. QED
      BY <2>1, <3>1, <3>2, <3>3, StayingPairs, LookupType
  <2>4. QED
    BY <2>2, <2>3
<1>3. QED
  BY <1>1, <1>2

--------------------------------------------------------------------------------
(* Every operation yields a well-formed table: of the right type, with     *)
(* twins that agree.                                                       *)

EntryOK(entry) == entry \in RoutableEndpoints /\ EntryTwins(entry)
TableOK(table) == table \in Table /\ Twins(table)

(* The zero entry is well formed. *)
LEMMA ZeroEntryOK == EntryOK(ZeroEntry)
<1>1. \A ek \in EndpointKey : ZeroEntry.endpoints[ek] = Nil
  BY DEF ZeroEntry, NoEndpoints
<1>2. QED
  BY <1>1, ZeroEntryType DEF EntryOK, EntryTwins

(* Reading a well-formed table yields a well-formed entry. *)
LEMMA LookupOK ==
    ASSUME NEW table, TableOK(table), NEW k \in Keys
    PROVE  EntryOK(Lookup(table, k))
  BY LookupType DEF TableOK, EntryOK, Twins

(* A table is well formed when each of its entries is. *)
LEMMA TableFromEntries ==
    ASSUME NEW table, table = [k \in Keys |-> table[k]],
           \A k \in Keys : table[k] = Nil \/ EntryOK(table[k])
    PROVE  TableOK(table)
<1>1. table \in Table
  BY DEF Table, EntryOK
<1>2. ASSUME NEW k \in Keys PROVE EntryTwins(Lookup(table, k))
  BY ZeroEntryOK DEF Lookup, EntryOK
<1>3. QED
  BY <1>1, <1>2, Zenon DEF TableOK, Twins

(* The entries of a well-formed table are well formed. *)
LEMMA EntryFromTable ==
    ASSUME NEW table, TableOK(table), NEW k \in Keys
    PROVE  table[k] = Nil \/ EntryOK(table[k])
  BY DEF TableOK, Table, Twins, EntryOK, Lookup

(* Endpoints that are kept or dropped, but not changed, keep their twins in agreement. *)
LEMMA SameOrFewerEndpoints ==
    ASSUME NEW entry, EntryOK(entry), NEW new \in RoutableEndpoints,
           \A ek \in EndpointKey :
              new.endpoints[ek] = Nil \/ new.endpoints[ek] = entry.endpoints[ek]
    PROVE  EntryOK(new)
  BY FlipFact DEF EntryOK, EntryTwins

(* deleteEntryIfEmpty drops an entry or keeps it as it is. *)
LEMMA deleteEntryIfEmptyOK ==
    ASSUME NEW entry, EntryOK(entry)
    PROVE  deleteEntryIfEmpty(entry) = Nil \/ EntryOK(deleteEntryIfEmpty(entry))
  BY DEF deleteEntryIfEmpty

(* New routes, with or without scaling down, leave the entry well formed. *)
LEMMA WithRoutesOK ==
    ASSUME NEW entry, EntryOK(entry), NEW k \in Keys,
           NEW before, NEW after \in DesiredLRP
    PROVE  EntryOK(WithRoutes(entry, k, before, after))
<1> DEFINE new == WithRoutes(entry, k, before, after)
<1>1. entry \in RoutableEndpoints
  BY DEF EntryOK
<1>2. /\ ScaledDown(entry.endpoints, before, after) \in [EndpointKey -> Endpoint \cup {Nil}]
      /\ \A ek \in EndpointKey :
           \/ ScaledDown(entry.endpoints, before, after)[ek] = Nil
           \/ ScaledDown(entry.endpoints, before, after)[ek] = entry.endpoints[ek]
  BY <1>1 DEF ScaledDown, RoutableEndpoints
<1>3. new \in RoutableEndpoints
  BY <1>2 DEF WithRoutes, RoutableEndpoints, DesiredLRP, ModificationTag
<1>4. \A ek \in EndpointKey :
         new.endpoints[ek] = Nil \/ new.endpoints[ek] = entry.endpoints[ek]
  BY <1>2 DEF WithRoutes
<1>5. QED
  BY <1>3, <1>4, SameOrFewerEndpoints

(* Clearing the routes leaves the entry well formed. *)
LEMMA WithoutRoutesOK ==
    ASSUME NEW entry, EntryOK(entry), NEW after \in DesiredLRP \cup {Nil}
    PROVE  EntryOK(WithoutRoutes(entry, after))
<1> DEFINE new == WithoutRoutes(entry, after)
<1>1. entry \in RoutableEndpoints
  BY DEF EntryOK
<1>2. new \in RoutableEndpoints /\ new.endpoints = entry.endpoints
  BY <1>1, Zenon DEF WithoutRoutes, RoutableEndpoints, DesiredLRP, ModificationTag
<1>3. QED
  BY <1>2, SameOrFewerEndpoints

(* SetRoutes, and so RemoveRoutes, yields a well-formed table. *)
LEMMA SetRoutesOK ==
    ASSUME NEW table, TableOK(table),
           NEW before \in DesiredLRP \cup {Nil}, NEW after \in DesiredLRP \cup {Nil}
    PROVE  TableOK(SetRoutes(table, before, after))
<1> DEFINE new == SetRoutes(table, before, after)
<1>1. new = [k \in Keys |-> new[k]]
  BY DEF SetRoutes
<1>2. ASSUME NEW k \in Keys PROVE new[k] = Nil \/ EntryOK(new[k])
  <2>1. CASE UpdatesRoutes(Lookup(table, k), k, after)
    <3>1. after \in DesiredLRP
      BY <2>1 DEF UpdatesRoutes, HasKey
    <3>2. new[k] = WithRoutes(Lookup(table, k), k, before, after)
      <4>1. ~ClearsRoutes(Lookup(table, k), k, before, after)
        BY <2>1 DEF UpdatesRoutes, ClearsRoutes
      <4>2. QED
        BY <2>1, <4>1 DEF SetRoutes
    <3>3. QED
      BY <3>1, <3>2, LookupOK, WithRoutesOK
  <2>2. CASE ~UpdatesRoutes(Lookup(table, k), k, after)
             /\ ClearsRoutes(Lookup(table, k), k, before, after)
    <3>1. new[k] = deleteEntryIfEmpty(WithoutRoutes(Lookup(table, k), after))
      BY <2>2 DEF SetRoutes
    <3>2. QED
      BY <3>1, LookupOK, WithoutRoutesOK, deleteEntryIfEmptyOK
  <2>3. CASE ~UpdatesRoutes(Lookup(table, k), k, after)
             /\ ~ClearsRoutes(Lookup(table, k), k, before, after)
    <3>1. new[k] = table[k]
      BY <2>3 DEF SetRoutes
    <3>2. QED
      BY <3>1, EntryFromTable
  <2>4. QED
    BY <2>1, <2>2, <2>3
<1>3. QED
  BY <1>1, <1>2, TableFromEntries

(* What the table reads of an instance, whatever other fields its record has. *)
IsInstance(lrp) ==
    /\ lrp.guid \in Guids /\ lrp.evacuating \in BOOLEAN
    /\ lrp.net \in NetInfos /\ lrp.tag \in BBSTag

(* The key of an instance is an EndpointKey. *)
LEMMA KeyType ==
    ASSUME NEW lrp, IsInstance(lrp)
    PROVE  key(lrp) \in EndpointKey
  BY DEF key, IsInstance, EndpointKey

(* AddEndpoint of an instance that agrees with its twin yields a well-formed table. *)
LEMMA AddEndpointOK ==
    ASSUME NEW table, TableOK(table), NEW lrp, IsInstance(lrp),
           \A k \in Keys :
              HasEndpoint(lrp, k) =>
                 LET twin == Lookup(table, k).endpoints[Flip(key(lrp))]
                 IN  twin # Nil => twin.net = lrp.net
    PROVE  TableOK(AddEndpoint(table, lrp))
<1> DEFINE new == AddEndpoint(table, lrp)
           added == [net |-> lrp.net, tag |-> lrp.tag]
<1>1. new = [k \in Keys |-> new[k]]
  BY DEF AddEndpoint
<1>2. added \in Endpoint /\ added # Nil
  BY NilAssumption DEF IsInstance, Endpoint, ModificationTag
<1>3. ASSUME NEW k \in Keys, HasEndpoint(lrp, k),
             new[k] = [Lookup(table, k) EXCEPT !.endpoints[key(lrp)] = added]
      PROVE  EntryOK(new[k])
  <2>1. EntryOK(Lookup(table, k))
    BY LookupOK
  <2>2. new[k] \in RoutableEndpoints
    BY <1>2, <1>3, <2>1, KeyType DEF EntryOK, RoutableEndpoints
  <2>3. /\ new[k].endpoints[key(lrp)] = added
        /\ \A ek \in EndpointKey :
             ek # key(lrp) => new[k].endpoints[ek] = Lookup(table, k).endpoints[ek]
    BY <1>3, <2>1, KeyType DEF EntryOK, RoutableEndpoints
  <2>4. LET twin == Lookup(table, k).endpoints[Flip(key(lrp))]
        IN  twin # Nil => twin.net = added.net
    BY <1>3
  <2>5. ASSUME NEW ek \in EndpointKey,
               new[k].endpoints[ek] # Nil, new[k].endpoints[Flip(ek)] # Nil
        PROVE  new[k].endpoints[ek].net = new[k].endpoints[Flip(ek)].net
    <3>1. CASE ek = key(lrp)
      BY <2>3, <2>4, <2>5, <3>1, FlipFact
    <3>2. CASE Flip(ek) = key(lrp)
      BY <2>3, <2>4, <2>5, <3>2, FlipFact
    <3>3. CASE ek # key(lrp) /\ Flip(ek) # key(lrp)
      BY <2>1, <2>3, <2>5, <3>3, FlipFact DEF EntryOK, EntryTwins
    <3>4. QED
      BY <3>1, <3>2, <3>3
  <2>6. QED
    BY <2>2, <2>5 DEF EntryOK, EntryTwins
<1>4. ASSUME NEW k \in Keys PROVE new[k] = Nil \/ EntryOK(new[k])
  <2>1. CASE HasEndpoint(lrp, k) /\ AcceptsEndpoint(Lookup(table, k), lrp)
    BY <1>3, <2>1 DEF AddEndpoint
  <2>2. CASE ~(HasEndpoint(lrp, k) /\ AcceptsEndpoint(Lookup(table, k), lrp))
    BY <2>2, EntryFromTable DEF AddEndpoint
  <2>3. QED
    BY <2>1, <2>2
<1>5. QED
  BY <1>1, <1>4, TableFromEntries

(* RemoveEndpoint yields a well-formed table. *)
LEMMA RemoveEndpointOK ==
    ASSUME NEW table, TableOK(table), NEW lrp, IsInstance(lrp)
    PROVE  TableOK(RemoveEndpoint(table, lrp))
<1> DEFINE new == RemoveEndpoint(table, lrp)
<1>1. new = [k \in Keys |-> new[k]]
  BY DEF RemoveEndpoint
<1>2. ASSUME NEW k \in Keys PROVE new[k] = Nil \/ EntryOK(new[k])
  <2> DEFINE less == [Lookup(table, k) EXCEPT !.endpoints[key(lrp)] = Nil]
  <2>1. EntryOK(Lookup(table, k))
    BY LookupOK
  <2>2. /\ less \in RoutableEndpoints
        /\ \A ek \in EndpointKey :
             less.endpoints[ek] = Nil \/ less.endpoints[ek] = Lookup(table, k).endpoints[ek]
    BY <2>1, KeyType DEF EntryOK, RoutableEndpoints
  <2>3. EntryOK(less)
    BY <2>1, <2>2, SameOrFewerEndpoints, Zenon
  <2>4. CASE HasEndpoint(lrp, k) /\ RemovesEndpoint(Lookup(table, k), lrp)
    <3>1. new[k] = deleteEntryIfEmpty(less)
      BY <2>4 DEF RemoveEndpoint
    <3>2. QED
      BY <2>3, <3>1, deleteEntryIfEmptyOK
  <2>5. CASE ~(HasEndpoint(lrp, k) /\ RemovesEndpoint(Lookup(table, k), lrp))
    BY <2>5, EntryFromTable DEF RemoveEndpoint
  <2>6. QED
    BY <2>4, <2>5
<1>3. QED
  BY <1>1, <1>2, TableFromEntries

(* Swap of well-formed tables yields a well-formed table. *)
LEMMA SwapOK ==
    ASSUME NEW table, TableOK(table), NEW other, TableOK(other), NEW domains
    PROVE  TableOK(Swap(table, other, domains))
<1> DEFINE new == Swap(table, other, domains)
<1>1. new = [k \in Keys |-> new[k]]
  BY DEF Swap
<1>2. ASSUME NEW k \in Keys PROVE new[k] = Nil \/ EntryOK(new[k])
  <2>1. CASE table[k] = Nil
    BY <2>1, EntryFromTable DEF Swap
  <2>2. CASE table[k] # Nil
    <3> DEFINE merged == mergeUnfreshRoutes(table[k], Lookup(other, k), domains)
    <3>1. EntryOK(table[k]) /\ EntryOK(Lookup(other, k))
      BY <2>2, EntryFromTable, LookupOK
    <3>2. merged \in RoutableEndpoints /\ merged.endpoints = Lookup(other, k).endpoints
      BY <3>1, Zenon DEF mergeUnfreshRoutes, EntryOK, RoutableEndpoints
    <3>3. EntryOK(merged)
      BY <3>1, <3>2, SameOrFewerEndpoints
    <3>4. new[k] = deleteEntryIfEmpty(merged)
      BY <2>2 DEF Swap
    <3>5. QED
      BY <3>3, <3>4, deleteEntryIfEmptyOK
  <2>3. QED
    BY <2>1, <2>2
<1>3. QED
  BY <1>1, <1>2, TableFromEntries

(* The empty table is well formed and has no pairs. *)
LEMMA EmptyTableOK == TableOK(EmptyTable) /\ Associations(EmptyTable) = {}
<1>1. \A k \in Keys : EmptyTable[k] = Nil /\ Lookup(EmptyTable, k) = ZeroEntry
  BY DEF EmptyTable, Lookup
<1>2. EmptyTable = [k \in Keys |-> EmptyTable[k]]
  BY DEF EmptyTable
<1>3. TableOK(EmptyTable)
  BY <1>1, <1>2, TableFromEntries, Zenon
<1>4. ASSUME NEW m \in Associations(EmptyTable) PROVE FALSE
  BY <1>1, <1>4, InAssociations, InMessagesFor DEF Pairs, ZeroEntry
<1>5. QED
  BY <1>3, <1>4

(* A pair is a well-typed registration. *)
LEMMA AssociationsType ==
    ASSUME NEW table \in Table
    PROVE  Associations(table) \subseteq
              [key : Keys, route : Routes, guid : Guids, net : NetInfos]
<1>1. SUFFICES ASSUME NEW k \in Keys, NEW m \in Pairs(k, Lookup(table, k))
               PROVE  m \in [key : Keys, route : Routes, guid : Guids, net : NetInfos]
  BY InAssociations
<1>2. Lookup(table, k) \in RoutableEndpoints
  BY LookupType
<1>3. PICK r \in Lookup(table, k).routes, ek \in Present(Lookup(table, k).endpoints) :
         m = [key |-> k, route |-> r, guid |-> ek[1],
              net |-> Lookup(table, k).endpoints[ek].net]
  BY <1>1, InMessagesFor DEF Pairs
<1>4. ek[1] \in Guids /\ Lookup(table, k).endpoints[ek] \in Endpoint
  BY <1>2, <1>3 DEF Present, EndpointKey, RoutableEndpoints
<1>5. QED
  BY <1>2, <1>3, <1>4 DEF RoutableEndpoints, Endpoint

(* The periodic emission sends exactly the pairs of the table's keys. *)
LEMMA EmitsAssociations ==
    ASSUME NEW table \in Table, NEW keys \in SUBSET Keys
    PROVE  GetRoutingEvents(table, keys) = {m \in Associations(table) : m.key \in keys}
<1>1. ASSUME NEW m \in GetRoutingEvents(table, keys)
      PROVE  m \in Associations(table) /\ m.key \in keys
  <2>1. PICK k \in keys : m \in RegistrationsFor(k, ZeroEntry, Lookup(table, k))
    BY <1>1 DEF GetRoutingEvents
  <2>2. m \in Pairs(k, Lookup(table, k))
    BY <2>1, RegisteredPairs
  <2>3. QED
    BY <2>2, MessageKey, InAssociations, Zenon
<1>2. ASSUME NEW m \in Associations(table), m.key \in keys
      PROVE  m \in GetRoutingEvents(table, keys)
  <2>1. PICK k \in Keys : m \in Pairs(k, Lookup(table, k))
    BY <1>2, InAssociations
  <2>2. k \in keys
    BY <1>2, <2>1, MessageKey
  <2>3. m \notin Pairs(k, ZeroEntry)
    BY InMessagesFor DEF Pairs, ZeroEntry
  <2>4. m \in RegistrationsFor(k, ZeroEntry, Lookup(table, k))
    BY <2>1, <2>3, NewPairs, ZeroEntryType, LookupType
  <2>5. QED
    BY <2>2, <2>4 DEF GetRoutingEvents
<1>3. QED
  BY <1>1, <1>2

(* A pair of the new table is never unregistered by the step to it. *)
LEMMA StayingAssociations ==
    ASSUME NEW old \in Table, NEW new, TableOK(new), NEW m \in Associations(new)
    PROVE  m \notin Unregistrations(old, new)
<1>1. Associations(new) \subseteq
         (Associations(old) \cup Registrations(old, new)) \ Unregistrations(old, new)
  BY EmissionMirrors DEF TableOK
<1>2. QED
  BY <1>1

--------------------------------------------------------------------------------
(* Loops: what a sequence of LRPs or events leaves of a table. *)

(* Every nonempty set of numbers has a least one. *)
LEMMA LeastNumber ==
    ASSUME NEW T \in SUBSET Nat, T # {}
    PROVE  \E n \in T : \A m \in T : n <= m
<1> DEFINE R == {pair \in Nat \X Nat : pair[1] < pair[2]}
<1>1. IsWellFoundedOn(R, Nat)
  BY NatLessThanWellFounded, Zenon DEF OpToRel
<1>2. PICK n \in T : \A m \in T : ~(<<m, n>> \in R)
  <2> HIDE DEF R
  <2> QED
    BY <1>1, WFMin, Zenon
<1>3. \A m \in T : n \in Nat /\ m \in Nat /\ ~(m < n)
  BY <1>2, Zenon
<1>4. QED
  BY <1>3

(* Induction over the elements of a sequence of length N. *)
LEMMA PrefixInduction ==
    ASSUME NEW N \in Nat, NEW Q, 0 \in Q, \A n \in 1..N : n - 1 \in Q => n \in Q
    PROVE  \A n \in 0..N : n \in Q
<1> DEFINE Bad == {n \in 0..N : n \notin Q}
<1>1. ASSUME NEW n \in Bad, \A m \in Bad : n <= m PROVE FALSE
  <2>1. n \in 1..N /\ n \notin Q
    OBVIOUS
  <2>2. n - 1 \notin Bad
    BY <1>1, <2>1
  <2>3. QED
    BY <2>1, <2>2
<1>2. Bad \in SUBSET Nat
  OBVIOUS
<1>3. Bad = {}
  <2> HIDE DEF Bad
  <2> QED
    BY <1>1, <1>2, LeastNumber
<1>4. QED
  BY <1>3

(* f tells the state of a loop of N steps after each of them. *)
IsLoop(f, N, T, t0, step) ==
    /\ f \in [0..N -> T]
    /\ f[0] = t0
    /\ \A n \in 1..N : f[n] = step[n][f[n - 1]]

(* There is such a function, if the steps stay in T. *)
LEMMA LoopExists ==
    ASSUME NEW N \in Nat, NEW T, NEW t0 \in T, NEW step \in [1..N -> [T -> T]]
    PROVE  \E f : IsLoop(f, N, T, t0, step)
<1> DEFINE Solves(f, m) == f[0] = t0 /\ \A n \in 1..m : f[n] = step[n][f[n - 1]]
           Q == {m \in 0..N : \E f \in [0..m -> T] : Solves(f, m)}
<1>1. 0 \in Q
  <2>1. [n \in 0..0 |-> t0] \in [0..0 -> T] /\ Solves([n \in 0..0 |-> t0], 0)
    OBVIOUS
  <2> HIDE DEF Solves
  <2>2. QED
    BY <2>1
<1>2. ASSUME NEW m \in 1..N, m - 1 \in Q PROVE m \in Q
  <2>1. PICK f \in [0..(m - 1) -> T] : Solves(f, m - 1)
    BY <1>2
  <2> DEFINE g == [n \in 0..m |-> IF n = m THEN step[m][f[m - 1]] ELSE f[n]]
  <2>2. step[m][f[m - 1]] \in T
    BY <2>1
  <2>3. g \in [0..m -> T]
    BY <2>1, <2>2
  <2>4. Solves(g, m)
    <3>1. ASSUME NEW n \in 1..m PROVE g[n] = step[n][g[n - 1]]
      BY <2>1
    <3>2. QED
      BY <2>1, <3>1
  <2> HIDE DEF Solves, g
  <2>5. QED
    BY <2>3, <2>4
<1>3. N \in Q
  <2>1. \A m \in 0..N : m \in Q
    <3> HIDE DEF Q
    <3> QED
      BY <1>1, <1>2, PrefixInduction, Zenon
  <2>2. QED
    BY <2>1
<1>4. QED
  BY <1>3 DEF IsLoop

(* f tells what SetAllRoutes has made of t0 after each LRP of a slice. *)
RoutesLoop(f, lrps, T, t0) ==
    /\ f \in [0..Len(lrps) -> T]
    /\ f[0] = t0
    /\ \A n \in 1..Len(lrps) : f[n] = SetRoutes(f[n - 1], Nil, lrps[n])
    /\ SetAllRoutes(t0, lrps) = f[Len(lrps)]

(* There is such a function, if the calls stay in a set T of tables. *)
LEMMA SetAllRoutesLoops ==
    ASSUME NEW D, NEW lrps \in Seq(D), NEW T, NEW t0 \in T,
           \A t \in T, d \in D : SetRoutes(t, Nil, d) \in T
    PROVE  \E f : RoutesLoop(f, lrps, T, t0)
<1> DEFINE N == Len(lrps)
           step == [n \in 1..N |-> [t \in T |-> SetRoutes(t, Nil, lrps[n])]]
           Eq(f) == f = [n \in 0..N |-> IF n = 0 THEN t0 ELSE SetRoutes(f[n - 1], Nil, lrps[n])]
           f == CHOOSE g : Eq(g)
<1>1. N \in Nat /\ \A n \in 1..N : lrps[n] \in D
  OBVIOUS
<1>2. SetAllRoutes(t0, lrps) = f[N]
  BY DEF SetAllRoutes
<1> HIDE DEF N
<1>3. step \in [1..N -> [T -> T]]
  BY <1>1
<1>4. PICK g : IsLoop(g, N, T, t0, step)
  <2> HIDE DEF step, Eq, f
  <2> QED
    BY <1>1, <1>3, LoopExists
<1>5. /\ g \in [0..N -> T] /\ g[0] = t0
      /\ \A n \in 1..N : g[n] = SetRoutes(g[n - 1], Nil, lrps[n])
  <2>1. \A n \in 1..N : g[n - 1] \in T
    BY <1>1, <1>4 DEF IsLoop
  <2>2. QED
    BY <1>4, <2>1, Zenon DEF IsLoop
<1>6. Eq(f)
  <2>1. Eq(g)
    BY <1>1, <1>5
  <2> HIDE DEF Eq
  <2>2. QED
    BY <2>1
<1> HIDE DEF f
<1>7. f[0] = t0 /\ \A n \in 1..N : f[n] = SetRoutes(f[n - 1], Nil, lrps[n])
  BY <1>1, <1>6
<1>8. \A n \in 0..N : f[n] \in T
  <2> DEFINE Q == {n \in 0..N : f[n] \in T}
  <2>1. 0 \in Q /\ \A n \in 1..N : n - 1 \in Q => n \in Q
    BY <1>1, <1>7
  <2>2. \A n \in 0..N : n \in Q
    <3> HIDE DEF Q
    <3> QED
      BY <1>1, <2>1, PrefixInduction, Zenon
  <2>3. QED
    BY <2>2
<1>9. f \in [0..N -> T]
  BY <1>6, <1>8
<1>10. QED
  BY <1>2, <1>7, <1>9 DEF RoutesLoop, N

(* So what SetAllRoutes leaves is in T. *)
LEMMA SetAllRoutesStays ==
    ASSUME NEW D, NEW lrps \in Seq(D), NEW T, NEW t0 \in T,
           \A t \in T, d \in D : SetRoutes(t, Nil, d) \in T
    PROVE  SetAllRoutes(t0, lrps) \in T
<1>1. PICK f : RoutesLoop(f, lrps, T, t0)
  BY SetAllRoutesLoops
<1>2. Len(lrps) \in 0..Len(lrps)
  OBVIOUS
<1>3. QED
  BY <1>1, <1>2 DEF RoutesLoop

(* f tells what AddAllEndpoints has made of t0 after each LRP of a slice. *)
EndpointsLoop(f, lrps, T, t0) ==
    /\ f \in [0..Len(lrps) -> T]
    /\ f[0] = t0
    /\ \A n \in 1..Len(lrps) : f[n] = AddEndpoint(f[n - 1], lrps[n])
    /\ AddAllEndpoints(t0, lrps) = f[Len(lrps)]

(* There is such a function, if the calls stay in a set T of tables. *)
LEMMA AddAllEndpointsLoops ==
    ASSUME NEW D, NEW lrps \in Seq(D), NEW T, NEW t0 \in T,
           \A t \in T, lrp \in D : AddEndpoint(t, lrp) \in T
    PROVE  \E f : EndpointsLoop(f, lrps, T, t0)
<1> DEFINE N == Len(lrps)
           step == [n \in 1..N |-> [t \in T |-> AddEndpoint(t, lrps[n])]]
           Eq(f) == f = [n \in 0..N |-> IF n = 0 THEN t0 ELSE AddEndpoint(f[n - 1], lrps[n])]
           f == CHOOSE g : Eq(g)
<1>1. N \in Nat /\ \A n \in 1..N : lrps[n] \in D
  OBVIOUS
<1>2. AddAllEndpoints(t0, lrps) = f[N]
  BY DEF AddAllEndpoints
<1> HIDE DEF N
<1>3. step \in [1..N -> [T -> T]]
  BY <1>1
<1>4. PICK g : IsLoop(g, N, T, t0, step)
  <2> HIDE DEF step, Eq, f
  <2> QED
    BY <1>1, <1>3, LoopExists
<1>5. /\ g \in [0..N -> T] /\ g[0] = t0
      /\ \A n \in 1..N : g[n] = AddEndpoint(g[n - 1], lrps[n])
  <2>1. \A n \in 1..N : g[n - 1] \in T
    BY <1>1, <1>4 DEF IsLoop
  <2>2. QED
    BY <1>4, <2>1, Zenon DEF IsLoop
<1>6. Eq(f)
  <2>1. Eq(g)
    BY <1>1, <1>5
  <2> HIDE DEF Eq
  <2>2. QED
    BY <2>1
<1> HIDE DEF f
<1>7. f[0] = t0 /\ \A n \in 1..N : f[n] = AddEndpoint(f[n - 1], lrps[n])
  BY <1>1, <1>6
<1>8. \A n \in 0..N : f[n] \in T
  <2> DEFINE Q == {n \in 0..N : f[n] \in T}
  <2>1. 0 \in Q /\ \A n \in 1..N : n - 1 \in Q => n \in Q
    BY <1>1, <1>7
  <2>2. \A n \in 0..N : n \in Q
    <3> HIDE DEF Q
    <3> QED
      BY <1>1, <2>1, PrefixInduction, Zenon
  <2>3. QED
    BY <2>2
<1>9. f \in [0..N -> T]
  BY <1>6, <1>8
<1>10. QED
  BY <1>2, <1>7, <1>9 DEF EndpointsLoop, N

(* So what AddAllEndpoints leaves is in T. *)
LEMMA AddAllEndpointsStays ==
    ASSUME NEW D, NEW lrps \in Seq(D), NEW T, NEW t0 \in T,
           \A t \in T, lrp \in D : AddEndpoint(t, lrp) \in T
    PROVE  AddAllEndpoints(t0, lrps) \in T
<1>1. PICK f : EndpointsLoop(f, lrps, T, t0)
  BY AddAllEndpointsLoops
<1>2. Len(lrps) \in 0..Len(lrps)
  OBVIOUS
<1>3. QED
  BY <1>1, <1>2 DEF EndpointsLoop

(* f tells what ReplayAll has made of t0 after each event. *)
EventsLoop(f, events, T, t0) ==
    /\ f \in [0..Len(events) -> T]
    /\ f[0] = t0
    /\ \A n \in 1..Len(events) : f[n] = HandleEvent(f[n - 1], events[n])
    /\ ReplayAll(t0, events) = f[Len(events)]

(* There is such a function, if the calls stay in a set T of tables. *)
LEMMA ReplayAllLoops ==
    ASSUME NEW E, NEW events \in Seq(E), NEW T, NEW t0 \in T,
           \A t \in T, e \in E : HandleEvent(t, e) \in T
    PROVE  \E f : EventsLoop(f, events, T, t0)
<1> DEFINE N == Len(events)
           step == [n \in 1..N |-> [t \in T |-> HandleEvent(t, events[n])]]
           Eq(f) == f = [n \in 0..N |-> IF n = 0 THEN t0 ELSE HandleEvent(f[n - 1], events[n])]
           f == CHOOSE g : Eq(g)
<1>1. N \in Nat /\ \A n \in 1..N : events[n] \in E
  OBVIOUS
<1>2. ReplayAll(t0, events) = f[N]
  BY DEF ReplayAll
<1> HIDE DEF N
<1>3. step \in [1..N -> [T -> T]]
  BY <1>1
<1>4. PICK g : IsLoop(g, N, T, t0, step)
  <2> HIDE DEF step, Eq, f
  <2> QED
    BY <1>1, <1>3, LoopExists
<1>5. /\ g \in [0..N -> T] /\ g[0] = t0
      /\ \A n \in 1..N : g[n] = HandleEvent(g[n - 1], events[n])
  <2>1. \A n \in 1..N : g[n - 1] \in T
    BY <1>1, <1>4 DEF IsLoop
  <2>2. QED
    BY <1>4, <2>1, Zenon DEF IsLoop
<1>6. Eq(f)
  <2>1. Eq(g)
    BY <1>1, <1>5
  <2> HIDE DEF Eq
  <2>2. QED
    BY <2>1
<1> HIDE DEF f
<1>7. f[0] = t0 /\ \A n \in 1..N : f[n] = HandleEvent(f[n - 1], events[n])
  BY <1>1, <1>6
<1>8. \A n \in 0..N : f[n] \in T
  <2> DEFINE Q == {n \in 0..N : f[n] \in T}
  <2>1. 0 \in Q /\ \A n \in 1..N : n - 1 \in Q => n \in Q
    BY <1>1, <1>7
  <2>2. \A n \in 0..N : n \in Q
    <3> HIDE DEF Q
    <3> QED
      BY <1>1, <2>1, PrefixInduction, Zenon
  <2>3. QED
    BY <2>2
<1>9. f \in [0..N -> T]
  BY <1>6, <1>8
<1>10. QED
  BY <1>2, <1>7, <1>9 DEF EventsLoop, N

(* So what ReplayAll leaves is in T. *)
LEMMA ReplayAllStays ==
    ASSUME NEW E, NEW events \in Seq(E), NEW T, NEW t0 \in T,
           \A t \in T, e \in E : HandleEvent(t, e) \in T
    PROVE  ReplayAll(t0, events) \in T
<1>1. PICK f : EventsLoop(f, events, T, t0)
  BY ReplayAllLoops
<1>2. Len(events) \in 0..Len(events)
  OBVIOUS
<1>3. QED
  BY <1>1, <1>2 DEF EventsLoop

(* An order of a set lists each of its elements once. *)
LEMMA OrderOf ==
    ASSUME NEW S, NEW s \in Orders(S)
    PROVE  /\ s \in Seq(S) /\ \A i \in 1..Len(s) : s[i] \in S
           /\ \A x \in S : \E i \in 1..Len(s) : s[i] = x
           /\ \A i, j \in 1..Len(s) : s[i] = s[j] => i = j
<1>1. PICK n \in Nat : s \in Bijection(1..n, S)
  BY DEF Orders
<1>2. /\ s \in [1..n -> S]
      /\ \A i, j \in 1..n : s[i] = s[j] => i = j
      /\ \A x \in S : \E i \in 1..n : s[i] = x
  BY <1>1 DEF Bijection, Injection, Surjection, IsInjective
<1>3. s \in Seq(S) /\ Len(s) = n
  BY <1>2
<1>4. QED
  BY <1>2, <1>3

--------------------------------------------------------------------------------
(* Tables whose endpoints are at known addresses.                          *)

(* The address of an instance, as nets tells it. *)
Agrees(lrp, nets) == lrp.guid \in DOMAIN nets /\ lrp.net = nets[lrp.guid]

EntryFrom(entry, nets) ==
    \A ek \in EndpointKey :
        entry.endpoints[ek] # Nil =>
            ek[1] \in DOMAIN nets /\ entry.endpoints[ek].net = nets[ek[1]]

(* Tables all of whose endpoints are at the address that nets tells. *)
Tables(nets) == {t \in Table : \A k \in Keys : EntryFrom(Lookup(t, k), nets)}

(* In such a table the two endpoints of an instance agree. *)
LEMMA TablesOK ==
    ASSUME NEW nets, NEW t \in Tables(nets)
    PROVE  TableOK(t)
<1>1. ASSUME NEW k \in Keys PROVE EntryTwins(Lookup(t, k))
  BY FlipFact DEF Tables, EntryFrom, EntryTwins
<1>2. QED
  BY <1>1 DEF Tables, TableOK, Twins

(* The empty table has no endpoints. *)
LEMMA EmptyTableFrom ==
    ASSUME NEW nets
    PROVE  EmptyTable \in Tables(nets)
<1>1. \A k \in Keys : Lookup(EmptyTable, k) = ZeroEntry
  BY DEF EmptyTable, Lookup
<1>2. EntryFrom(ZeroEntry, nets)
  BY DEF EntryFrom, ZeroEntry, NoEndpoints
<1>3. QED
  BY <1>1, <1>2, EmptyTableOK DEF Tables, TableOK

(* Deleting an empty entry changes neither the routes nor the endpoints    *)
(* that reading the key yields.                                            *)
LEMMA LookupDeleted ==
    ASSUME NEW t, NEW k \in Keys, NEW entry \in RoutableEndpoints,
           t[k] = deleteEntryIfEmpty(entry)
    PROVE  Lookup(t, k).routes = entry.routes /\ Lookup(t, k).endpoints = entry.endpoints
  BY NilAssumption DEF deleteEntryIfEmpty, Lookup, ZeroEntry

(* An operation that only keeps or drops endpoints. *)
LEMMA FewerEndpoints ==
    ASSUME NEW nets, NEW t \in Tables(nets), NEW new, TableOK(new),
           \A k \in Keys, ek \in EndpointKey :
              \/ Lookup(new, k).endpoints[ek] = Nil
              \/ Lookup(new, k).endpoints[ek] = Lookup(t, k).endpoints[ek]
    PROVE  new \in Tables(nets)
<1>1. ASSUME NEW k \in Keys PROVE EntryFrom(Lookup(new, k), nets)
  BY DEF Tables, EntryFrom
<1>2. QED
  BY <1>1 DEF Tables, TableOK

(* SetRoutes keeps or drops endpoints. *)
LEMMA SetRoutesFrom ==
    ASSUME NEW nets, NEW t \in Tables(nets),
           NEW before \in DesiredLRP \cup {Nil}, NEW after \in DesiredLRP \cup {Nil}
    PROVE  SetRoutes(t, before, after) \in Tables(nets)
<1> DEFINE new == SetRoutes(t, before, after)
<1>1. TableOK(t) /\ TableOK(new)
  BY TablesOK, SetRoutesOK
<1>2. ASSUME NEW k \in Keys, NEW ek \in EndpointKey
      PROVE  \/ Lookup(new, k).endpoints[ek] = Nil
             \/ Lookup(new, k).endpoints[ek] = Lookup(t, k).endpoints[ek]
  <2> DEFINE old == Lookup(t, k)
  <2>1. old \in RoutableEndpoints
    BY <1>1, LookupType DEF TableOK
  <2>2. CASE UpdatesRoutes(old, k, after)
    <3>1. new[k] = WithRoutes(old, k, before, after)
      <4>1. ~ClearsRoutes(old, k, before, after)
        BY <2>2 DEF UpdatesRoutes, ClearsRoutes
      <4>2. QED
        BY <2>2, <4>1 DEF SetRoutes
    <3>2. Lookup(new, k) \in {ZeroEntry, new[k]}
      BY DEF Lookup
    <3>3. ZeroEntry.endpoints[ek] = Nil
      BY DEF ZeroEntry, NoEndpoints
    <3>4. QED
      BY <2>1, <3>1, <3>2, <3>3 DEF WithRoutes, ScaledDown, RoutableEndpoints
  <2>3. CASE ~UpdatesRoutes(old, k, after) /\ ClearsRoutes(old, k, before, after)
    <3>1. new[k] = deleteEntryIfEmpty(WithoutRoutes(old, after))
      BY <2>3 DEF SetRoutes
    <3>2. /\ WithoutRoutes(old, after) \in RoutableEndpoints
          /\ WithoutRoutes(old, after).endpoints = old.endpoints
      BY <2>1, Zenon DEF WithoutRoutes, RoutableEndpoints, DesiredLRP, ModificationTag
    <3>3. QED
      BY <3>1, <3>2, LookupDeleted
  <2>4. CASE ~UpdatesRoutes(old, k, after) /\ ~ClearsRoutes(old, k, before, after)
    <3>1. new[k] = t[k]
      BY <2>4 DEF SetRoutes
    <3>2. QED
      BY <3>1 DEF Lookup
  <2>5. QED
    BY <2>2, <2>3, <2>4
<1>3. QED
  BY <1>1, <1>2, FewerEndpoints

(* What RemoveEndpoint leaves of an entry: its routes, and its other endpoints. *)
LEMMA RemoveEndpointLeaves ==
    ASSUME NEW t \in Table, NEW lrp, IsInstance(lrp), NEW k \in Keys
    PROVE  LET new == RemoveEndpoint(t, lrp)
           IN  /\ Lookup(new, k).routes = Lookup(t, k).routes
               /\ \A ek \in EndpointKey :
                    \/ Lookup(new, k).endpoints[ek] = Nil
                    \/ Lookup(new, k).endpoints[ek] = Lookup(t, k).endpoints[ek]
<1> DEFINE new == RemoveEndpoint(t, lrp)
           old == Lookup(t, k)
           less == [old EXCEPT !.endpoints[key(lrp)] = Nil]
<1>1. old \in RoutableEndpoints
  BY LookupType
<1>2. CASE new[k] = t[k]
  BY <1>2 DEF Lookup
<1>3. CASE new[k] = deleteEntryIfEmpty(less)
  <2>1. /\ less \in RoutableEndpoints /\ less.routes = old.routes
        /\ \A ek \in EndpointKey :
             less.endpoints[ek] = Nil \/ less.endpoints[ek] = old.endpoints[ek]
    BY <1>1, KeyType DEF RoutableEndpoints
  <2>2. Lookup(new, k).routes = less.routes /\ Lookup(new, k).endpoints = less.endpoints
    <3> HIDE DEF new, less
    <3> QED
      BY <1>3, <2>1, LookupDeleted
  <2>3. QED
    BY <2>1, <2>2
<1>4. QED
  BY <1>2, <1>3, Zenon DEF RemoveEndpoint

(* So it leaves the addresses as they are. *)
LEMMA RemoveEndpointFrom ==
    ASSUME NEW nets, NEW t \in Tables(nets), NEW lrp, IsInstance(lrp)
    PROVE  RemoveEndpoint(t, lrp) \in Tables(nets)
  BY TablesOK, RemoveEndpointOK, RemoveEndpointLeaves, FewerEndpoints DEF TableOK

(* AddEndpoint of an instance at the address that nets tells. *)
LEMMA AddEndpointFrom ==
    ASSUME NEW nets, NEW t \in Tables(nets), NEW lrp, IsInstance(lrp), Agrees(lrp, nets)
    PROVE  AddEndpoint(t, lrp) \in Tables(nets)
<1> DEFINE new == AddEndpoint(t, lrp)
           added == [net |-> lrp.net, tag |-> lrp.tag]
<1>1. TableOK(t) /\ key(lrp) \in EndpointKey /\ key(lrp)[1] = lrp.guid
  BY TablesOK, KeyType DEF key
<1>2. TableOK(new)
  <2>1. ASSUME NEW k \in Keys, Lookup(t, k).endpoints[Flip(key(lrp))] # Nil
        PROVE  Lookup(t, k).endpoints[Flip(key(lrp))].net = lrp.net
    BY <1>1, <2>1, FlipFact DEF Tables, EntryFrom, Agrees
  <2>2. QED
    BY <1>1, <2>1, AddEndpointOK
<1>3. ASSUME NEW k \in Keys PROVE EntryFrom(Lookup(new, k), nets)
  <2>1. Lookup(t, k) \in RoutableEndpoints /\ EntryFrom(Lookup(t, k), nets)
    BY <1>1, LookupType DEF TableOK, Tables
  <2>2. CASE HasEndpoint(lrp, k) /\ AcceptsEndpoint(Lookup(t, k), lrp)
    <3>1. new[k] = [Lookup(t, k) EXCEPT !.endpoints[key(lrp)] = added]
      BY <2>2 DEF AddEndpoint
    <3>2. new[k].endpoints = [Lookup(t, k).endpoints EXCEPT ![key(lrp)] = added]
      BY <2>1, <3>1 DEF RoutableEndpoints
    <3>3. EntryFrom(new[k], nets)
      BY <1>1, <2>1, <3>2 DEF EntryFrom, Agrees, RoutableEndpoints
    <3>4. Lookup(new, k) = new[k] \/ Lookup(new, k) = ZeroEntry
      BY DEF Lookup
    <3>5. EntryFrom(ZeroEntry, nets)
      BY DEF EntryFrom, ZeroEntry, NoEndpoints
    <3>6. QED
      BY <3>3, <3>4, <3>5
  <2>3. CASE ~(HasEndpoint(lrp, k) /\ AcceptsEndpoint(Lookup(t, k), lrp))
    BY <2>1, <2>3 DEF AddEndpoint, Lookup
  <2>4. QED
    BY <2>2, <2>3
<1>4. QED
  BY <1>2, <1>3 DEF TableOK, Tables

(* What Swap leaves under a key: at least the routes and exactly the       *)
(* endpoints of the other table.                                           *)
LEMMA SwapLeaves ==
    ASSUME NEW t \in Table, NEW other \in Table, NEW domains, NEW k \in Keys
    PROVE  LET new == Swap(t, other, domains)
           IN  /\ Lookup(other, k).routes \subseteq Lookup(new, k).routes
               /\ Lookup(new, k).endpoints = Lookup(other, k).endpoints
<1> DEFINE new == Swap(t, other, domains)
           merged == mergeUnfreshRoutes(t[k], Lookup(other, k), domains)
<1>1. CASE t[k] = Nil
  BY <1>1 DEF Swap, Lookup
<1>2. CASE t[k] # Nil
  <2>1. t[k] \in RoutableEndpoints /\ Lookup(other, k) \in RoutableEndpoints
    BY <1>2, LookupType DEF Table
  <2>2. /\ merged \in RoutableEndpoints
        /\ merged.endpoints = Lookup(other, k).endpoints
        /\ Lookup(other, k).routes \subseteq merged.routes
    BY <2>1, Zenon DEF mergeUnfreshRoutes, RoutableEndpoints
  <2>3. new[k] = deleteEntryIfEmpty(merged)
    BY <1>2 DEF Swap
  <2>4. QED
    BY <2>2, <2>3, LookupDeleted
<1>3. QED
  BY <1>1, <1>2

(* So its endpoints are those of the other table. *)
LEMMA SwapFrom ==
    ASSUME NEW nets, NEW t, TableOK(t), NEW other \in Tables(nets), NEW domains
    PROVE  Swap(t, other, domains) \in Tables(nets)
  BY TablesOK, SwapOK, SwapLeaves, FewerEndpoints DEF TableOK

--------------------------------------------------------------------------------
(* Events. *)

(* Events about instances at the addresses that nets tells. *)
EventsFrom(nets) ==
    {e \in Event :
        /\ e.before # Nil \/ e.after # Nil
        /\ e.type = "actual" =>
              \A lrp \in {e.before, e.after} : lrp # Nil => Agrees(lrp, nets)}

(* A record of the BBS is an instance. *)
LEMMA InstanceLRPIsInstance ==
    ASSUME NEW lrp \in InstanceLRP
    PROVE  IsInstance(lrp)
  BY DEF InstanceLRP, IsInstance

(* What the handler reads of an event. *)
LEMMA EventFields ==
    ASSUME NEW nets, NEW e \in EventsFrom(nets)
    PROVE  \/ /\ e.type = "desired"
              /\ e.before \in DesiredLRP \cup {Nil} /\ e.after \in DesiredLRP \cup {Nil}
           \/ /\ e.type = "actual"
              /\ e.before # Nil => e.before \in InstanceLRP /\ Agrees(e.before, nets)
              /\ e.after # Nil => e.after \in InstanceLRP /\ Agrees(e.after, nets)
              /\ e.before # Nil \/ e.after # Nil
<1>1. CASE e \in [type : {"desired"}, before : DesiredLRP \cup {Nil},
                  after : DesiredLRP \cup {Nil}]
  BY <1>1
<1>2. CASE e \in [type : {"actual"}, before : InstanceLRP \cup {Nil},
                  after : InstanceLRP \cup {Nil}]
  BY <1>2 DEF EventsFrom
<1>3. QED
  BY <1>1, <1>2 DEF EventsFrom, Event

(* Neither call of HandleEvent leaves the addresses that nets tells. *)
LEMMA FirstCallFrom ==
    ASSUME NEW nets, NEW t \in Tables(nets), NEW e \in EventsFrom(nets)
    PROVE  FirstCall(t, e) \in Tables(nets)
<1>1. CASE e.type = "desired"
  <2>1. FirstCall(t, e) = SetRoutes(t, e.before, e.after)
    BY <1>1 DEF FirstCall, handleDesired
  <2>2. e.before \in DesiredLRP \cup {Nil} /\ e.after \in DesiredLRP \cup {Nil}
    BY <1>1, EventFields
  <2>3. QED
    BY <2>1, <2>2, SetRoutesFrom
<1>2. CASE e.type = "actual"
  <2>1. /\ e.before # Nil => IsInstance(e.before) /\ Agrees(e.before, nets)
        /\ e.after # Nil => IsInstance(e.after) /\ Agrees(e.after, nets)
        /\ e.before # Nil \/ e.after # Nil
    BY <1>2, EventFields, InstanceLRPIsInstance
  <2>2. /\ e.before # Nil => RemoveEndpoint(t, e.before) \in Tables(nets)
        /\ e.after # Nil => /\ AddEndpoint(t, e.after) \in Tables(nets)
                            /\ RemoveEndpoint(t, e.after) \in Tables(nets)
    BY <2>1, AddEndpointFrom, RemoveEndpointFrom
  <2>3. CASE e.before = Nil
    <3>1. FirstCall(t, e) = handleActualCreate(t, e.after)
      BY <1>2, <2>1, <2>3 DEF FirstCall
    <3>2. QED
      BY <2>1, <2>2, <2>3, <3>1 DEF handleActualCreate
  <2>4. CASE e.before # Nil /\ e.after = Nil
    <3>1. FirstCall(t, e) = handleActualDelete(t, e.before)
      BY <1>2, <2>4 DEF FirstCall
    <3>2. QED
      BY <2>2, <2>4, <3>1 DEF handleActualDelete
  <2>5. CASE e.before # Nil /\ e.after # Nil
    <3>1. FirstCall(t, e) = UpdateEndpoint(t, e.before, e.after)
      BY <1>2, <2>5 DEF FirstCall
    <3>2. UpdateEndpoint(t, e.before, e.after) \in
             {AddEndpoint(t, e.after), RemoveEndpoint(t, e.after),
              RemoveEndpoint(t, e.before), t}
      BY DEF UpdateEndpoint
    <3>3. QED
      BY <2>2, <2>5, <3>1, <3>2
  <2>6. QED
    BY <2>3, <2>4, <2>5
<1>3. QED
  BY <1>1, <1>2, EventFields

(* The second call, if there is one, is a RemoveEndpoint. *)
LEMMA SecondCall ==
    ASSUME NEW nets, NEW t, NEW e \in EventsFrom(nets)
    PROVE  \/ HandleEvent(t, e) = FirstCall(t, e)
           \/ /\ HandleEvent(t, e) = RemoveEndpoint(FirstCall(t, e), e.before)
              /\ IsInstance(e.before)
<1>1. CASE IsActualUpdate(e)
  <2>1. IsInstance(e.before)
    BY <1>1, EventFields, InstanceLRPIsInstance DEF IsActualUpdate
  <2>2. QED
    BY <1>1, <2>1 DEF HandleEvent, RemoveEvacuated
<1>2. CASE ~IsActualUpdate(e)
  BY <1>2 DEF HandleEvent
<1>3. QED
  BY <1>1, <1>2

(* An event leaves the addresses that nets tells. *)
LEMMA HandleEventFrom ==
    ASSUME NEW nets, NEW t \in Tables(nets), NEW e \in EventsFrom(nets)
    PROVE  HandleEvent(t, e) \in Tables(nets)
  BY FirstCallFrom, SecondCall, RemoveEndpointFrom

(* A step that keeps or drops routes and endpoints registers nothing. *)
LEMMA NothingRegistered ==
    ASSUME NEW old \in Table, NEW new \in Table,
           \A k \in Keys :
              /\ Lookup(new, k).routes \subseteq Lookup(old, k).routes
              /\ \A ek \in EndpointKey :
                   \/ Lookup(new, k).endpoints[ek] = Nil
                   \/ Lookup(new, k).endpoints[ek] = Lookup(old, k).endpoints[ek]
    PROVE  Registrations(old, new) = {}
<1>1. ASSUME NEW k \in Keys, NEW m \in RegistrationsFor(k, Lookup(old, k), Lookup(new, k))
      PROVE  FALSE
  <2> DEFINE o == Lookup(old, k)
             n == Lookup(new, k)
  <2>1. n.routes \ o.routes = {}
    OBVIOUS
  <2>2. ASSUME NEW ek \in Unmatched(n.endpoints, o.endpoints) PROVE FALSE
    <3>1. ek \in EndpointKey /\ n.endpoints[ek] # Nil
      BY DEF Unmatched, Present
    <3>2. o.endpoints[ek] = n.endpoints[ek]
      BY <3>1
    <3>3. QED
      BY <2>2, <3>1, <3>2 DEF Unmatched, Counterpart, endpointDifferent
  <2>3. QED
    BY <1>1, <2>1, <2>2, InMessagesFor DEF RegistrationsFor
<1>2. QED
  BY <1>1, InRegistrations

(* The messages of the two calls of an event, merged into one emission,    *)
(* bring routers that mirror the table to mirror what the event leaves of  *)
(* it: the second call registers nothing, so no registration of it can be  *)
(* lost to an unregistration of the first.                                 *)
LEMMA EventMirrors ==
    ASSUME NEW nets, NEW t \in Tables(nets), NEW e \in EventsFrom(nets), NEW R
    PROVE  LET R2 == emitMessages(R, EventRegistrations(t, e), EventUnregistrations(t, e))
               new == HandleEvent(t, e)
           IN  /\ R \subseteq Associations(t) => R2 \subseteq Associations(new)
               /\ Associations(new) \subseteq R2 \cup (Associations(t) \ R)
<1> DEFINE first == FirstCall(t, e)
           new == HandleEvent(t, e)
           R1 == (R \cup Registrations(t, first)) \ Unregistrations(t, first)
           R2 == (R1 \cup Registrations(first, new)) \ Unregistrations(first, new)
<1>1. TableOK(t) /\ TableOK(first) /\ TableOK(new)
  BY FirstCallFrom, HandleEventFrom, TablesOK
<1>2. Registrations(first, new) = {}
  <2>1. CASE new = first
    <3> HIDE DEF new, first
    <3> QED
      BY <1>1, <2>1, NothingRegistered DEF TableOK
  <2>2. CASE new = RemoveEndpoint(first, e.before) /\ IsInstance(e.before)
    <3> HIDE DEF new, first
    <3> QED
      BY <1>1, <2>2, RemoveEndpointLeaves, NothingRegistered DEF TableOK
  <2>3. QED
    BY <2>1, <2>2, SecondCall
<1>3. emitMessages(R, EventRegistrations(t, e), EventUnregistrations(t, e)) = R2
  BY <1>2 DEF emitMessages, EventRegistrations, EventUnregistrations
<1>4. /\ R \subseteq Associations(t) => R1 \subseteq Associations(first)
      /\ Associations(first) \subseteq R1 \cup (Associations(t) \ R)
  BY <1>1, EmissionMirrors DEF TableOK
<1>5. /\ R1 \subseteq Associations(first) => R2 \subseteq Associations(new)
      /\ Associations(new) \subseteq R2 \cup (Associations(first) \ R1)
  BY <1>1, EmissionMirrors DEF TableOK
<1>6. QED
  BY <1>3, <1>4, <1>5

--------------------------------------------------------------------------------
(* The table of a sync. *)

(* Whatever the BBS answered, newTable has endpoints only at the addresses *)
(* of the instances in the answer and in the cached events.                *)
LEMMA newTableFrom ==
    ASSUME NEW nets, NEW D \in Seq(DesiredLRP), NEW C \in Seq(DesiredLRP),
           NEW A \in Seq({lrp \in InstanceLRP : Agrees(lrp, nets)}),
           NEW events \in Seq(EventsFrom(nets))
    PROVE  newTable(D, C, A, events) \in Tables(nets)
<1> PICK T, I : T = Tables(nets) /\ I = {lrp \in InstanceLRP : Agrees(lrp, nets)}
  BY Zenon
<1>1. \A t \in T, d \in DesiredLRP : SetRoutes(t, Nil, d) \in T
  BY SetRoutesFrom, Zenon
<1>2. \A t \in T, lrp \in I : AddEndpoint(t, lrp) \in T
  BY AddEndpointFrom, InstanceLRPIsInstance
<1>3. \A t \in T, e \in EventsFrom(nets) : HandleEvent(t, e) \in T
  BY HandleEventFrom
<1>4. ASSUME NEW t \in T, NEW lrps \in Seq(DesiredLRP)
      PROVE  SetAllRoutes(t, lrps) \in T
  BY <1>1, SetAllRoutesStays
<1>5. ASSUME NEW t \in T PROVE AddAllEndpoints(t, A) \in T
  BY <1>2, AddAllEndpointsStays
<1>6. ASSUME NEW t \in T PROVE ReplayAll(t, events) \in T
  BY <1>3, ReplayAllStays
<1>7. QED
  BY <1>4, <1>5, <1>6, EmptyTableFrom DEF newTable

--------------------------------------------------------------------------------
(* What a slice of LRPs leaves in an entry.                                 *)

(* Slices in which no process, or no instance, comes twice. *)
OfDifferentProcesses(lrps) ==
    \A i, j \in 1..Len(lrps) : lrps[i].process = lrps[j].process => i = j

OfDifferentInstances(lrps) ==
    \A i, j \in 1..Len(lrps) : lrps[i].guid = lrps[j].guid => i = j

(* SetAllRoutes of LRPs of different processes leaves the entry of each    *)
(* key that one of them has routes for as that LRP alone makes it.         *)
LEMMA SetAllRoutesYields ==
    ASSUME NEW lrps \in Seq(DesiredLRP),
           OfDifferentProcesses(lrps),
           NEW m \in 1..Len(lrps), NEW d, d = lrps[m],
           NEW k \in Keys, k.process = d.process, d.routes[k] # {}
    PROVE  SetAllRoutes(EmptyTable, lrps)[k] = WithRoutes(ZeroEntry, k, Nil, d)
<1> PICK entry, T : entry = WithRoutes(ZeroEntry, k, Nil, d) /\ T = Tables(<<>>)
  BY Zenon
<1> PICK N : N = Len(lrps)
  BY Zenon
<1>0. N \in Nat /\ \A n \in 1..N : lrps[n] \in DesiredLRP
  OBVIOUS
<1>1. EmptyTable \in T /\ \A t \in T, x \in DesiredLRP : SetRoutes(t, Nil, x) \in T
  BY EmptyTableFrom, SetRoutesFrom, Zenon
<1>2. PICK f : RoutesLoop(f, lrps, T, EmptyTable)
  BY <1>1, SetAllRoutesLoops
<1> DEFINE Q == {n \in 0..N : f[n][k] = IF n < m THEN Nil ELSE entry}
<1>3. 0 \in Q
  BY <1>0, <1>2 DEF RoutesLoop, EmptyTable
<1>4. ASSUME NEW n \in 1..N, n - 1 \in Q
      PROVE  n \in Q
  <2> PICK x, t : x = lrps[n] /\ t = f[n - 1]
    BY Zenon
  <2>1. x \in DesiredLRP /\ f[n] = SetRoutes(t, Nil, x)
    BY <1>0, <1>2 DEF RoutesLoop
  <2>2. t[k] = IF n <= m THEN Nil ELSE entry
    BY <1>4
  <2>3. CASE n = m
    <3>1. x = d /\ Lookup(t, k) = ZeroEntry /\ ZeroEntry.tag.epoch = Nil
      BY <2>2, <2>3 DEF Lookup, ZeroEntry, NilTag
    <3>2. d # Nil
      BY <2>1, <3>1, NilAssumption
    <3>3. UpdatesRoutes(ZeroEntry, k, d) /\ ~ClearsRoutes(ZeroEntry, k, Nil, d)
      BY <3>1, <3>2 DEF UpdatesRoutes, ClearsRoutes, HasKey, SucceededBy
    <3>4. f[n][k] = entry
      BY <2>1, <3>1, <3>3 DEF SetRoutes
    <3>5. QED
      BY <2>3, <3>4
  <2>4. CASE n # m
    <3>1. x.process # k.process
      BY <2>4 DEF OfDifferentProcesses
    <3>2. x.routes[k] = {}
      BY <2>1, <3>1, Zenon DEF DesiredLRP
    <3>3. ~UpdatesRoutes(Lookup(t, k), k, x) /\ ~ClearsRoutes(Lookup(t, k), k, Nil, x)
      BY <3>2, Zenon DEF UpdatesRoutes, ClearsRoutes, HasKey
    <3>4. f[n][k] = t[k]
      BY <2>1, <3>3 DEF SetRoutes
    <3>5. QED
      BY <2>2, <2>4, <3>4
  <2>5. QED
    BY <2>3, <2>4, Zenon
<1>5. \A n \in 0..N : n \in Q
  <2> HIDE DEF Q
  <2>1. QED
    BY <1>0, <1>3, <1>4, PrefixInduction, Zenon
<1>6. f[N][k] = entry
  BY <1>0, <1>5
<1>7. QED
  BY <1>2, <1>6 DEF RoutesLoop

(* The entry old with the endpoint of an instance. *)
Gained(new, old, lrp) ==
    /\ new \in RoutableEndpoints
    /\ new.routes = old.routes
    /\ new.desiredInstances = old.desiredInstances
    /\ new.endpoints = [old.endpoints EXCEPT
                          ![key(lrp)] = [net |-> lrp.net, tag |-> lrp.tag]]

(* What AddEndpoint makes of an entry. *)
LEMMA AddEndpointYields ==
    ASSUME NEW t \in Table, NEW lrp \in InstanceLRP, NEW k \in Keys,
           t[k] \in RoutableEndpoints
    PROVE  \/ /\ ~(HasEndpoint(lrp, k) /\ AcceptsEndpoint(t[k], lrp))
              /\ AddEndpoint(t, lrp)[k] = t[k]
           \/ Gained(AddEndpoint(t, lrp)[k], t[k], lrp)
<1> PICK old, added : old = t[k] /\ added = [net |-> lrp.net, tag |-> lrp.tag]
  BY Zenon
<1>1. Lookup(t, k) = old
  BY NilAssumption DEF Lookup
<1>2. CASE ~(HasEndpoint(lrp, k) /\ AcceptsEndpoint(old, lrp))
  BY <1>1, <1>2 DEF AddEndpoint
<1>3. CASE HasEndpoint(lrp, k) /\ AcceptsEndpoint(old, lrp)
  <2>1. AddEndpoint(t, lrp)[k] = [old EXCEPT !.endpoints[key(lrp)] = added]
    BY <1>1, <1>3 DEF AddEndpoint
  <2>2. added \in Endpoint /\ key(lrp) \in EndpointKey
    BY KeyType, InstanceLRPIsInstance DEF InstanceLRP, Endpoint, ModificationTag
  <2> PICK new : new = [old EXCEPT !.endpoints[key(lrp)] = added]
    BY Zenon
  <2>3. /\ new \in RoutableEndpoints /\ new.routes = old.routes
        /\ new.desiredInstances = old.desiredInstances
        /\ new.endpoints = [old.endpoints EXCEPT ![key(lrp)] = added]
    BY <2>2 DEF RoutableEndpoints
  <2>4. QED
    BY <2>1, <2>3 DEF Gained
<1>4. QED
  BY <1>2, <1>3

(* An entry with these routes and instance count and this endpoint at ek. *)
Carries(entry, routes, count, ek, endpoint) ==
    /\ entry \in RoutableEndpoints
    /\ entry.routes = routes
    /\ entry.desiredInstances = count
    /\ entry.endpoints[ek] = endpoint

(* AddEndpoint leaves the endpoints of other instances as they are. *)
LEMMA AddEndpointSpares ==
    ASSUME NEW t \in Table, NEW lrp \in InstanceLRP, NEW k \in Keys, NEW routes, NEW count,
           NEW ek \in EndpointKey, ek # key(lrp), NEW endpoint,
           Carries(t[k], routes, count, ek, endpoint)
    PROVE  Carries(AddEndpoint(t, lrp)[k], routes, count, ek, endpoint)
<1>1. CASE AddEndpoint(t, lrp)[k] = t[k]
  BY <1>1
<1>2. CASE Gained(AddEndpoint(t, lrp)[k], t[k], lrp)
  <2>1. t[k].endpoints \in [EndpointKey -> Endpoint \cup {Nil}]
    BY DEF Carries, RoutableEndpoints
  <2>2. QED
    BY <1>2, <2>1 DEF Carries, Gained
<1>3. QED
  BY <1>1, <1>2, AddEndpointYields DEF Carries

(* AddEndpoint adds the endpoint of an instance there is room for. *)
LEMMA AddEndpointAdds ==
    ASSUME NEW t \in Table, NEW lrp \in InstanceLRP, NEW k \in Keys, NEW routes, NEW count,
           HasEndpoint(lrp, k), IndexOf[lrp.guid] < count,
           Carries(t[k], routes, count, key(lrp), Nil)
    PROVE  Carries(AddEndpoint(t, lrp)[k], routes, count, key(lrp),
                   [net |-> lrp.net, tag |-> lrp.tag])
<1>1. AcceptsEndpoint(t[k], lrp)
  BY DEF AcceptsEndpoint, Carries
<1>2. Gained(AddEndpoint(t, lrp)[k], t[k], lrp)
  BY <1>1, AddEndpointYields DEF Carries
<1>3. key(lrp) \in EndpointKey /\ t[k].endpoints \in [EndpointKey -> Endpoint \cup {Nil}]
  BY KeyType, InstanceLRPIsInstance DEF Carries, RoutableEndpoints
<1>4. QED
  BY <1>2, <1>3 DEF Carries, Gained

(* AddAllEndpoints of different instances adds the endpoint of each one    *)
(* that an entry without endpoints has room for, and leaves the routes.    *)
LEMMA AddAllEndpointsYields ==
    ASSUME NEW nets, NEW t0 \in Tables(nets),
           NEW lrps \in Seq({a \in InstanceLRP : Agrees(a, nets)}),
           OfDifferentInstances(lrps),
           NEW m \in 1..Len(lrps), NEW k \in Keys, HasEndpoint(lrps[m], k),
           NEW routes, NEW count, Carries(t0[k], routes, count, key(lrps[m]), Nil),
           IndexOf[lrps[m].guid] < count
    PROVE  Carries(AddAllEndpoints(t0, lrps)[k], routes, count, key(lrps[m]),
                   [net |-> lrps[m].net, tag |-> lrps[m].tag])
<1> PICK lrp, added, ek : lrp = lrps[m] /\ added = [net |-> lrp.net, tag |-> lrp.tag]
                          /\ ek = key(lrp)
  BY Zenon
<1>0. Len(lrps) \in Nat
  OBVIOUS
<1>1. PICK T, A : /\ T = Tables(nets) /\ A = {a \in InstanceLRP : Agrees(a, nets)}
  BY Zenon
<1>2. PICK f : EndpointsLoop(f, lrps, T, t0)
  <2>1. t0 \in T /\ \A t \in T, x \in A : AddEndpoint(t, x) \in T
    BY <1>1, AddEndpointFrom, InstanceLRPIsInstance
  <2>2. lrps \in Seq(A)
    BY <1>1, Zenon
  <2>3. QED
    BY <2>1, <2>2, AddAllEndpointsLoops
<1>3. ek \in EndpointKey
  BY KeyType, InstanceLRPIsInstance
<1> DEFINE Holds(n) == Carries(f[n][k], routes, count, ek, IF n < m THEN Nil ELSE added)
           Q == {n \in 0..Len(lrps) : Holds(n)}
<1>4. 0 \in Q
  BY <1>0, <1>2 DEF EndpointsLoop
<1>5. ASSUME NEW n \in 1..Len(lrps), Holds(n - 1)
      PROVE  Holds(n)
  <2> PICK x, t : x = lrps[n] /\ t = f[n - 1]
    BY Zenon
  <2>1. f[n] = AddEndpoint(t, x) /\ t \in Table /\ x \in InstanceLRP
    BY <1>0, <1>1, <1>2 DEF EndpointsLoop, Tables
  <2>2. CASE n = m
    <3>1. Carries(t[k], routes, count, ek, Nil)
      BY <1>5, <2>2
    <3>2. Carries(f[n][k], routes, count, ek, added)
      BY <2>1, <2>2, <3>1, AddEndpointAdds, Zenon
    <3>3. QED
      BY <2>2, <3>2
  <2>3. CASE n # m
    <3>1. key(x) # ek
      BY <2>3 DEF key, OfDifferentInstances
    <3>2. (n < m) = (n - 1 < m)
      BY <2>3
    <3>3. Carries(t[k], routes, count, ek, IF n < m THEN Nil ELSE added)
      BY <1>5, <3>2, Zenon
    <3>4. QED
      BY <1>3, <2>1, <3>1, <3>3, AddEndpointSpares, Zenon
  <2>4. QED
    BY <2>2, <2>3
<1>6. \A n \in 0..Len(lrps) : n \in Q
  <2>1. \A n \in 1..Len(lrps) : n - 1 \in Q => n \in Q
    <3> HIDE DEF Holds
    <3> QED
      BY <1>0, <1>5
  <2> HIDE DEF Q
  <2>2. QED
    BY <1>0, <1>4, <2>1, PrefixInduction, Zenon
<1>7. Holds(Len(lrps))
  BY <1>0, <1>6
<1>8. QED
  BY <1>0, <1>2, <1>7 DEF EndpointsLoop

(* A table made of such slices has each wanted pair. *)
LEMMA TableOfAnswers ==
    ASSUME NEW nets, NEW ds \in Seq(DesiredLRP),
           OfDifferentProcesses(ds),
           NEW as \in Seq({a \in InstanceLRP : Agrees(a, nets)}),
           OfDifferentInstances(as),
           NEW m \in 1..Len(ds), NEW d \in DesiredLRP, d = ds[m],
           NEW n \in 1..Len(as), NEW lrp \in InstanceLRP, lrp = as[n],
           NEW k \in Keys, k.process = d.process, d.process = ProcessOf[lrp.guid],
           IndexOf[lrp.guid] < d.instances, d.routes[k] # {}
    PROVE  Carries(AddAllEndpoints(SetAllRoutes(EmptyTable, ds), as)[k],
                   d.routes[k], d.instances, key(lrp), [net |-> lrp.net, tag |-> lrp.tag])
<1> PICK t1 : t1 = SetAllRoutes(EmptyTable, ds)
  BY Zenon
<1>1. t1[k] = WithRoutes(ZeroEntry, k, Nil, d)
  BY SetAllRoutesYields, Zenon
<1>2. /\ t1[k].routes = d.routes[k] /\ t1[k].endpoints = NoEndpoints
      /\ t1[k].desiredInstances = d.instances
  BY <1>1 DEF WithRoutes, ScaledDown, ZeroEntry
<1>3. t1 \in Tables(nets)
  <2> PICK T : T = Tables(nets)
    BY Zenon
  <2>1. EmptyTable \in T /\ \A t \in T, x \in DesiredLRP : SetRoutes(t, Nil, x) \in T
    BY EmptyTableFrom, SetRoutesFrom, Zenon
  <2>2. QED
    BY <2>1, SetAllRoutesStays
<1>4. t1[k] \in RoutableEndpoints
  BY <1>1, WithRoutesOK, ZeroEntryOK DEF EntryOK
<1>5. Carries(t1[k], d.routes[k], d.instances, key(lrp), Nil)
  <2>1. key(lrp) \in EndpointKey
    BY KeyType, InstanceLRPIsInstance, Zenon
  <2>2. t1[k].endpoints[key(lrp)] = Nil
    BY <1>2, <2>1 DEF NoEndpoints
  <2>3. QED
    BY <1>2, <1>4, <2>2, Zenon DEF Carries
<1>6. HasEndpoint(lrp, k)
  BY DEF HasEndpoint
<1>7. QED
  BY <1>3, <1>5, <1>6, AddAllEndpointsYields, Zenon

(* What a swapped-in entry carries, the table that results registers. *)
LEMMA SwapRegisters ==
    ASSUME NEW old \in Table, NEW new \in Table, NEW domains, NEW k \in Keys,
           NEW lrp \in InstanceLRP, NEW routes, NEW count, NEW r \in routes,
           Carries(new[k], routes, count, key(lrp), [net |-> lrp.net, tag |-> lrp.tag])
    PROVE  [key |-> k, route |-> r, guid |-> lrp.guid, net |-> lrp.net]
              \in Associations(Swap(old, new, domains))
<1> PICK swapped, entry : swapped = Swap(old, new, domains) /\ entry = Lookup(swapped, k)
  BY Zenon
<1>1. Lookup(new, k) = new[k]
  BY NilAssumption DEF Lookup, Carries
<1>2. routes \subseteq entry.routes /\ entry.endpoints = new[k].endpoints
  BY <1>1, SwapLeaves DEF Carries
<1>3. /\ key(lrp) \in EndpointKey /\ key(lrp)[1] = lrp.guid
      /\ [net |-> lrp.net, tag |-> lrp.tag] # Nil
  <2>1. [net |-> lrp.net, tag |-> lrp.tag] \in Endpoint
    BY DEF InstanceLRP, Endpoint, ModificationTag
  <2>2. QED
    BY <2>1, KeyType, InstanceLRPIsInstance, NilAssumption DEF key
<1>4. /\ r \in entry.routes /\ key(lrp) \in Present(entry.endpoints)
      /\ entry.endpoints[key(lrp)].net = lrp.net
  BY <1>2, <1>3 DEF Carries, Present
<1> PICK ek : ek = key(lrp)
  BY Zenon
<1>5. [key |-> k, route |-> r, guid |-> ek[1], net |-> entry.endpoints[ek].net]
        \in Pairs(k, entry)
  <2> PICK rs, eps : rs = entry.routes /\ eps = entry.endpoints
    BY Zenon
  <2>1. r \in rs /\ ek \in Present(eps)
    BY <1>4, Zenon
  <2>2. QED
    BY <2>1, InMessagesFor DEF Pairs
<1>6. [key |-> k, route |-> r, guid |-> lrp.guid, net |-> lrp.net] \in Pairs(k, entry)
  BY <1>3, <1>4, <1>5, Zenon
<1>7. QED
  BY <1>6, InAssociations

(* A table registers instances whose address is known. *)
LEMMA KnownInstances ==
    ASSUME NEW nets, NEW t \in Tables(nets), NEW m \in Associations(t)
    PROVE  m.guid \in DOMAIN nets
<1>1. PICK k \in Keys : m \in Pairs(k, Lookup(t, k))
  BY InAssociations
<1>2. PICK ek \in Present(Lookup(t, k).endpoints) : m.guid = ek[1]
  BY <1>1, InMessagesFor DEF Pairs
<1>3. QED
  BY <1>2 DEF Tables, EntryFrom, Present

(* A sequence over a set is one over a larger set. *)
LEMMA SeqGrows ==
    ASSUME NEW S, NEW T, S \subseteq T, NEW s \in Seq(S)
    PROVE  s \in Seq(T)
  OBVIOUS

(* An order of a set is a sequence over each larger set. *)
LEMMA OrderGrows ==
    ASSUME NEW S, NEW T, S \subseteq T, NEW s \in Orders(S)
    PROVE  s \in Seq(T)
  BY OrderOf, SeqGrows

(* An element of a set has a place in each order of the set. *)
LEMMA InOrder ==
    ASSUME NEW S, NEW s \in Orders(S), NEW x \in S
    PROVE  \E i \in 1..Len(s) : s[i] = x
  BY OrderOf

(* Sets in which no process, or no instance, comes twice. *)
OneOfEachProcess(D) == \A a, b \in D : a.process = b.process => a = b

OneOfEachInstance(A) == \A a, b \in A : a.guid = b.guid => a = b

(* Orders of LRPs of which no two are of one process, or of one instance. *)
LEMMA OrderOfProcesses ==
    ASSUME NEW D \in SUBSET DesiredLRP, OneOfEachProcess(D),
           NEW ds \in Orders(D)
    PROVE  ds \in Seq(DesiredLRP) /\ OfDifferentProcesses(ds)
<1>1. /\ ds \in Seq(D) /\ \A i \in 1..Len(ds) : ds[i] \in D
      /\ \A i, j \in 1..Len(ds) : ds[i] = ds[j] => i = j
  BY OrderOf
<1>2. QED
  BY <1>1, SeqGrows DEF OfDifferentProcesses, OneOfEachProcess

LEMMA OrderOfInstances ==
    ASSUME NEW B, NEW A \in SUBSET B, OneOfEachInstance(A),
           NEW as \in Orders(A)
    PROVE  as \in Seq(B) /\ OfDifferentInstances(as)
<1>1. /\ as \in Seq(A) /\ \A i \in 1..Len(as) : as[i] \in A
      /\ \A i, j \in 1..Len(as) : as[i] = as[j] => i = j
  BY OrderOf, Zenon
<1>2. QED
  BY <1>1, SeqGrows, Zenon DEF OfDifferentInstances, OneOfEachInstance

(* Without cached DesiredLRPs and events newTable only sets and adds. *)
LEMMA newTablePlain ==
    ASSUME NEW ds, NEW as
    PROVE  newTable(ds, <<>>, as, <<>>) = AddAllEndpoints(SetAllRoutes(EmptyTable, ds), as)
<1> PICK t1 : t1 = SetAllRoutes(EmptyTable, ds)
  BY Zenon
<1> PICK t2 : t2 = AddAllEndpoints(t1, as)
  BY Zenon
<1> PICK E : E = {}
  BY Zenon
<1>1. <<>> \in Seq(E)
  OBVIOUS
<1>2. SetAllRoutes(t1, <<>>) = t1
  <2> PICK T : T = {t1}
    BY Zenon
  <2>1. t1 \in T /\ \A t \in T, d \in E : SetRoutes(t, Nil, d) \in T
    OBVIOUS
  <2>2. SetAllRoutes(t1, <<>>) \in T
    BY <1>1, <2>1, SetAllRoutesStays, Zenon
  <2>3. QED
    BY <2>2
<1>3. ReplayAll(t2, <<>>) = t2
  <2> PICK T : T = {t2}
    BY Zenon
  <2>1. t2 \in T /\ \A t \in T, e \in E : HandleEvent(t, e) \in T
    OBVIOUS
  <2>2. ReplayAll(t2, <<>>) \in T
    BY <1>1, <2>1, ReplayAllStays, Zenon
  <2>3. QED
    BY <2>2, Zenon
<1>4. QED
  BY <1>2, <1>3, Zenon DEF newTable

(* Swapping in a table of the answers registers each pair they want. *)
LEMMA AnswersInstalled ==
    ASSUME NEW nets, NEW D \in SUBSET DesiredLRP,
           OneOfEachProcess(D),
           NEW A \in SUBSET {a \in InstanceLRP : Agrees(a, nets)},
           OneOfEachInstance(A),
           NEW ds \in Orders(D), NEW as \in Orders(A), NEW old \in Table, NEW new \in Table,
           new = newTable(ds, <<>>, as, <<>>), NEW domains,
           NEW d \in D, NEW lrp \in A, NEW k \in Keys,
           k.process = d.process, d.process = ProcessOf[lrp.guid],
           IndexOf[lrp.guid] < d.instances, NEW r \in d.routes[k]
    PROVE  [key |-> k, route |-> r, guid |-> lrp.guid, net |-> lrp.net]
              \in Associations(Swap(old, new, domains))
<1> PICK B : B = {a \in InstanceLRP : Agrees(a, nets)}
  BY Zenon
<1>1. d \in DesiredLRP /\ lrp \in InstanceLRP /\ d.routes[k] # {}
  BY Zenon
<1>2. ds \in Seq(DesiredLRP) /\ OfDifferentProcesses(ds)
  BY OrderOfProcesses, Zenon
<1>3. as \in Seq(B) /\ OfDifferentInstances(as)
  BY OrderOfInstances, Zenon
<1>4. PICK m \in 1..Len(ds) : ds[m] = d
  BY InOrder, Zenon
<1>5. PICK n \in 1..Len(as) : as[n] = lrp
  BY InOrder, Zenon
<1>6. Carries(AddAllEndpoints(SetAllRoutes(EmptyTable, ds), as)[k], d.routes[k], d.instances,
              key(lrp), [net |-> lrp.net, tag |-> lrp.tag])
  BY <1>1, <1>2, <1>3, <1>4, <1>5, TableOfAnswers, Zenon
<1>7. Carries(new[k], d.routes[k], d.instances, key(lrp), [net |-> lrp.net, tag |-> lrp.tag])
  BY <1>6, newTablePlain, Zenon
<1>8. QED
  BY <1>1, <1>7, SwapRegisters, Zenon

(* Such a table has endpoints of the reported instances only. *)
LEMMA OnlyAnswersKnown ==
    ASSUME NEW D \in SUBSET DesiredLRP, NEW A \in SUBSET InstanceLRP,
           OneOfEachInstance(A),
           NEW ds \in Orders(D), NEW as \in Orders(A)
    PROVE  \E own : /\ DOMAIN own = {lrp.guid : lrp \in A}
                    /\ newTable(ds, <<>>, as, <<>>) \in Tables(own)
<1> DEFINE guids == {lrp.guid : lrp \in A}
<1> PICK own : own = [g \in guids |-> (CHOOSE lrp \in A : lrp.guid = g).net]
  BY Zenon
<1>1. ASSUME NEW lrp \in A PROVE Agrees(lrp, own)
  <2>1. (CHOOSE a \in A : a.guid = lrp.guid) = lrp
    BY Zenon DEF OneOfEachInstance
  <2>2. QED
    BY <2>1, Zenon DEF Agrees
<1>2. newTable(ds, <<>>, as, <<>>) \in Tables(own)
  <2> PICK B, E : B = {lrp \in InstanceLRP : Agrees(lrp, own)} /\ E = EventsFrom(own)
    BY Zenon
  <2>1. A \subseteq B
    BY <1>1
  <2>2. ds \in Seq(D) /\ as \in Seq(A)
    BY OrderOf, Zenon
  <2>3. ds \in Seq(DesiredLRP) /\ as \in Seq(B)
    BY <2>1, <2>2, SeqGrows, Zenon
  <2>4. <<>> \in Seq(DesiredLRP) /\ <<>> \in Seq(E)
    OBVIOUS
  <2>5. QED
    BY <2>3, <2>4, newTableFrom, Zenon
<1>3. QED
  BY <1>2, Zenon
================================================================================
