-------------------------- MODULE HandlerCacheProofs --------------------------
(***************************************************************************)
(* Proofs about HandlerCache for every set of keys, instances, routes,     *)
(* domains and tags, and any number of events and syncs: an update and a   *)
(* sync leave table and unregistration cache apart.                        *)
(***************************************************************************)
EXTENDS HandlerCache, RoutingTableLemmas

--------------------------------------------------------------------------------
(* What an operation leaves of an entry.                                   *)

(* SetRoutes writes the entries of the processes it is about.  It drops an *)
(* endpoint only where it sets an instance count without room for it.      *)
LEMMA SetRoutesLeaves ==
    ASSUME NEW t, TableOK(t), NEW before \in DesiredLRP \cup {Nil},
           NEW after \in DesiredLRP \cup {Nil}, NEW k \in Keys
    PROVE  LET old == Lookup(t, k)
               new == Lookup(SetRoutes(t, before, after), k)
           IN  /\ new = old \/ \E d \in {before, after} : d # Nil /\ d.process = k.process
               /\ \/ new.routes \in {old.routes, {}}
                  \/ after # Nil /\ new.routes = after.routes[k]
               /\ \A ek \in EndpointKey :
                    \/ new.endpoints[ek] = old.endpoints[ek]
                    \/ /\ new.endpoints[ek] = Nil
                       /\ new.desiredInstances <= IndexOf[ek[1]]
<1> DEFINE old == Lookup(t, k)
           new == Lookup(SetRoutes(t, before, after), k)
<1>1. EntryOK(old) /\ old \in RoutableEndpoints
  BY LookupOK DEF EntryOK
<1>2. UpdatesRoutes(old, k, after) => ~ClearsRoutes(old, k, before, after)
  BY DEF UpdatesRoutes, ClearsRoutes
<1>3. CASE UpdatesRoutes(old, k, after)
  <2>1. after # Nil /\ after \in DesiredLRP /\ after.process = k.process
    BY <1>3 DEF UpdatesRoutes, HasKey, DesiredLRP
  <2>2. WithRoutes(old, k, before, after) # Nil
    BY <1>1, <2>1, WithRoutesOK, NilAssumption DEF EntryOK
  <2>3. new = WithRoutes(old, k, before, after)
    <3>1. SetRoutes(t, before, after)[k] = WithRoutes(old, k, before, after)
      BY <1>2, <1>3 DEF SetRoutes
    <3>2. QED
      BY <2>2, <3>1 DEF Lookup
  <2>4. /\ new.routes = after.routes[k] /\ new.desiredInstances = after.instances
        /\ new.endpoints = ScaledDown(old.endpoints, before, after)
    BY <2>3 DEF WithRoutes
  <2>5. ASSUME NEW ek \in EndpointKey
        PROVE  \/ new.endpoints[ek] = old.endpoints[ek]
               \/ new.endpoints[ek] = Nil /\ new.desiredInstances <= IndexOf[ek[1]]
    <3>1. IndexOf[ek[1]] \in Nat /\ after.instances \in Nat
      BY <2>1, ConstantsAssumption, Zenon DEF EndpointKey, DesiredLRP
    <3>2. QED
      BY <2>4, <3>1 DEF ScaledDown
  <2>6. QED
    BY <2>1, <2>4, <2>5
<1>4. CASE ~UpdatesRoutes(old, k, after) /\ ClearsRoutes(old, k, before, after)
  <2>1. before # Nil /\ before \in DesiredLRP /\ before.process = k.process
    BY <1>4 DEF ClearsRoutes, HasKey, DesiredLRP
  <2>2. /\ WithoutRoutes(old, after) \in RoutableEndpoints
        /\ WithoutRoutes(old, after).routes = {}
        /\ WithoutRoutes(old, after).endpoints = old.endpoints
    BY <1>1, Zenon DEF WithoutRoutes, RoutableEndpoints, DesiredLRP, ModificationTag
  <2>3. new.routes = {} /\ new.endpoints = old.endpoints
    <3>1. SetRoutes(t, before, after)[k] = deleteEntryIfEmpty(WithoutRoutes(old, after))
      BY <1>4 DEF SetRoutes
    <3>2. QED
      BY <2>2, <3>1, LookupDeleted
  <2>4. QED
    BY <2>1, <2>3
<1>5. CASE ~UpdatesRoutes(old, k, after) /\ ~ClearsRoutes(old, k, before, after)
  <2>1. new = old
    <3>1. SetRoutes(t, before, after)[k] = t[k]
      BY <1>5 DEF SetRoutes
    <3>2. QED
      BY <3>1 DEF Lookup
  <2>2. QED
    BY <2>1
<1>6. QED
  BY <1>3, <1>4, <1>5

(* What a call about the endpoint of one instance leaves: the routes, the  *)
(* instance count of an entry that has routes, and the endpoints of other  *)
(* instances.  An endpoint is added where the count has room for it.       *)
Moves(t, new, g) ==
    \A k \in Keys :
        /\ Lookup(new, k).routes = Lookup(t, k).routes
        /\ Lookup(t, k).routes # {} =>
              Lookup(new, k).desiredInstances = Lookup(t, k).desiredInstances
        /\ \A ek \in EndpointKey :
              \/ Lookup(new, k).endpoints[ek] = Lookup(t, k).endpoints[ek]
              \/ ek[1] = g /\ Lookup(new, k).endpoints[ek] = Nil
              \/ /\ ek[1] = g /\ k.process = ProcessOf[g]
                 /\ Lookup(t, k).desiredInstances > 0 =>
                       IndexOf[g] < Lookup(t, k).desiredInstances

(* A call that leaves the table alone. *)
LEMMA StayMoves ==
    ASSUME NEW t, NEW g
    PROVE  Moves(t, t, g)
BY DEF Moves

(* AddEndpoint. *)
LEMMA AddEndpointMoves ==
    ASSUME NEW t \in Table, NEW lrp, IsInstance(lrp)
    PROVE  Moves(t, AddEndpoint(t, lrp), lrp.guid)
<1> SUFFICES ASSUME NEW k \in Keys
             PROVE  LET old == Lookup(t, k)
                        new == Lookup(AddEndpoint(t, lrp), k)
                    IN  /\ new.routes = old.routes
                        /\ new.desiredInstances = old.desiredInstances
                        /\ \A ek \in EndpointKey :
                              \/ new.endpoints[ek] = old.endpoints[ek]
                              \/ /\ ek[1] = lrp.guid /\ k.process = ProcessOf[lrp.guid]
                                 /\ old.desiredInstances > 0 =>
                                       IndexOf[lrp.guid] < old.desiredInstances
  BY Zenon DEF Moves
<1> DEFINE old == Lookup(t, k)
           new == Lookup(AddEndpoint(t, lrp), k)
<1>1. old \in RoutableEndpoints /\ key(lrp) \in EndpointKey /\ key(lrp)[1] = lrp.guid
  BY LookupType, KeyType DEF key
<1>2. CASE HasEndpoint(lrp, k) /\ AcceptsEndpoint(old, lrp)
  <2>1. AddEndpoint(t, lrp)[k] =
          [old EXCEPT !.endpoints[key(lrp)] = [net |-> lrp.net, tag |-> lrp.tag]]
    BY <1>2 DEF AddEndpoint
  <2>2. AddEndpoint(t, lrp)[k] # Nil
    <3>1. AddEndpoint(t, lrp)[k] \in RoutableEndpoints
      BY <1>1, <2>1 DEF RoutableEndpoints, Endpoint, IsInstance, ModificationTag
    <3>2. QED
      BY <3>1, NilAssumption
  <2>3. /\ new.routes = old.routes /\ new.desiredInstances = old.desiredInstances
        /\ \A ek \in EndpointKey : ek # key(lrp) => new.endpoints[ek] = old.endpoints[ek]
    <3>1. new = AddEndpoint(t, lrp)[k]
      BY <2>2 DEF Lookup
    <3> HIDE DEF old, new
    <3>2. QED
      BY <1>1, <2>1, <3>1 DEF RoutableEndpoints
  <2>4. QED
    BY <1>1, <1>2, <2>3 DEF HasEndpoint, AcceptsEndpoint
<1>3. CASE ~(HasEndpoint(lrp, k) /\ AcceptsEndpoint(old, lrp))
  <2>1. AddEndpoint(t, lrp)[k] = t[k]
    BY <1>3 DEF AddEndpoint
  <2>2. QED
    BY <2>1 DEF Lookup
<1>4. QED
  BY <1>2, <1>3

(* RemoveEndpoint: it only takes away. *)
LEMMA RemoveEndpointSpares ==
    ASSUME NEW t \in Table, NEW lrp, IsInstance(lrp), NEW k \in Keys
    PROVE  LET old == Lookup(t, k)
               new == Lookup(RemoveEndpoint(t, lrp), k)
           IN  /\ new.routes = old.routes
               /\ old.routes # {} => new.desiredInstances = old.desiredInstances
               /\ \A ek \in EndpointKey :
                     \/ new.endpoints[ek] = old.endpoints[ek]
                     \/ ek[1] = lrp.guid /\ new.endpoints[ek] = Nil
<1> DEFINE old == Lookup(t, k)
           new == Lookup(RemoveEndpoint(t, lrp), k)
           less == [old EXCEPT !.endpoints[key(lrp)] = Nil]
<1>1. old \in RoutableEndpoints /\ key(lrp) \in EndpointKey /\ key(lrp)[1] = lrp.guid
  BY LookupType, KeyType DEF key
<1>2. CASE HasEndpoint(lrp, k) /\ RemovesEndpoint(old, lrp)
  <2>1. RemoveEndpoint(t, lrp)[k] = deleteEntryIfEmpty(less)
    BY <1>2 DEF RemoveEndpoint
  <2>2. /\ less \in RoutableEndpoints
        /\ less.routes = old.routes /\ less.desiredInstances = old.desiredInstances
        /\ \A ek \in EndpointKey : ek # key(lrp) => less.endpoints[ek] = old.endpoints[ek]
        /\ less.endpoints[key(lrp)] = Nil
    <3> HIDE DEF old
    <3>1. QED
      BY <1>1 DEF RoutableEndpoints
  <2>3. new.routes = less.routes /\ new.endpoints = less.endpoints
    BY <2>1, <2>2, LookupDeleted, Zenon
  <2>4. old.routes # {} => new = less
    <3>1. less.routes # {} => deleteEntryIfEmpty(less) = less
      BY DEF deleteEntryIfEmpty
    <3>2. less # Nil
      BY <2>2, NilAssumption
    <3>3. QED
      BY <2>1, <2>2, <3>1, <3>2 DEF Lookup
  <2> HIDE DEF new, less, old
  <2>5. QED
    BY <1>1, <2>2, <2>3, <2>4 DEF old, new
<1>3. CASE ~(HasEndpoint(lrp, k) /\ RemovesEndpoint(old, lrp))
  <2>1. RemoveEndpoint(t, lrp)[k] = t[k]
    BY <1>3 DEF RemoveEndpoint
  <2>2. QED
    BY <2>1 DEF Lookup
<1>4. QED
  BY <1>2, <1>3

--------------------------------------------------------------------------------
(* Events.                                                                 *)

(* An event is about one process or one instance, which is its key. *)
LEMMA EventIs ==
    ASSUME NEW e \in Events
    PROVE  /\ e \in EventsFrom(NetOf)
           /\ \/ /\ e.type = "desired" /\ ~IsActualUpdate(e)
                 /\ \A d \in {e.before, e.after} :
                       d # Nil => d \in Desireds /\ d.process = Key(e)
              \/ /\ e.type = "actual"
                 /\ \A lrp \in {e.before, e.after} :
                       lrp # Nil => IsInstance(lrp) /\ lrp.guid = Key(e)
<1>1. CASE e \in DesiredEvents
  <2>1. PICK b \in Desireds \cup {Nil}, a \in Desireds \cup {Nil} :
          e = [type |-> "desired", before |-> b, after |-> a] /\ (b # Nil \/ a # Nil)
    BY <1>1 DEF DesiredEvents, DesiredEvent
  <2>2. b # Nil /\ a # Nil => b.process = a.process
    BY <2>1 DEF Events, SameLRP
  <2>3. \A d \in {b, a} : d # Nil => d \in Desireds /\ d.process = Key(e)
    BY <2>1, <2>2 DEF Key
  <2>4. e \in EventsFrom(NetOf)
    BY <2>1 DEF EventsFrom, Event, Desireds
  <2>5. QED
    BY <2>1, <2>3, <2>4 DEF IsActualUpdate
<1>2. CASE e \in ActualEvents
  <2>1. PICK b \in Actuals \cup {Nil}, a \in Actuals \cup {Nil} :
          e = [type |-> "actual", before |-> b, after |-> a] /\ (b # Nil \/ a # Nil)
    BY <1>2 DEF ActualEvents, ActualEvent
  <2>2. b # Nil /\ a # Nil => b.guid = a.guid
    BY <2>1 DEF Events, SameLRP
  <2>3. \A lrp \in Actuals : IsInstance(lrp) /\ lrp \in InstanceLRP /\ Agrees(lrp, NetOf)
    BY InstanceLRPIsInstance, HashAssumption DEF Actuals, Agrees, InstanceLRP
  <2>4. \A lrp \in {b, a} : lrp # Nil => IsInstance(lrp) /\ lrp.guid = Key(e)
    BY <2>1, <2>2, <2>3 DEF Key
  <2>5. e \in EventsFrom(NetOf)
    BY <2>1, <2>3 DEF EventsFrom, Event
  <2>6. QED
    BY <2>1, <2>4, <2>5
<1>3. QED
  BY <1>1, <1>2 DEF Events

(* The first call of an event about an instance adds or removes its endpoint. *)
LEMMA ActualCalls ==
    ASSUME NEW t, NEW e \in EventsFrom(NetOf), e.type = "actual"
    PROVE  \/ FirstCall(t, e) = t
           \/ \E lrp \in {e.before, e.after} :
                 lrp # Nil /\ FirstCall(t, e) \in {AddEndpoint(t, lrp), RemoveEndpoint(t, lrp)}
<1>1. e.before # Nil \/ e.after # Nil
  BY DEF EventsFrom
<1>2. CASE e.before = Nil
  <2>1. FirstCall(t, e) = handleActualCreate(t, e.after)
    BY <1>1, <1>2 DEF FirstCall
  <2>2. QED
    BY <1>1, <1>2, <2>1 DEF handleActualCreate
<1>3. CASE e.before # Nil /\ e.after = Nil
  <2>1. FirstCall(t, e) = handleActualDelete(t, e.before)
    BY <1>3 DEF FirstCall
  <2>2. QED
    BY <1>3, <2>1 DEF handleActualDelete
<1>4. CASE e.before # Nil /\ e.after # Nil
  <2>1. FirstCall(t, e) = UpdateEndpoint(t, e.before, e.after)
    BY <1>4 DEF FirstCall
  <2>2. UpdateEndpoint(t, e.before, e.after) \in
           {AddEndpoint(t, e.after), RemoveEndpoint(t, e.after),
            RemoveEndpoint(t, e.before), t}
    BY DEF UpdateEndpoint
  <2>3. QED
    BY <1>4, <2>1, <2>2
<1>5. QED
  BY <1>2, <1>3, <1>4

(* A removal after a move is a move. *)
LEMMA MovesRemoved ==
    ASSUME NEW t, NEW mid \in Table, NEW g, Moves(t, mid, g), NEW lrp, IsInstance(lrp),
           lrp.guid = g
    PROVE  Moves(t, RemoveEndpoint(mid, lrp), g)
<1> SUFFICES ASSUME NEW k \in Keys
             PROVE  LET old == Lookup(t, k)
                        new == Lookup(RemoveEndpoint(mid, lrp), k)
                    IN  /\ new.routes = old.routes
                        /\ old.routes # {} => new.desiredInstances = old.desiredInstances
                        /\ \A ek \in EndpointKey :
                              \/ new.endpoints[ek] = old.endpoints[ek]
                              \/ ek[1] = g /\ new.endpoints[ek] = Nil
                              \/ /\ ek[1] = g /\ k.process = ProcessOf[g]
                                 /\ old.desiredInstances > 0 =>
                                       IndexOf[g] < old.desiredInstances
  BY Zenon DEF Moves
<1>1. QED
  BY RemoveEndpointSpares DEF Moves

(* What an event about an instance leaves of the table. *)
LEMMA EventMoves ==
    ASSUME NEW t \in Tables(NetOf), NEW e \in Events, e.type = "actual"
    PROVE  Moves(t, FirstCall(t, e), Key(e)) /\ Moves(t, HandleEvent(t, e), Key(e))
<1>1. /\ e \in EventsFrom(NetOf)
      /\ \A lrp \in {e.before, e.after} : lrp # Nil => IsInstance(lrp) /\ lrp.guid = Key(e)
  BY EventIs
<1>2. t \in Table /\ FirstCall(t, e) \in Table
  BY <1>1, FirstCallFrom DEF Tables
<1>3. Moves(t, FirstCall(t, e), Key(e))
  <2>1. CASE FirstCall(t, e) = t
    BY <2>1, StayMoves
  <2>2. ASSUME NEW lrp \in {e.before, e.after}, lrp # Nil,
               FirstCall(t, e) \in {AddEndpoint(t, lrp), RemoveEndpoint(t, lrp)}
        PROVE  Moves(t, FirstCall(t, e), Key(e))
    <3>1. IsInstance(lrp) /\ lrp.guid = Key(e)
      BY <1>1, <2>2
    <3>2. Moves(t, AddEndpoint(t, lrp), Key(e))
      BY <1>2, <3>1, AddEndpointMoves
    <3>3. Moves(t, RemoveEndpoint(t, lrp), Key(e))
      BY <1>2, <3>1, StayMoves, MovesRemoved
    <3>4. QED
      BY <2>2, <3>2, <3>3
  <2>3. QED
    BY <1>1, <2>1, <2>2, ActualCalls
<1>4. CASE HandleEvent(t, e) = FirstCall(t, e)
  BY <1>3, <1>4
<1>5. CASE HandleEvent(t, e) # FirstCall(t, e)
  <2>1. HandleEvent(t, e) = RemoveEndpoint(FirstCall(t, e), e.before)
    BY <1>1, <1>5, SecondCall
  <2>2. e.before # Nil
    BY <1>5 DEF HandleEvent, IsActualUpdate
  <2>3. QED
    BY <1>1, <1>2, <1>3, <2>1, <2>2, MovesRemoved
<1>6. QED
  BY <1>3, <1>4, <1>5

--------------------------------------------------------------------------------
(* Tables with each endpoint at the address and under the keys of its      *)
(* instance: there the cache's hash tells pairs apart, up to routes with   *)
(* one URI.                                                                *)

Absent(entry, g) == \A ek \in EndpointKey : ek[1] = g => entry.endpoints[ek] = Nil

Owned(t) ==
    \A k \in Keys, ek \in EndpointKey :
        Lookup(t, k).endpoints[ek] # Nil => k.process = ProcessOf[ek[1]]

OwnTables == {t \in Tables(NetOf) : Owned(t)}

(* A call about one instance keeps endpoints under their keys, ... *)
LEMMA MovesOwned ==
    ASSUME NEW t, Owned(t), NEW new, NEW g, Moves(t, new, g)
    PROVE  Owned(new)
  BY DEF Owned, Moves

(* ... and so does each event. *)
LEMMA EventOwned ==
    ASSUME NEW t \in OwnTables, NEW e \in Events
    PROVE  FirstCall(t, e) \in OwnTables /\ HandleEvent(t, e) \in OwnTables
<1>1. t \in Tables(NetOf) /\ Owned(t) /\ TableOK(t) /\ e \in EventsFrom(NetOf)
  BY EventIs, TablesOK DEF OwnTables
<1>2. FirstCall(t, e) \in Tables(NetOf) /\ HandleEvent(t, e) \in Tables(NetOf)
  BY <1>1, FirstCallFrom, HandleEventFrom
<1>3. CASE e.type = "desired"
  <2>1. HandleEvent(t, e) = SetRoutes(t, e.before, e.after) /\ FirstCall(t, e) = HandleEvent(t, e)
    BY <1>3 DEF HandleEvent, FirstCall, IsActualUpdate, handleDesired
  <2>2. e.before \in DesiredLRP \cup {Nil} /\ e.after \in DesiredLRP \cup {Nil}
    BY <1>1, <1>3, EventFields
  <2>3. Owned(SetRoutes(t, e.before, e.after))
    BY <1>1, <2>2, SetRoutesLeaves DEF Owned
  <2>4. QED
    BY <1>2, <2>1, <2>3 DEF OwnTables
<1>4. CASE e.type = "actual"
  BY <1>1, <1>2, <1>4, EventMoves, MovesOwned DEF OwnTables
<1>5. QED
  BY <1>3, <1>4, EventIs

(* The pairs of such a table. *)
LEMMA PairsOf ==
    ASSUME NEW t \in OwnTables, NEW m
    PROVE  m \in Associations(t) <=>
              \E k \in Keys, r \in Routes, g \in Guids :
                 /\ r \in Lookup(t, k).routes /\ ~Absent(Lookup(t, k), g)
                 /\ m = [key |-> k, route |-> r, guid |-> g, net |-> NetOf[g]]
<1>1. t \in Table
  BY DEF OwnTables, Tables
<1>2. \A k \in Keys : /\ Lookup(t, k).routes \subseteq Routes
                      /\ EntryFrom(Lookup(t, k), NetOf)
  BY <1>1, LookupType, Zenon DEF OwnTables, Tables, RoutableEndpoints
<1>3. \A k \in Keys : m \in Pairs(k, Lookup(t, k)) <=>
          \E r \in Lookup(t, k).routes, ek \in EndpointKey :
             /\ Lookup(t, k).endpoints[ek] # Nil
             /\ m = [key |-> k, route |-> r, guid |-> ek[1],
                     net |-> Lookup(t, k).endpoints[ek].net]
  BY InMessagesFor DEF Pairs, Present
<1>4. ASSUME NEW k \in Keys
      PROVE  m \in Pairs(k, Lookup(t, k)) <=>
                \E r \in Routes, g \in Guids :
                   /\ r \in Lookup(t, k).routes /\ ~Absent(Lookup(t, k), g)
                   /\ m = [key |-> k, route |-> r, guid |-> g, net |-> NetOf[g]]
  <2>1. \A ek \in EndpointKey : ek[1] \in Guids
    BY DEF EndpointKey
  <2>2. \A ek \in EndpointKey : Lookup(t, k).endpoints[ek] # Nil =>
          Lookup(t, k).endpoints[ek].net = NetOf[ek[1]] /\ ~Absent(Lookup(t, k), ek[1])
    BY <1>2 DEF EntryFrom, Absent
  <2>3. \A g \in Guids : ~Absent(Lookup(t, k), g) =>
          \E ek \in EndpointKey : ek[1] = g /\ Lookup(t, k).endpoints[ek] # Nil
    BY DEF Absent
  <2>4. QED
    BY <1>2, <1>3, <2>1, <2>2, <2>3
<1>5. QED
  BY <1>4, InAssociations

(* What a pair of such a table has. *)
LEMMA PairFields ==
    ASSUME NEW t \in OwnTables, NEW m \in Associations(t)
    PROVE  /\ m = [key |-> m.key, route |-> m.route, guid |-> m.guid, net |-> NetOf[m.guid]]
           /\ m.key \in Keys /\ m.route \in Routes /\ m.guid \in Guids /\ m.net = NetOf[m.guid]
           /\ m.route \in Lookup(t, m.key).routes
           /\ ~Absent(Lookup(t, m.key), m.guid)
           /\ m.key.process = ProcessOf[m.guid]
<1>1. PICK k \in Keys, r \in Routes, g \in Guids :
         /\ r \in Lookup(t, k).routes /\ ~Absent(Lookup(t, k), g)
         /\ m = [key |-> k, route |-> r, guid |-> g, net |-> NetOf[g]]
  BY PairsOf
<1>2. k.process = ProcessOf[g]
  BY <1>1 DEF Absent, OwnTables, Owned
<1>3. QED
  BY <1>1, <1>2

(* HTTP pairs with one hash, of one table or of two, are of one key and    *)
(* one instance and have one URI.                                          *)
LEMMA SamePair ==
    ASSUME NEW t \in OwnTables, NEW m \in Associations(t),
           NEW u \in OwnTables, NEW n \in Associations(u),
           m.key.table = n.key.table, Hash(m) = Hash(n)
    PROVE  m.key = n.key /\ m.guid = n.guid /\ UriOf[m.route] = UriOf[n.route]
<1>1. /\ m.key \in Keys /\ m.guid \in Guids /\ m.net = NetOf[m.guid]
      /\ m.key.process = ProcessOf[m.guid]
  BY PairFields
<1>2. /\ n.key \in Keys /\ n.guid \in Guids /\ n.net = NetOf[n.guid]
      /\ n.key.process = ProcessOf[n.guid]
  BY PairFields
<1>3. UriOf[m.route] = UriOf[n.route] /\ m.net = n.net /\ m.key.port = n.key.port
  BY DEF Hash
<1>4. m.guid = n.guid
  <2>1. \A g, h \in Guids : NetOf[g] = NetOf[h] => g = h
    BY HashAssumption
  <2>2. NetOf[m.guid] = NetOf[n.guid]
    BY <1>1, <1>2, <1>3
  <2>3. QED
    BY <1>1, <1>2, <2>1, <2>2, Zenon
<1>5. m.key.process = n.key.process
  BY <1>1, <1>2, <1>4
<1>6. m.key = n.key
  BY <1>1, <1>2, <1>3, <1>5, HashAssumption, Zenon
<1>7. QED
  BY <1>3, <1>4, <1>6

(* In a table that names a URI once under each key they are one pair. *)
LEMMA OnePair ==
    ASSUME NEW t \in OwnTables, NEW m \in Associations(t), NEW n \in Associations(t),
           \A k \in Keys : DistinctUris(Lookup(t, k).routes),
           m.key.table = n.key.table, Hash(m) = Hash(n)
    PROVE  m = n
<1>1. m.key = n.key /\ m.guid = n.guid /\ UriOf[m.route] = UriOf[n.route]
  BY SamePair
<1>2. /\ m = [key |-> m.key, route |-> m.route, guid |-> m.guid, net |-> NetOf[m.guid]]
      /\ m.key \in Keys /\ m.route \in Lookup(t, m.key).routes
  BY PairFields
<1>3. /\ n = [key |-> n.key, route |-> n.route, guid |-> n.guid, net |-> NetOf[n.guid]]
      /\ n.route \in Lookup(t, n.key).routes
  BY PairFields
<1>4. m.route = n.route
  BY <1>1, <1>2, <1>3 DEF DistinctUris
<1>5. QED
  BY <1>1, <1>2, <1>3, <1>4

--------------------------------------------------------------------------------
(* What one emission does to the cache.                                    *)

(* R and U are registrations and unregistrations that lead from old to new. *)
Emits(old, new, R, U) ==
    /\ Associations(new) \subseteq (Associations(old) \cup R) \ U
    /\ U \subseteq Associations(old) \cup R

(* Only pairs of the old table are unregistered. *)
LEMMA UnregisteredPairs ==
    ASSUME NEW old, NEW new
    PROVE  Unregistrations(old, new) \subseteq Associations(old)
<1> SUFFICES ASSUME NEW m \in Unregistrations(old, new) PROVE m \in Associations(old)
  OBVIOUS
<1>1. PICK k \in Keys : m \in UnregistrationsFor(k, Lookup(old, k), Lookup(new, k))
  BY InRegistrations
<1>2. PICK r \in Lookup(old, k).routes, ek \in Present(Lookup(old, k).endpoints) :
        m = [key |-> k, route |-> r, guid |-> ek[1], net |-> Lookup(old, k).endpoints[ek].net]
  BY <1>1, InMessagesFor DEF UnregistrationsFor, Unmatched
<1>3. m \in Pairs(k, Lookup(old, k))
  BY <1>2, InMessagesFor DEF Pairs
<1>4. QED
  BY <1>3, InAssociations

(* The messages of a step from one table to the other. *)
LEMMA StepEmits ==
    ASSUME NEW old \in OwnTables, NEW new \in OwnTables
    PROVE  Emits(old, new, Registrations(old, new), Unregistrations(old, new))
<1>1. old \in Table /\ new \in Table /\ Twins(new)
  BY TablesOK DEF OwnTables, TableOK
<1>2. Associations(new) \subseteq
        (Associations(old) \cup Registrations(old, new)) \ Unregistrations(old, new)
  BY <1>1, EmissionMirrors
<1>3. QED
  BY <1>2, UnregisteredPairs DEF Emits

(* The messages of the one or two calls of an event. *)
LEMMA EventEmits ==
    ASSUME NEW t \in OwnTables, NEW e \in Events
    PROVE  Emits(t, HandleEvent(t, e), EventRegistrations(t, e), EventUnregistrations(t, e))
<1>1. t \in Tables(NetOf) /\ e \in EventsFrom(NetOf)
  BY EventIs DEF OwnTables
<1>2. Associations(HandleEvent(t, e)) \subseteq
        (Associations(t) \cup EventRegistrations(t, e)) \ EventUnregistrations(t, e)
  BY <1>1, EventMirrors DEF emitMessages
<1>3. Associations(FirstCall(t, e)) \subseteq
        Associations(t) \cup Registrations(t, FirstCall(t, e))
  BY EventOwned, StepEmits DEF Emits
<1>4. EventUnregistrations(t, e) \subseteq Associations(t) \cup EventRegistrations(t, e)
  BY <1>3, UnregisteredPairs DEF EventUnregistrations, EventRegistrations
<1>5. QED
  BY <1>2, <1>4 DEF Emits

(* The hash of a message in a set. *)
LEMMA InHashes ==
    ASSUME NEW S, NEW h
    PROVE  h \in Hashes(S) <=> \E m \in S : m.key.table = "http" /\ h = Hash(m)
  BY DEF Hashes

(* A pair of the new table that Add and Remove leave in the cache was      *)
(* there, and was a pair of the old table.                                 *)
LEMMA CacheApart ==
    ASSUME NEW old \in OwnTables, NEW new \in OwnTables,
           \A k \in Keys : DistinctUris(Lookup(old, k).routes),
           NEW R, NEW U, Emits(old, new, R, U),
           NEW c, NEW h, h \in (c \cup Hashes(U)) \ Hashes(R),
           NEW m \in Associations(new), m.key.table = "http", h = Hash(m)
    PROVE  h \in c /\ m \in Associations(old)
<1>1. m \notin R
  BY InHashes
<1>2. m \in Associations(old) /\ m \notin U
  BY <1>1 DEF Emits
<1>3. h \notin Hashes(U)
  <2> SUFFICES ASSUME NEW n \in U, n.key.table = "http", h = Hash(n) PROVE FALSE
    BY InHashes
  <2>1. n \notin R
    BY InHashes
  <2>2. n \in Associations(old)
    BY <2>1 DEF Emits
  <2>3. n = m
    BY <1>2, <2>2, OnePair, Zenon
  <2>4. QED
    BY <1>2, <2>3
<1>4. QED
  BY <1>2, <1>3

--------------------------------------------------------------------------------
(* The second table of a sync.                                             *)

HasUri(entry, uri) == \E r \in entry.routes : UriOf[r] = uri

(* No event that is still to be replayed, given those that are done, can   *)
(* bring a pair of this key, instance and URI (back) into the table: the   *)
(* instance has had its event and is gone, or its process has had its      *)
(* event, and that left no such route or no room for the instance.  With   *)
(* an instance count of zero there is room for every instance.             *)
Settled(entry, done, g, uri) ==
    \/ g \in done /\ Absent(entry, g)
    \/ ProcessOf[g] \in done /\ ~HasUri(entry, uri)
    \/ /\ ProcessOf[g] \in done /\ entry.routes # {}
       /\ entry.desiredInstances <= IndexOf[g]
       /\ entry.desiredInstances = 0 \/ Absent(entry, g)

(* A settled pair stays settled. *)
LEMMA StaysSettled ==
    ASSUME NEW t \in OwnTables, NEW e \in Events, NEW done, Key(e) \notin done,
           NEW k \in Keys, NEW g \in Guids, k.process = ProcessOf[g],
           NEW uri, Settled(Lookup(t, k), done, g, uri)
    PROVE  Settled(Lookup(HandleEvent(t, e), k), done \cup {Key(e)}, g, uri)
<1> DEFINE old == Lookup(t, k)
           new == Lookup(HandleEvent(t, e), k)
<1>1. t \in Tables(NetOf) /\ TableOK(t) /\ e \in EventsFrom(NetOf)
  BY EventIs, TablesOK DEF OwnTables
<1>2. CASE e.type = "desired"
  <2>1. HandleEvent(t, e) = SetRoutes(t, e.before, e.after)
    BY <1>2 DEF HandleEvent, FirstCall, IsActualUpdate, handleDesired
  <2>2. e.before \in DesiredLRP \cup {Nil} /\ e.after \in DesiredLRP \cup {Nil}
    BY <1>1, <1>2, EventFields
  <2>3. Absent(old, g) => Absent(new, g)
    BY <1>1, <2>1, <2>2, SetRoutesLeaves DEF Absent
  <2>4. ProcessOf[g] \in done => new = old
    <3>1. \A d \in {e.before, e.after} : d # Nil => d.process = Key(e)
      BY <1>2, EventIs
    <3>2. QED
      BY <1>1, <2>1, <2>2, <3>1, SetRoutesLeaves
  <2> HIDE DEF old, new
  <2>5. QED
    BY <2>3, <2>4 DEF Settled, old, new
<1>3. CASE e.type = "actual"
  <2>1. Moves(t, HandleEvent(t, e), Key(e))
    BY <1>1, <1>3, EventMoves
  <2>2. /\ new.routes = old.routes
        /\ old.routes # {} => new.desiredInstances = old.desiredInstances
    BY <2>1 DEF Moves
  <2>3. g # Key(e) => (Absent(old, g) => Absent(new, g))
    BY <2>1 DEF Moves, Absent
  <2>4. old.desiredInstances \in Nat /\ IndexOf[g] \in Nat
    <3>1. old \in RoutableEndpoints
      BY <1>1, LookupType DEF Tables
    <3>2. old.desiredInstances \in InstanceCounts \cup {0}
      BY <3>1 DEF RoutableEndpoints
    <3>3. IndexOf[g] \in Nat
      BY ConstantsAssumption
    <3>4. (InstanceCounts \cup {0}) \subseteq Nat
      BY ConstantsAssumption
    <3>5. QED
      BY <3>2, <3>3, <3>4, Zenon
  <2>5. old.desiredInstances > 0 /\ old.desiredInstances <= IndexOf[g] =>
           (Absent(old, g) => Absent(new, g))
    BY <2>1, <2>3, <2>4 DEF Moves, Absent
  <2>6. HasUri(new, uri) <=> HasUri(old, uri)
    BY <2>2 DEF HasUri
  <2> HIDE DEF old, new
  <2>7. CASE g \in done /\ Absent(old, g)
    <3>1. Absent(new, g)
      BY <2>3, <2>7
    <3>2. QED
      BY <2>7, <3>1, Zenon DEF Settled, new
  <2>8. CASE ProcessOf[g] \in done /\ ~HasUri(old, uri)
    BY <2>6, <2>8, Zenon DEF Settled, new
  <2>9. CASE /\ ProcessOf[g] \in done /\ old.routes # {}
             /\ old.desiredInstances <= IndexOf[g]
             /\ old.desiredInstances = 0 \/ Absent(old, g)
    <3>1. new.routes # {} /\ new.desiredInstances = old.desiredInstances
      BY <2>2, <2>9
    <3>2. new.desiredInstances = 0 \/ Absent(new, g)
      BY <2>4, <2>5, <2>9, <3>1
    <3>3. QED
      BY <2>9, <3>1, <3>2, Zenon DEF Settled, new
  <2>10. QED
    BY <2>7, <2>8, <2>9, Zenon DEF Settled, old, new
<1>4. QED
  BY <1>2, <1>3, EventIs

(* A pair that a replayed update puts into the cache is settled. *)
LEMMA BecomesSettled ==
    ASSUME NEW t \in OwnTables, \A k \in Keys : DistinctUris(Lookup(t, k).routes),
           NEW e \in Events, NEW m \in EventUnregistrations(t, e), m.key.table = "http",
           Hash(m) \notin Hashes(EventRegistrations(t, e)), NEW done
    PROVE  /\ m \in Associations(t)
           /\ Settled(Lookup(HandleEvent(t, e), m.key), done \cup {Key(e)},
                      m.guid, UriOf[m.route])
<1> DEFINE old == Lookup(t, m.key)
           new == Lookup(HandleEvent(t, e), m.key)
<1>1. Emits(t, HandleEvent(t, e), EventRegistrations(t, e), EventUnregistrations(t, e))
  BY EventEmits, Zenon
<1>2. m \notin EventRegistrations(t, e)
  BY InHashes
<1>3. m \in Associations(t) /\ m \notin Associations(HandleEvent(t, e))
  BY <1>1, <1>2 DEF Emits
<1>4. HandleEvent(t, e) \in OwnTables
  BY EventOwned
<1>5. /\ m = [key |-> m.key, route |-> m.route, guid |-> m.guid, net |-> NetOf[m.guid]]
      /\ m.key \in Keys /\ m.route \in Routes /\ m.guid \in Guids
      /\ m.route \in old.routes /\ ~Absent(old, m.guid) /\ m.key.process = ProcessOf[m.guid]
  BY <1>3, PairFields
<1>6. m.route \notin new.routes \/ Absent(new, m.guid)
  BY <1>3, <1>4, <1>5, PairsOf
<1>7. t \in Tables(NetOf) /\ TableOK(t) /\ e \in EventsFrom(NetOf)
  BY EventIs, TablesOK DEF OwnTables
<1>8. CASE e.type = "actual"
  <2>1. Moves(t, HandleEvent(t, e), Key(e))
    BY <1>7, <1>8, EventMoves
  <2>2. Absent(new, m.guid)
    BY <1>5, <1>6, <2>1 DEF Moves
  <2>3. m.guid = Key(e)
    BY <1>5, <2>1, <2>2 DEF Moves, Absent
  <2>4. QED
    BY <1>3, <2>2, <2>3 DEF Settled
<1>9. CASE e.type = "desired"
  <2>1. HandleEvent(t, e) = SetRoutes(t, e.before, e.after)
    BY <1>9 DEF HandleEvent, FirstCall, IsActualUpdate, handleDesired
  <2>2. e.before \in DesiredLRP \cup {Nil} /\ e.after \in DesiredLRP \cup {Nil}
    BY <1>7, <1>9, EventFields
  <2>3. ProcessOf[m.guid] = Key(e)
    <3>1. \A d \in {e.before, e.after} : d # Nil => d.process = Key(e)
      BY <1>9, EventIs
    <3>2. new # old
      BY <1>5, <1>6
    <3>3. QED
      BY <1>5, <1>7, <2>1, <2>2, <3>1, <3>2, SetRoutesLeaves
  <2>4. CASE ~HasUri(new, UriOf[m.route])
    BY <1>3, <2>3, <2>4 DEF Settled
  <2>5. CASE HasUri(new, UriOf[m.route])
    <3>1. PICK r \in new.routes : UriOf[r] = UriOf[m.route]
      BY <2>5 DEF HasUri
    <3>2. Absent(new, m.guid)
      <4> SUFFICES ASSUME ~Absent(new, m.guid) PROVE FALSE
        OBVIOUS
      <4> DEFINE n == [key |-> m.key, route |-> r, guid |-> m.guid, net |-> NetOf[m.guid]]
      <4>1. r \in Routes
        BY <1>4, <1>5, <3>1, LookupType DEF OwnTables, Tables, RoutableEndpoints
      <4>2. n \in Associations(HandleEvent(t, e))
        BY <1>4, <1>5, <3>1, <4>1, PairsOf
      <4>3. n.key.table = "http" /\ Hash(n) = Hash(m)
        BY <1>5, <3>1 DEF Hash
      <4>4. n \notin EventRegistrations(t, e)
        BY <4>3, InHashes
      <4>5. n \in Associations(t)
        BY <1>1, <4>2, <4>4 DEF Emits
      <4>6. n = m
        BY <1>3, <4>3, <4>5, OnePair
      <4>7. QED
        BY <1>3, <4>2, <4>6
    <3>3. new.desiredInstances <= IndexOf[m.guid]
      <4>1. PICK ek \in EndpointKey : ek[1] = m.guid /\ old.endpoints[ek] # Nil
        BY <1>5 DEF Absent
      <4>2. new.endpoints[ek] # old.endpoints[ek]
        BY <3>2, <4>1 DEF Absent
      <4>3. \/ new.endpoints[ek] = old.endpoints[ek]
            \/ new.endpoints[ek] = Nil /\ new.desiredInstances <= IndexOf[ek[1]]
        <5>1. PICK k \in Keys : k = m.key
          BY <1>5, Zenon
        <5>2. LET was == Lookup(t, k)
                  is == Lookup(SetRoutes(t, e.before, e.after), k)
              IN  \/ is.endpoints[ek] = was.endpoints[ek]
                  \/ is.endpoints[ek] = Nil /\ is.desiredInstances <= IndexOf[ek[1]]
          BY <1>7, <2>2, SetRoutesLeaves, Zenon
        <5>3. QED
          BY <2>1, <5>1, <5>2
      <4>4. QED
        BY <4>1, <4>2, <4>3
    <3>4. QED
      BY <1>3, <2>3, <3>1, <3>2, <3>3 DEF Settled
  <2>6. QED
    BY <2>4, <2>5
<1>10. QED
  BY <1>8, <1>9, EventIs, Zenon

--------------------------------------------------------------------------------
(* Tables that name a URI once under each key, and the other operations.   *)

Distinct(t) == \A k \in Keys : DistinctUris(Lookup(t, k).routes)

(* SetRoutes with the routes of one DesiredLRP. *)
LEMMA SetRoutesOwned ==
    ASSUME NEW t \in OwnTables, NEW before \in DesiredLRP \cup {Nil},
           NEW after \in Desireds \cup {Nil}
    PROVE  /\ SetRoutes(t, before, after) \in OwnTables
           /\ Distinct(t) => Distinct(SetRoutes(t, before, after))
<1>1. t \in Tables(NetOf) /\ Owned(t) /\ TableOK(t) /\ after \in DesiredLRP \cup {Nil}
  BY TablesOK DEF OwnTables, Desireds
<1>2. SetRoutes(t, before, after) \in Tables(NetOf)
  BY <1>1, SetRoutesFrom
<1>3. Owned(SetRoutes(t, before, after))
  BY <1>1, SetRoutesLeaves DEF Owned
<1>4. ASSUME Distinct(t), NEW k \in Keys
      PROVE  DistinctUris(Lookup(SetRoutes(t, before, after), k).routes)
  <2>1. \/ Lookup(SetRoutes(t, before, after), k).routes \in {Lookup(t, k).routes, {}}
        \/ /\ after # Nil
           /\ Lookup(SetRoutes(t, before, after), k).routes = after.routes[k]
    BY <1>1, SetRoutesLeaves
  <2>2. DistinctUris(Lookup(t, k).routes) /\ DistinctUris({})
    BY <1>4 DEF Distinct, DistinctUris
  <2>3. after # Nil => DistinctUris(after.routes[k])
    BY DEF Desireds
  <2>4. QED
    BY <2>1, <2>2, <2>3
<1>5. QED
  BY <1>2, <1>3, <1>4 DEF OwnTables, Distinct

(* AddEndpoint of an instance. *)
LEMMA AddEndpointOwned ==
    ASSUME NEW t \in OwnTables, NEW lrp \in Actuals
    PROVE  /\ AddEndpoint(t, lrp) \in OwnTables
           /\ Distinct(t) => Distinct(AddEndpoint(t, lrp))
<1>1. IsInstance(lrp) /\ Agrees(lrp, NetOf)
  BY InstanceLRPIsInstance, HashAssumption DEF Actuals, Agrees, InstanceLRP
<1>2. t \in Tables(NetOf) /\ Owned(t) /\ t \in Table
  BY DEF OwnTables, Tables
<1>3. AddEndpoint(t, lrp) \in Tables(NetOf)
  BY <1>1, <1>2, AddEndpointFrom
<1>4. Moves(t, AddEndpoint(t, lrp), lrp.guid)
  BY <1>1, <1>2, AddEndpointMoves
<1>5. Owned(AddEndpoint(t, lrp))
  BY <1>2, <1>4, MovesOwned
<1>6. Distinct(t) => Distinct(AddEndpoint(t, lrp))
  BY <1>4, Zenon DEF Distinct, Moves
<1>7. QED
  BY <1>3, <1>5, <1>6 DEF OwnTables

(* Events. *)
LEMMA EventDistinct ==
    ASSUME NEW t \in OwnTables, Distinct(t), NEW e \in Events
    PROVE  Distinct(HandleEvent(t, e))
<1>1. CASE e.type = "desired"
  <2>1. HandleEvent(t, e) = SetRoutes(t, e.before, e.after)
    BY <1>1 DEF HandleEvent, FirstCall, IsActualUpdate, handleDesired
  <2>2. e.before \in Desireds \cup {Nil} /\ e.after \in Desireds \cup {Nil}
    BY <1>1, EventIs
  <2>3. e.before \in DesiredLRP \cup {Nil}
    BY <2>2 DEF Desireds
  <2>4. QED
    BY <2>1, <2>2, <2>3, SetRoutesOwned, Zenon
<1>2. CASE e.type = "actual"
  <2>1. Moves(t, HandleEvent(t, e), Key(e))
    BY <1>2, EventMoves DEF OwnTables
  <2>2. QED
    BY <2>1, Zenon DEF Distinct, Moves
<1>3. QED
  BY <1>1, <1>2, EventIs

(* The table a sync starts with. *)
LEMMA EmptyOwned == EmptyTable \in OwnTables /\ Distinct(EmptyTable)
<1>1. \A k \in Keys : Lookup(EmptyTable, k) = ZeroEntry
  BY DEF EmptyTable, Lookup
<1>2. ZeroEntry.routes = {} /\ \A ek \in EndpointKey : ZeroEntry.endpoints[ek] = Nil
  BY DEF ZeroEntry, NoEndpoints
<1>3. Owned(EmptyTable)
  BY <1>1, <1>2 DEF Owned
<1>4. Distinct(EmptyTable)
  BY <1>1, <1>2 DEF Distinct, DistinctUris
<1>5. QED
  BY <1>3, <1>4, EmptyTableFrom DEF OwnTables

(* The swap takes the endpoints of the second table, ... *)
LEMMA SwapOwned ==
    ASSUME NEW t \in OwnTables, NEW other \in OwnTables, NEW domains
    PROVE  Swap(t, other, domains) \in OwnTables
<1>1. TableOK(t) /\ t \in Table /\ other \in Tables(NetOf) /\ other \in Table
  BY TablesOK DEF OwnTables, Tables
<1>2. Swap(t, other, domains) \in Tables(NetOf)
  BY <1>1, SwapFrom
<1>3. Owned(Swap(t, other, domains))
  BY <1>1, SwapLeaves DEF OwnTables, Owned
<1>4. QED
  BY <1>2, <1>3 DEF OwnTables

(* ... and of the first no route of a domain that is fresh. *)
LEMMA FreshSwap ==
    ASSUME NEW t \in Table, NEW other \in Table, NEW k \in Keys,
           Lookup(t, k).routes = {} \/ Lookup(t, k).domain # Nil
    PROVE  Lookup(Swap(t, other, Domains), k).routes = Lookup(other, k).routes
<1> DEFINE new == Swap(t, other, Domains)
           merged == mergeUnfreshRoutes(t[k], Lookup(other, k), Domains)
<1>1. CASE t[k] = Nil
  BY <1>1 DEF Swap, Lookup
<1>2. CASE t[k] # Nil
  <2>1. t[k] \in RoutableEndpoints /\ Lookup(other, k) \in RoutableEndpoints
    BY <1>2, LookupType DEF Table
  <2>2. t[k].routes = {} \/ t[k].domain \in Domains
    BY <1>2, <2>1 DEF Lookup, RoutableEndpoints
  <2>3. merged \in RoutableEndpoints /\ merged.routes = Lookup(other, k).routes
    BY <2>1, <2>2, Zenon DEF mergeUnfreshRoutes, RoutableEndpoints
  <2>4. new[k] = deleteEntryIfEmpty(merged)
    BY <1>2 DEF Swap
  <2>5. QED
    BY <2>3, <2>4, LookupDeleted
<1>3. QED
  BY <1>1, <1>2

--------------------------------------------------------------------------------
(* The inductive invariant.                                                *)

(* While a sync builds its second table the cache does not change; while   *)
(* it replays events, a pair of the live table that comes into the cache   *)
(* is settled in the second one.                                           *)
CacheInv ==
    /\ phase = "build" => Contradicted \subseteq found
    /\ phase = "replay" =>
          \A m \in Associations(entries) :
             m.key.table = "http" /\ Hash(m) \in cache =>
                \/ Hash(m) \in found
                \/ Settled(Lookup(newEntries, m.key), replayed, m.guid, UriOf[m.route])

IInv ==
    /\ entries \in OwnTables /\ newEntries \in OwnTables
    /\ Distinct(newEntries)
    /\ CacheInv

(* No pair is in the empty table, and the cache is empty. *)
LEMMA InitInv == Init => IInv
  BY EmptyOwned DEF Init, IInv, CacheInv

(* A step that keeps table and cache keeps what they have in common. *)
LEMMA SameContradicted ==
    ASSUME UNCHANGED <<entries, cache>>
    PROVE  Contradicted' = Contradicted
  BY DEF Contradicted

(* A replayed event.  A pair of the live table that is in the cache was    *)
(* there and stays settled, or the event puts it there and settles it: the *)
(* pairs that the event unregisters are of the second table, and one of    *)
(* them has the hash of the pair of the live table.                        *)
LEMMA ReplayInv ==
    ASSUME IInv, NEW e \in Events, Replay(e)
    PROVE  IInv'
<1>1. /\ entries \in OwnTables /\ newEntries \in OwnTables /\ Distinct(newEntries) /\ CacheInv
      /\ entries' = entries /\ found' = found /\ newEntries' = HandleEvent(newEntries, e)
      /\ phase' = "replay" /\ replayed' = replayed \cup {Key(e)} /\ Key(e) \notin replayed
  BY DEF IInv, Replay
<1>2. newEntries' \in OwnTables /\ Distinct(newEntries')
  BY <1>1, EventOwned, EventDistinct
<1>3. ASSUME NEW m \in Associations(entries), m.key.table = "http", Hash(m) \in cache',
             Hash(m) \notin found
      PROVE  Settled(Lookup(newEntries', m.key), replayed', m.guid, UriOf[m.route])
  <2>1. m.key \in Keys /\ m.guid \in Guids /\ m.key.process = ProcessOf[m.guid]
    BY <1>1, PairFields
  <2>2. CASE Hash(m) \in cache
    <3>1. phase \in {"build", "replay"}
      BY DEF Replay
    <3>2. phase # "build"
      <4>1. Hash(m) \in Contradicted
        BY <1>3, <2>2, InHashes DEF Contradicted
      <4>2. QED
        BY <1>1, <1>3, <4>1 DEF CacheInv
    <3>3. Settled(Lookup(newEntries, m.key), replayed, m.guid, UriOf[m.route])
      BY <1>1, <1>3, <2>2, <3>1, <3>2 DEF CacheInv
    <3>4. PICK k \in Keys, g \in Guids : k = m.key /\ g = m.guid
      BY <2>1, Zenon
    <3>5. Settled(Lookup(HandleEvent(newEntries, e), k), replayed \cup {Key(e)}, g,
                  UriOf[m.route])
      BY <1>1, <2>1, <3>3, <3>4, StaysSettled
    <3>6. QED
      BY <1>1, <3>4, <3>5
  <2>3. CASE Hash(m) \notin cache
    <3>1. IsUpdate(e)
      BY <1>3, <2>3 DEF Replay, CacheEvent
    <3>2. /\ Hash(m) \in Hashes(EventUnregistrations(newEntries, e))
          /\ Hash(m) \notin Hashes(EventRegistrations(newEntries, e))
      BY <1>3, <2>3, <3>1 DEF Replay, CacheEvent, UpdateCache
    <3>3. PICK n \in EventUnregistrations(newEntries, e) :
             n.key.table = "http" /\ Hash(m) = Hash(n)
      BY <3>2, InHashes
    <3>4. /\ n \in Associations(newEntries)
          /\ Settled(Lookup(HandleEvent(newEntries, e), n.key), replayed \cup {Key(e)},
                     n.guid, UriOf[n.route])
      BY <1>1, <3>2, <3>3, BecomesSettled, Zenon DEF Distinct
    <3>5. m.key = n.key /\ m.guid = n.guid /\ UriOf[m.route] = UriOf[n.route]
      <4>1. m.key.table = n.key.table
        BY <1>3, <3>3, Zenon
      <4>2. n \in Associations(newEntries) /\ Hash(m) = Hash(n)
        BY <3>3, <3>4, Zenon
      <4>3. QED
        BY <1>1, <1>3, <4>1, <4>2, SamePair
    <3>6. QED
      BY <1>1, <3>4, <3>5, Zenon
  <2>4. QED
    BY <2>2, <2>3
<1>4. CacheInv'
  BY <1>1, <1>3, Zenon DEF CacheInv
<1>5. QED
  BY <1>1, <1>2, <1>4 DEF IInv

(* Every step keeps the invariant. *)
LEMMA StepInv == IInv /\ [Next]_vars => IInv'
<1> SUFFICES ASSUME IInv, [Next]_vars PROVE IInv'
  OBVIOUS
<1>1. entries \in OwnTables /\ newEntries \in OwnTables /\ Distinct(newEntries) /\ CacheInv
  BY DEF IInv
<1>2. ASSUME NEW e \in Events, HandleLive(e) PROVE IInv'
  <2>1. entries' \in OwnTables
    BY <1>1, <1>2, EventOwned DEF HandleLive
  <2>2. QED
    BY <1>1, <1>2, <2>1, Zenon DEF HandleLive, IInv, CacheInv
<1>3. ASSUME NEW e \in Events, Replay(e) PROVE IInv'
  BY <1>3, ReplayInv
<1>4. ASSUME NEW lrp \in Desireds, Refresh(lrp) PROVE IInv'
  <2>1. entries' = SetRoutes(entries, Nil, lrp)
    BY <1>4, NilAssumption DEF Refresh, RefreshDesired, Desireds
  <2>2. entries' \in OwnTables
    BY <1>1, <2>1, SetRoutesOwned
  <2>3. QED
    BY <1>1, <1>4, <2>2 DEF Refresh, IInv, CacheInv
<1>5. ASSUME NEW lrp \in Desireds, BuildRoutes(lrp) PROVE IInv'
  <2>1. newEntries' \in OwnTables /\ Distinct(newEntries')
    BY <1>1, <1>5, SetRoutesOwned DEF BuildRoutes
  <2>2. Contradicted' = Contradicted
    BY <1>5, SameContradicted DEF BuildRoutes
  <2>3. QED
    BY <1>1, <1>5, <2>1, <2>2 DEF BuildRoutes, IInv, CacheInv
<1>6. CASE StartSync
  <2>1. newEntries' \in OwnTables /\ Distinct(newEntries')
    BY <1>6, EmptyOwned DEF StartSync
  <2>2. Contradicted' = Contradicted
    BY <1>6, SameContradicted DEF StartSync
  <2>3. QED
    BY <1>1, <1>6, <2>1, <2>2 DEF StartSync, IInv, CacheInv
<1>7. ASSUME NEW lrp \in Actuals, BuildEndpoint(lrp) PROVE IInv'
  <2>1. newEntries' \in OwnTables /\ Distinct(newEntries')
    BY <1>1, <1>7, AddEndpointOwned DEF BuildEndpoint
  <2>2. Contradicted' = Contradicted
    BY <1>7, SameContradicted DEF BuildEndpoint
  <2>3. QED
    BY <1>1, <1>7, <2>1, <2>2, Zenon DEF BuildEndpoint, IInv, CacheInv
<1>8. ASSUME NEW domains \in SUBSET Domains, EndSync(domains) PROVE IInv'
  <2>1. entries' \in OwnTables
    BY <1>1, <1>8, SwapOwned DEF EndSync
  <2>2. newEntries' \in OwnTables /\ Distinct(newEntries')
    BY <1>8, EmptyOwned DEF EndSync
  <2>3. QED
    BY <1>8, <2>1, <2>2, Zenon DEF EndSync, IInv, CacheInv
<1>9. CASE UNCHANGED vars
  <2>1. Contradicted' = Contradicted
    BY <1>9, SameContradicted DEF vars
  <2>2. QED
    BY <1>1, <1>9, <2>1 DEF vars, IInv, CacheInv
<1>10. QED
  BY <1>2, <1>3, <1>4, <1>5, <1>6, <1>7, <1>8, <1>9 DEF Next

--------------------------------------------------------------------------------
(* What the steps leave of the cache.                                      *)

(* Add and Remove for the messages between two tables. *)
LEMMA UpdateApart ==
    ASSUME entries \in OwnTables, entries' \in OwnTables, TableDistinct, NEW R, NEW U,
           Emits(entries, entries', R, U), UpdateCache(R, U),
           NEW h, h \in Contradicted'
    PROVE  /\ h \in Contradicted
           /\ \E m \in Associations(entries') :
                 m \in Associations(entries) /\ m.key.table = "http" /\ h = Hash(m)
<1>1. h \in cache' /\ h \in Hashes(Associations(entries'))
  BY DEF Contradicted, Hashes, Hash
<1>2. PICK m \in Associations(entries') : m.key.table = "http" /\ h = Hash(m)
  BY <1>1, InHashes
<1>3. h \in (cache \cup Hashes(U)) \ Hashes(R)
  BY <1>1 DEF UpdateCache
<1>4. h \in cache /\ m \in Associations(entries)
  BY <1>2, <1>3, CacheApart DEF TableDistinct
<1>5. QED
  BY <1>2, <1>4, InHashes DEF Contradicted

(* A pair of the table a sync installs, with every domain fresh, is not    *)
(* settled in the second table.                                            *)
LEMMA InstalledUnsettled ==
    ASSUME NEW t \in OwnTables, NEW other \in OwnTables,
           NEW m \in Associations(Swap(t, other, Domains)), NEW done,
           \A k \in Keys : Lookup(t, k).routes = {} \/ Lookup(t, k).domain # Nil,
           \A k \in Keys : Lookup(other, k).routes = {} \/ Lookup(other, k).desiredInstances # 0
    PROVE  ~Settled(Lookup(other, m.key), done, m.guid, UriOf[m.route])
<1> DEFINE new == Swap(t, other, Domains)
<1>1. t \in Table /\ other \in Table /\ new \in OwnTables
  BY SwapOwned, Zenon DEF OwnTables, Tables
<1>2. /\ m.key \in Keys /\ m.route \in Lookup(new, m.key).routes
      /\ ~Absent(Lookup(new, m.key), m.guid)
  BY <1>1, PairFields
<1>3. PICK k \in Keys : k = m.key
  BY <1>2, Zenon
<1>4. /\ Lookup(new, k).routes = Lookup(other, k).routes
      /\ Lookup(new, k).endpoints = Lookup(other, k).endpoints
  BY <1>1, FreshSwap, SwapLeaves
<1>5. m.route \in Lookup(other, k).routes /\ ~Absent(Lookup(other, k), m.guid)
  BY <1>2, <1>3, <1>4 DEF Absent
<1>6. HasUri(Lookup(other, k), UriOf[m.route]) /\ Lookup(other, k).desiredInstances # 0
  BY <1>5 DEF HasUri
<1>7. QED
  BY <1>3, <1>5, <1>6, Zenon DEF Settled

--------------------------------------------------------------------------------
(* Theorems.                                                               *)

(* In every reachable state the endpoints are at the addresses of their    *)
(* instances, and what the events replayed in a sync put into the cache    *)
(* cannot come back into its second table (handler.go:151-193).            *)
THEOREM Invariance == Spec => []IInv
  BY InitInv, StepInv, PTL DEF Spec

(* An update or a sync leaves no pair of the table in the cache that it    *)
(* did not find there: unregistrationCache.Add comes before Remove, and    *)
(* what is unregistered is not registered under another URI or address     *)
(* (handler.go:193, 239, 287).                                             *)
THEOREM CacheStaysApart == Spec => UpdatesKeepCacheApart
<1>1. ASSUME IInv, TableDistinct, NEW h \in Contradicted',
             \/ \E e \in Events : IsUpdate(e) /\ HandleLive(e)
             \/ \E d \in SUBSET Domains : EndSync(d)
      PROVE  h \in Contradicted
  <2>1. entries \in OwnTables /\ newEntries \in OwnTables
    BY <1>1 DEF IInv
  <2>2. ASSUME NEW e \in Events, IsUpdate(e), HandleLive(e) PROVE h \in Contradicted
    <3>1. entries' \in OwnTables
      BY <2>1, <2>2, EventOwned DEF HandleLive
    <3>2. Emits(entries, entries', EventRegistrations(entries, e),
                EventUnregistrations(entries, e))
      BY <2>1, <2>2, EventEmits DEF HandleLive
    <3>3. UpdateCache(EventRegistrations(entries, e), EventUnregistrations(entries, e))
      BY <2>2 DEF HandleLive, CacheEvent
    <3>4. QED
      BY <1>1, <2>1, <3>1, <3>2, <3>3, UpdateApart
  <2>3. ASSUME NEW d \in SUBSET Domains, EndSync(d) PROVE h \in Contradicted
    <3>1. entries' \in OwnTables
      BY <2>1, <2>3, SwapOwned DEF EndSync
    <3>2. Emits(entries, entries', Registrations(entries, entries'),
                Unregistrations(entries, entries'))
      BY <2>1, <3>1, StepEmits
    <3>3. UpdateCache(Registrations(entries, entries'), Unregistrations(entries, entries'))
      BY <2>3 DEF EndSync
    <3>4. QED
      BY <1>1, <2>1, <3>1, <3>2, <3>3, UpdateApart
  <2>4. QED
    BY <1>1, <2>2, <2>3
<1> DEFINE Step == \/ Contradicted' \subseteq Contradicted
                   \/ ~TableDistinct
                   \/ ~ \/ \E e \in Events : IsUpdate(e) /\ HandleLive(e)
                        \/ \E d \in SUBSET Domains : EndSync(d)
<1>2. IInv => Step
  BY <1>1
<1>3. QED
  BY <1>2, Invariance, PTL DEF UpdatesKeepCacheApart

(* A sync with every domain fresh leaves no pair of the table in the cache *)
(* that was not there when it started, although the events it replays on   *)
(* its second table write to the cache (handler.go:178-193).               *)
THEOREM FreshSyncSpares == Spec => FreshSyncSparesPairs
<1>1. ASSUME IInv, TableDistinct, EndSync(Domains), NEW h \in Contradicted',
             \A k \in Keys : Lookup(entries, k).routes = {} \/ Lookup(entries, k).domain # Nil,
             \A k \in Keys : \/ Lookup(newEntries, k).routes = {}
                            \/ Lookup(newEntries, k).desiredInstances # 0
      PROVE  h \in found
  <2>1. entries \in OwnTables /\ newEntries \in OwnTables /\ CacheInv
    BY <1>1 DEF IInv
  <2>2. entries' = Swap(entries, newEntries, Domains) /\ entries' \in OwnTables
    BY <1>1, <2>1, SwapOwned DEF EndSync
  <2>3. Emits(entries, entries', Registrations(entries, entries'),
              Unregistrations(entries, entries'))
    BY <2>1, <2>2, StepEmits
  <2>4. UpdateCache(Registrations(entries, entries'), Unregistrations(entries, entries'))
    BY <1>1 DEF EndSync
  <2>5. /\ h \in Contradicted
        /\ \E m \in Associations(entries') :
              m \in Associations(entries) /\ m.key.table = "http" /\ h = Hash(m)
    BY <1>1, <2>1, <2>2, <2>3, <2>4, UpdateApart, ZenonT(30)
  <2>6. PICK m \in Associations(entries') :
          m \in Associations(entries) /\ m.key.table = "http" /\ h = Hash(m)
    BY <2>5
  <2>7. CASE phase = "build"
    BY <2>1, <2>5, <2>7 DEF CacheInv
  <2>8. CASE phase = "replay"
    <3>1. ~Settled(Lookup(newEntries, m.key), replayed, m.guid, UriOf[m.route])
      BY <1>1, <2>1, <2>2, <2>6, InstalledUnsettled, ZenonT(30)
    <3>2. QED
      BY <2>1, <2>5, <2>6, <2>8, <3>1 DEF CacheInv, Contradicted
  <2>9. QED
    BY <1>1, <2>7, <2>8 DEF EndSync
<1> DEFINE Step == \/ Contradicted' \subseteq found
                   \/ ~TableDistinct
                   \/ \E k \in Keys :
                         Lookup(entries, k).routes # {} /\ Lookup(entries, k).domain = Nil
                   \/ \E k \in Keys :
                         Lookup(newEntries, k).routes # {} /\
                         Lookup(newEntries, k).desiredInstances = 0
                   \/ ~EndSync(Domains)
<1>2. IInv => Step
  BY <1>1
<1>3. QED
  BY <1>2, Invariance, PTL DEF FreshSyncSparesPairs
================================================================================
