------------------------------ MODULE HandlerCache ------------------------------
(***************************************************************************)
(* What the handler does to the unregistration cache                       *)
(* (routehandlers/handler.go), call by call and without the sender: an     *)
(* update of an LRP and the swap of a sync add the unregistrations they    *)
(* emit and remove the registrations, every other operation leaves the     *)
(* cache alone.  While a sync replays the cached events on its second      *)
(* table the emitters are taken away from the handler, the cache is not.   *)
(*                                                                         *)
(* The cache knows a message by its hash, of which the URI and the address *)
(* under the key's port are left here; it holds HTTP messages only.        *)
(***************************************************************************)
EXTENDS Handler

CONSTANTS
    UriOf,      \* the URI of a route; routes with one URI differ in owner, service...
    NetOf,      \* the address of an instance
    Routables,  \* values of Routable in events
    Suspects    \* values of "suspect" in events

VARIABLES
    entries,    \* the live table
    newEntries, \* newTable of Sync
    phase,      \* "live"; in Sync "build" newTable, then "replay" the cached events
    replayed,   \* keys of the events replayed: cachedEvents has one per key
    cache,      \* hashes of the cached unregistrations
    found       \* history: pairs of table and cache when the sync started

vars == <<entries, newEntries, phase, replayed, cache, found>>

(* No two instances share an address, and a key is its three fields. *)
ASSUME HashAssumption ==
    /\ NetOf \in [Guids -> NetInfos]
    /\ \A g, h \in Guids : NetOf[g] = NetOf[h] => g = h
    /\ \A k, l \in Keys :
          k.table = l.table /\ k.process = l.process /\ k.port = l.port => k = l

Hash(m) == <<UriOf[m.route], m.net, m.key.port>>
Hashes(messages) == {Hash(m) : m \in {msg \in messages : msg.key.table = "http"}}

(* Pairs the table has and the sender will withdraw. *)
Contradicted == cache \cap Hashes(Associations(entries))

Init ==
    /\ entries = EmptyTable
    /\ newEntries = EmptyTable
    /\ phase = "live"
    /\ replayed = {}
    /\ cache = {}
    /\ found = {}

(* LRPs of any tag, in any order.  A DesiredLRP names a URI once.  The BBS *)
(* copies the net info of an instance that it evacuates.  To the handler   *)
(* every state but RUNNING is the same.                                    *)
DistinctUris(routes) == \A r, s \in routes : UriOf[r] = UriOf[s] => r = s

Desireds == {lrp \in DesiredLRP : \A k \in Keys : DistinctUris(lrp.routes[k])}

Actuals ==
    {lrp \in InstanceLRP :
        /\ lrp.routable \in Routables
        /\ lrp.suspect \in Suspects /\ ~(lrp.suspect /\ lrp.evacuating)
        /\ lrp.net = NetOf[lrp.guid]
        /\ lrp.state \in {"RUNNING", "CRASHED"}}

DesiredEvents ==
    {DesiredEvent(b, a) : b \in Desireds \cup {Nil}, a \in Desireds \cup {Nil}}
    \ {DesiredEvent(Nil, Nil)}

ActualEvents ==
    {ActualEvent(b, a) : b \in Actuals \cup {Nil}, a \in Actuals \cup {Nil}}
    \ {ActualEvent(Nil, Nil)}

(* An update is about one LRP and increments its tag.  An instance may     *)
(* begin to evacuate, which gives it a tag of its own.                     *)
SameLRP(event) ==
    event.before # Nil /\ event.after # Nil =>
        IF event.type = "desired"
        THEN /\ event.before.process = event.after.process
             /\ SucceededBy(event.before.tag, event.after.tag)
        ELSE /\ event.before.guid = event.after.guid
             /\ \/ ~event.before.evacuating /\ event.after.evacuating
                \/ /\ event.before.evacuating = event.after.evacuating
                   /\ SucceededBy(event.before.tag, event.after.tag)

Events == {e \in DesiredEvents \cup ActualEvents : SameLRP(e)}

IsUpdate(event) == event.before # Nil /\ event.after # Nil

--------------------------------------------------------------------------------
(* Mutant of UpdateCache: the registrations are removed first. *)
UpdateCacheReversed(registrations, unregistrations) ==
    cache' = (cache \ Hashes(registrations)) \cup Hashes(unregistrations)

(* unregistrationCache.Add, then Remove. *)
UpdateCache(registrations, unregistrations) ==
    cache' = (cache \cup Hashes(unregistrations)) \ Hashes(registrations)

CacheEvent(table, event) ==
    IF IsUpdate(event)
    THEN UpdateCache(EventRegistrations(table, event), EventUnregistrations(table, event))
    ELSE UNCHANGED cache

HandleLive(event) ==
    /\ phase = "live"
    /\ entries' = HandleEvent(entries, event)
    /\ CacheEvent(entries, event)
    /\ UNCHANGED <<newEntries, phase, replayed, found>>

Refresh(lrp) ==
    /\ phase = "live"
    /\ entries' = RefreshDesired(entries, lrp)
    /\ UNCHANGED <<newEntries, phase, replayed, cache, found>>

StartSync ==
    /\ phase = "live"
    /\ phase' = "build"
    /\ newEntries' = EmptyTable
    /\ found' = Contradicted
    /\ UNCHANGED <<entries, replayed, cache>>

BuildRoutes(lrp) ==
    /\ phase = "build"
    /\ newEntries' = SetRoutes(newEntries, Nil, lrp)
    /\ UNCHANGED <<entries, phase, replayed, cache, found>>

BuildEndpoint(lrp) ==
    /\ phase = "build"
    /\ Running(lrp) /\ MayRoute(lrp)
    /\ newEntries' = AddEndpoint(newEntries, lrp)
    /\ UNCHANGED <<entries, phase, replayed, cache, found>>

Replay(event) ==
    /\ phase \in {"build", "replay"}
    /\ phase' = "replay"
    /\ Key(event) \notin replayed
    /\ replayed' = replayed \cup {Key(event)}
    /\ newEntries' = HandleEvent(newEntries, event)
    /\ CacheEvent(newEntries, event)
    /\ UNCHANGED <<entries, found>>

EndSync(domains) ==
    /\ phase \in {"build", "replay"}
    /\ phase' = "live"
    /\ entries' = Swap(entries, newEntries, domains)
    /\ newEntries' = EmptyTable
    /\ replayed' = {}
    /\ UpdateCache(Registrations(entries, entries'), Unregistrations(entries, entries'))
    /\ found' = {}

Next ==
    \/ \E e \in Events : HandleLive(e) \/ Replay(e)
    \/ \E lrp \in Desireds : Refresh(lrp) \/ BuildRoutes(lrp)
    \/ StartSync
    \/ \E lrp \in Actuals : BuildEndpoint(lrp)
    \/ \E domains \in SUBSET Domains : EndSync(domains)

Spec == Init /\ [][Next]_vars

--------------------------------------------------------------------------------
(* Properties. *)

(* A live update and the swap of a sync leave no pair in the cache that    *)
(* the table has, unless they found it there: Add before Remove            *)
(* (handler.go:239, 287, 193) lets a registration win over an              *)
(* unregistration of the same URI and address.  Excepted is a table that a *)
(* swap left with two routes of one URI, the old one of a domain that was  *)
(* not fresh beside the new one: the old one withdraws both when it goes.  *)
TableDistinct == \A k \in Keys : DistinctUris(Lookup(entries, k).routes)

UpdatesKeepCacheApart ==
    [][\/ Contradicted' \subseteq Contradicted
       \/ ~TableDistinct
       \/ ~ \/ \E e \in Events : IsUpdate(e) /\ HandleLive(e)
            \/ \E d \in SUBSET Domains : EndSync(d)]_vars

(* When every domain is fresh a sync leaves no pair in the cache that the  *)
(* table has, unless it was there when the sync started, although the      *)
(* events it replays on its second table write to the one cache            *)
(* (handler.go:178): the swap follows the second table in what they took   *)
(* away.  Routes without a domain never count as fresh.  For a domain that *)
(* is not fresh it does not hold: the swap keeps a pair whose              *)
(* unregistration the replay has cached.  Nor for a process scaled to zero *)
(* that keeps its routes: AddEndpoint takes a count of zero for no limit   *)
(* (routingtable.go:265), so that a later event brings back the endpoint   *)
(* whose unregistration the replay has cached.                             *)
FreshSyncSparesPairs ==
    [][\/ Contradicted' \subseteq found
       \/ ~TableDistinct
       \/ \E k \in Keys : Lookup(entries, k).routes # {} /\ Lookup(entries, k).domain = Nil
       \/ \E k \in Keys :
             Lookup(newEntries, k).routes # {} /\ Lookup(newEntries, k).desiredInstances = 0
       \/ ~EndSync(Domains)]_vars
================================================================================
