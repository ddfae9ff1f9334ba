------------------------------ MODULE RouteEmitter ------------------------------
(***************************************************************************)
(* The watcher (watcher/watcher.go) between the BBS and the handler: live  *)
(* events, periodic syncs that fetch the BBS's state while events keep     *)
(* arriving, and the events cached meanwhile.                              *)
(*                                                                         *)
(* The BBS and its event stream are external: desired and actual LRPs that *)
(* change, each change an event if the watcher is subscribed.  One         *)
(* goroutine runs the watcher's select loop, so a case of it is one step;  *)
(* the fetches of a sync run beside it and each sees the BBS of its own    *)
(* moment.                                                                 *)
(***************************************************************************)
EXTENDS Handler

CONSTANTS
    LocalMode,      \* a cell id is configured: fetch desired LRPs by process guid
    Gone,           \* an ActualLRP that was removed
    Routables,      \* values of Routable the BBS sends
    Suspects,       \* whether the BBS sends an instance as suspect: {FALSE} if never
    MaxChanges,     \* bound: changes of the BBS
    MaxDisconnects, \* bound: losses of the event stream
    MaxFailures,    \* bound: failed syncs
    MaxRestarts     \* bound: restarts of the routers

ASSUME BoundsAssumption ==
    /\ {MaxChanges, MaxDisconnects, MaxFailures, MaxRestarts} \subseteq Nat
    /\ 0..MaxChanges \subseteq Epochs \cap TagIndexes

ASSUME BBSAssumption ==
    /\ Routables \subseteq {"unset", "yes", "no"}
    /\ Suspects \subseteq BOOLEAN
    /\ {Nil, Gone} \cap InstanceLRP = {}
    /\ Gone # Nil

VARIABLES
    desired, actuals, freshDomains,    \* the BBS
    subscribed, stream,                \* the event stream
    syncing, cachedEvents, fetched,    \* the watcher and the fetches of its sync
    entries,                           \* the routing table
    registered,                        \* the routers
    changes, disconnects, failures, restarts  \* counters of the bounds

bbs == <<desired, actuals, freshDomains, changes>>
table == <<entries, registered>>
faults == <<disconnects, failures, restarts>>
vars == <<bbs, subscribed, stream, syncing, cachedEvents, fetched, table, faults>>

(* An instance guid is never used again. *)
InBBS(g) == actuals[g] # Nil /\ actuals[g] # Gone

NothingFetched == [actuals |-> Nil, desired |-> Nil, domains |-> Nil]

TypeOK ==
    /\ desired \in [Processes -> DesiredLRP \cup {Nil}]
    /\ \A g \in Guids : InBBS(g) => actuals[g] \in InstanceLRP
    /\ freshDomains \subseteq Domains
    /\ subscribed \in BOOLEAN
    /\ \A i \in DOMAIN stream : stream[i] \in Event
    /\ syncing \in BOOLEAN
    /\ cachedEvents \subseteq Event
    /\ \A e1, e2 \in cachedEvents : Key(e1) = Key(e2) => e1 = e2
    /\ fetched.actuals # Nil => fetched.actuals \subseteq InstanceLRP
    /\ fetched.desired # Nil => fetched.desired \subseteq DesiredLRP
    /\ fetched.domains # Nil => fetched.domains \subseteq Domains
    /\ entries \in Table
    /\ changes \in 0..MaxChanges
    /\ disconnects \in 0..MaxDisconnects
    /\ failures \in 0..MaxFailures
    /\ restarts \in 0..MaxRestarts

(* The emitter starts with an empty table, beside a BBS at work. *)
OldTag == [epoch |-> 0, index |-> 0]

Init ==
    /\ desired \in {d \in [Processes -> {lrp \in DesiredLRP : lrp.tag = OldTag} \cup {Nil}] :
                        \A p \in Processes : d[p] # Nil => d[p].process = p}
    /\ actuals \in {a \in [Guids -> {lrp \in InstanceLRP : lrp.tag = OldTag} \cup {Nil}] :
                        \A g \in Guids : a[g] # Nil =>
                            /\ a[g].guid = g
                            /\ a[g].routable \in Routables
                            /\ Running(a[g]) /\ Ordinary(a[g])}
    /\ freshDomains = Domains
    /\ subscribed = FALSE
    /\ stream = <<>>
    /\ syncing = FALSE
    /\ cachedEvents = {}
    /\ fetched = NothingFetched
    /\ entries = EmptyTable
    /\ registered = {}
    /\ changes = 0
    /\ disconnects = 0
    /\ failures = 0
    /\ restarts = 0

--------------------------------------------------------------------------------
(* The BBS (external).  Each change raises the tag's index, or starts an   *)
(* epoch for a record that is new.                                         *)

Change ==
    /\ changes < MaxChanges
    /\ changes' = changes + 1
    /\ UNCHANGED <<subscribed, syncing, cachedEvents, fetched, table, faults>>

NewTag == [epoch |-> changes + 1, index |-> 0]
Bump(tag) == [tag EXCEPT !.index = @ + 1]

Publish(event) == stream' = IF subscribed THEN Append(stream, event) ELSE stream

DesireTo(p, lrp) ==
    /\ Change
    /\ desired' = [desired EXCEPT ![p] = lrp]
    /\ Publish(DesiredEvent(desired[p], lrp))
    /\ UNCHANGED <<actuals, freshDomains>>

CreateDesired(p) ==
    /\ desired[p] = Nil
    /\ \E lrp \in DesiredLRP :
        lrp.process = p /\ lrp.tag = NewTag /\ DesireTo(p, lrp)

UpdateDesired(p) ==
    /\ desired[p] # Nil
    /\ \E lrp \in DesiredLRP :
        /\ lrp.process = p
        /\ lrp.tag = Bump(desired[p].tag)
        /\ lrp.routes # desired[p].routes \/ lrp.instances # desired[p].instances
        /\ lrp.domain = desired[p].domain
        /\ DesireTo(p, lrp)

RemoveDesired(p) == desired[p] # Nil /\ DesireTo(p, Nil)

ActualTo(g, lrp) ==
    /\ Change
    /\ actuals' = [actuals EXCEPT ![g] = lrp]
    /\ Publish(ActualEvent(actuals[g], IF lrp = Gone THEN Nil ELSE lrp))
    /\ UNCHANGED <<desired, freshDomains>>

CreateActual(g) ==
    /\ actuals[g] = Nil
    /\ \E state \in {"CLAIMED", "RUNNING"}, net \in NetInfos, routable \in Routables :
        ActualTo(g, [guid |-> g, evacuating |-> FALSE, suspect |-> FALSE, net |-> net,
                     tag |-> NewTag, state |-> state, routable |-> routable])

StartActual(g) ==
    /\ InBBS(g) /\ actuals[g].state = "CLAIMED"
    /\ ActualTo(g, [actuals[g] EXCEPT !.state = "RUNNING", !.tag = Bump(@)])

SetRoutable(g) ==
    /\ InBBS(g) /\ Running(actuals[g])
    /\ \E routable \in Routables \ {actuals[g].routable} :
        ActualTo(g, [actuals[g] EXCEPT !.routable = routable, !.tag = Bump(@)])

Evacuate(g) ==
    /\ InBBS(g) /\ Running(actuals[g]) /\ ~actuals[g].evacuating
    /\ ActualTo(g, [actuals[g] EXCEPT !.evacuating = TRUE, !.suspect = FALSE, !.tag = NewTag])

(* The cell of the instance is missing, or is back. *)
SetSuspect(g) ==
    /\ InBBS(g) /\ Running(actuals[g]) /\ ~actuals[g].evacuating
    /\ \E suspect \in Suspects \ {actuals[g].suspect} :
        ActualTo(g, [actuals[g] EXCEPT !.suspect = suspect, !.tag = Bump(@)])

Crash(g) ==
    /\ InBBS(g) /\ Running(actuals[g])
    /\ ActualTo(g, [actuals[g] EXCEPT !.state = "CRASHED", !.tag = Bump(@)])

RemoveActual(g) == InBBS(g) /\ ActualTo(g, Gone)

(* A domain is fresh as long as its owner keeps refreshing it. *)
SetFreshness ==
    /\ Change
    /\ \E domains \in (SUBSET Domains) \ {freshDomains} : freshDomains' = domains
    /\ UNCHANGED <<desired, actuals, stream>>

BBSNext ==
    \/ \E p \in Processes : CreateDesired(p) \/ UpdateDesired(p) \/ RemoveDesired(p)
    \/ \E g \in Guids : \/ CreateActual(g) \/ StartActual(g) \/ SetRoutable(g)
                        \/ Evacuate(g) \/ SetSuspect(g) \/ Crash(g) \/ RemoveActual(g)
    \/ SetFreshness

--------------------------------------------------------------------------------
(* checkForEvents: the subscription.  When the source fails, a suffix of   *)
(* what was under way is lost, and all that changes until the watcher has  *)
(* taken the rest and subscribed again.                                    *)

Disconnect ==
    /\ subscribed
    /\ disconnects < MaxDisconnects
    /\ disconnects' = disconnects + 1
    /\ subscribed' = FALSE
    /\ \E n \in 0..Len(stream) : stream' = SubSeq(stream, 1, n)
    /\ UNCHANGED <<bbs, syncing, cachedEvents, fetched, table, failures, restarts>>

Subscribe ==
    /\ ~subscribed
    /\ stream = <<>>
    /\ subscribed' = TRUE
    /\ UNCHANGED <<bbs, stream, syncing, cachedEvents, fetched, table, faults>>

--------------------------------------------------------------------------------
(* The watcher's events.                                                   *)

(* retrieveDesiredInternal asks for the process of an instance that runs. *)
AsksForDesired(event) ==
    event.type = "actual" /\ event.after # Nil /\ Running(event.after)

(* getDesiredLRPs by one process guid: the BBS's answer, or none because   *)
(* the fetch failed.                                                       *)
Answers(p) == {desired[p], Nil}

TakeEvent ==
    /\ stream # <<>>
    /\ stream' = Tail(stream)
    /\ UNCHANGED <<bbs, subscribed, syncing, fetched, faults>>

(* Mutant of CacheEvent: an event does not replace the one with its key. *)
CacheEventBeside ==
    /\ syncing
    /\ TakeEvent
    /\ cachedEvents' = cachedEvents \cup {Head(stream)}
    /\ UNCHANGED table

CacheEvent ==
    /\ syncing
    /\ TakeEvent
    /\ cachedEvents' = {e \in cachedEvents : Key(e) # Key(Head(stream))} \cup {Head(stream)}
    /\ UNCHANGED table

(* handleEvent: refresh the desired LRP if the table has no external route *)
(* for the instance, emit, handle the event, emit.                         *)
HandleLiveEvent ==
    /\ ~syncing
    /\ TakeEvent
    /\ UNCHANGED cachedEvents
    /\ LET event == Head(stream)
           refresh == AsksForDesired(event) /\ ShouldRefreshDesired(entries, event.after)
           answers == IF refresh THEN Answers(ProcessOf[event.after.guid]) ELSE {Nil}
       IN  \E refreshed \in {RefreshDesired(entries, lrp) : lrp \in answers} :
            /\ entries' = HandleEvent(refreshed, event)
            /\ registered' =
                emitMessages(emitMessages(registered, Registrations(entries, refreshed),
                                          Unregistrations(entries, refreshed)),
                             EventRegistrations(refreshed, event),
                             EventUnregistrations(refreshed, event))

--------------------------------------------------------------------------------
(* A sync: a tick of the syncer starts it, three fetches see the BBS, each *)
(* at its own time, and the loop applies the result.  A tick during a sync *)
(* changes nothing.                                                        *)

(* Mutant of StartSync: no sync while there is an event source. *)
StartSyncUnsubscribed ==
    /\ ~syncing
    /\ ~subscribed
    /\ syncing' = TRUE
    /\ UNCHANGED <<bbs, subscribed, stream, cachedEvents, fetched, table, faults>>

StartSync ==
    /\ ~syncing
    /\ syncing' = TRUE
    /\ UNCHANGED <<bbs, subscribed, stream, cachedEvents, fetched, table, faults>>

Fetch(field, answer) ==
    /\ syncing
    /\ fetched[field] = Nil
    /\ fetched' = [fetched EXCEPT ![field] = answer]
    /\ UNCHANGED <<bbs, subscribed, stream, syncing, cachedEvents, table, faults>>

FetchActuals == Fetch("actuals", {actuals[g] : g \in {h \in Guids : InBBS(h)}})

(* With a cell id, the processes of the actual LRPs fetched before. *)
FetchDesired ==
    /\ LocalMode => fetched.actuals # Nil
    /\ LET wanted == IF LocalMode THEN {ProcessOf[lrp.guid] : lrp \in fetched.actuals}
                     ELSE Processes
       IN  Fetch("desired", {desired[p] : p \in {q \in wanted : desired[q] # Nil}})

FetchDomains == Fetch("domains", freshDomains)

AllFetched == \A field \in DOMAIN fetched : fetched[field] # Nil

(* A fetch failed: the sync is given up.  The cached events stay. *)
SyncFails ==
    /\ syncing
    /\ ~AllFetched
    /\ failures < MaxFailures
    /\ failures' = failures + 1
    /\ syncing' = FALSE
    /\ fetched' = NothingFetched
    /\ UNCHANGED <<bbs, subscribed, stream, cachedEvents, table, disconnects, restarts>>

(* retrieveDesiredWhileSyncing also asks for a process that is not among   *)
(* the fetched ones.                                                       *)
ProcessesToAsk ==
    {ProcessOf[e.after.guid] :
        e \in {c \in cachedEvents :
                /\ AsksForDesired(c)
                /\ \/ ShouldRefreshDesired(entries, c.after)
                   \/ \A d \in fetched.desired : d.process # ProcessOf[c.after.guid]}}

RunningActuals == {lrp \in fetched.actuals : Running(lrp) /\ MayRoute(lrp)}

(* The LRPs retrieveDesiredWhileSyncing has: a fetch may fail. *)
CachedDesired ==
    {{desired[p] : p \in answered} :
        answered \in SUBSET {p \in ProcessesToAsk : desired[p] # Nil}}

(* The tables Sync may build. *)
NewTables ==
    {newTable(ds, cs, as, es) :
        ds \in Orders(fetched.desired), cs \in UNION {Orders(C) : C \in CachedDesired},
        as \in Orders(RunningActuals), es \in Orders(cachedEvents)}

FinishSync ==
    /\ syncing
    /\ AllFetched
    /\ syncing' = FALSE
    /\ cachedEvents' = {}
    /\ fetched' = NothingFetched
    /\ UNCHANGED <<bbs, subscribed, stream, faults>>

EndSync ==
    /\ FinishSync
    /\ \E new \in NewTables : entries' = Swap(entries, new, fetched.domains)
    /\ registered' = emitMessages(registered, Registrations(entries, entries'),
                                  Unregistrations(entries, entries'))

--------------------------------------------------------------------------------
(* Mutant of Emit: the external emission is never due. *)
EmitInternalOnly ==
    /\ registered' = registered \cup GetRoutingEvents(entries, InternalKeys)
    /\ UNCHANGED <<bbs, subscribed, stream, syncing, cachedEvents, fetched, entries, faults>>

(* The periodic emissions of the scheduler, external and internal, also    *)
(* while a sync is under way.                                              *)
Emit ==
    /\ UNCHANGED <<syncing, fetched, stream, subscribed, cachedEvents, entries, bbs, faults>>
    /\ \E keys \in {ExternalKeys, InternalKeys} :
            registered' = registered \cup GetRoutingEvents(entries, keys)

(* The routers (external) restart with nothing registered. *)
RoutersRestart ==
    /\ restarts < MaxRestarts
    /\ restarts' = restarts + 1
    /\ registered' = {}
    /\ UNCHANGED <<bbs, subscribed, stream, syncing, cachedEvents, fetched, entries,
                   disconnects, failures>>

WatcherNext ==
    \/ Subscribe \/ CacheEvent \/ HandleLiveEvent
    \/ StartSync \/ FetchActuals \/ FetchDesired \/ FetchDomains \/ EndSync
    \/ Emit

Next == BBSNext \/ Disconnect \/ SyncFails \/ RoutersRestart \/ WatcherNext

Spec == Init /\ [][Next]_vars

(* The loop takes what the event stream offers and subscribes again, the   *)
(* syncer and the scheduler tick for ever and the BBS answers in the end.  *)
(* TakeEvent and FinishSync are the control of CacheEvent, HandleLiveEvent *)
(* and EndSync, enabled when those are, and no other step satisfies them.  *)
Fairness ==
    /\ WF_subscribed(Subscribe)
    /\ WF_stream(TakeEvent)
    /\ WF_syncing(StartSync)
    /\ WF_fetched(FetchActuals) /\ WF_fetched(FetchDesired) /\ WF_fetched(FetchDomains)
    /\ WF_syncing(FinishSync)
    /\ WF_registered(Emit)

FairSpec == Spec /\ Fairness

--------------------------------------------------------------------------------
(* The routers hold no pair of route and instance that the table has not,  *)
(* and unless they restarted, all that it has: also when the messages of   *)
(* two calls are merged into one emission, when a refresh precedes the     *)
(* event, and when a sync replays cached events on the table it swaps in.  *)
RoutersMirrorTable ==
    /\ registered \subseteq Associations(entries)
    /\ restarts = 0 => Associations(entries) \subseteq registered

(* What the BBS wants routed: the routes of a process on the instances     *)
(* that run, are routable and are within the desired number.               *)
Serves(g) == InBBS(g) /\ Running(actuals[g]) /\ MayRoute(actuals[g])

WantedPairs ==
    {m \in [key : Keys, route : Routes, guid : Guids, net : NetInfos] :
        /\ Serves(m.guid)
        /\ m.net = actuals[m.guid].net
        /\ m.key.process = ProcessOf[m.guid]
        /\ desired[m.key.process] # Nil
        /\ m.route \in desired[m.key.process].routes[m.key]
        /\ IndexOf[m.guid] < desired[m.key.process].instances}

(* A sync during which no event was cached brings the routers (if they did *)
(* not restart) to the state the BBS answered with: every pair it wants is *)
(* registered, and nothing on an instance that it did not report as        *)
(* running and routable.                                                   *)
SyncInstallsAnswer ==
    [][EndSync /\ cachedEvents = {} /\ restarts = 0 =>
        /\ \A lrp \in RunningActuals, d \in fetched.desired, k \in Keys :
            (k.process = d.process /\ d.process = ProcessOf[lrp.guid]
                /\ IndexOf[lrp.guid] < d.instances) =>
                \A r \in d.routes[k] :
                    [key |-> k, route |-> r, guid |-> lrp.guid, net |-> lrp.net]
                        \in registered'
        /\ \A m \in registered' : \E lrp \in RunningActuals : lrp.guid = m.guid]_vars

(* Once the BBS stays as it is, every wanted pair is registered for good,  *)
(* whatever events were lost, cached over one another, replayed out of     *)
(* order or left over from a failed sync.                                  *)
WantedPairsRegistered == <>[](WantedPairs \subseteq registered)

(* And no registration points at an instance that does not serve.          *)
DeadInstancesUnregistered == <>[](\A m \in registered : Serves(m.guid))

(* And, if its domains stay fresh, no route is registered that its process *)
(* does not want, save those whose entry lost its domain (see              *)
(* FreshSwapIsExact in RoutingTable).                                      *)
StaleRoutesUnregistered ==
    <>[](freshDomains = Domains) =>
        <>[](\A m \in registered :
                \/ Lookup(entries, m.key).domain = Nil
                \/ /\ desired[m.key.process] # Nil
                   /\ m.route \in desired[m.key.process].routes[m.key])

(* Events cached during a sync are applied when it is over. *)
CachedEventsApplied == ~syncing => cachedEvents = {}

(* A DesiredLRP that is removed takes away the routes of versions up to    *)
(* its own, never those of a version that came after.                      *)
Newer(m, other) ==
    \/ m.epoch > other.epoch
    \/ m.epoch = other.epoch /\ m.index > other.index

RemovalSparesNewerRoutes ==
    [][HandleLiveEvent /\ Head(stream).type = "desired" /\ Head(stream).after = Nil =>
        \A k \in Keys :
            (Lookup(entries, k).routes # {}
                /\ Newer(entries[k].tag, Head(stream).before.tag)) =>
                Lookup(entries', k).routes = entries[k].routes]_vars
================================================================================
