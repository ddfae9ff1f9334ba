# Formal model of route-emitter

route-emitter keeps the routers of a Cloud Foundry deployment in step with
Diego. It watches the BBS (Diego's database of desired and actual LRPs), keeps a
routing table, and sends the routers a registration for every pair of a route
and an instance that appears and an unregistration for every pair that goes:
HTTP and internal routes over NATS, TCP routes through the routing API.

This directory holds TLA+ models of its parts, TLC runs on small instances, and
TLAPS proofs, for instances of any size, of what the routing table guarantees,
alone and under watcher and handler, and the unregistration cache, the two
emitters, the scheduler and the process group.

## The system

| Part | Source | State | Operations |
| --- | --- | --- | --- |
| routing table | `routingtable/` | per sub-table (HTTP, TCP, internal) and routing key: domain, routes, endpoints, desired instances, tag | `SetRoutes`, `RemoveRoutes`, `AddEndpoint`, `RemoveEndpoint`, `Swap`, `Get{External,Internal}RoutingEvents` |
| route handler | `routehandlers/` | the table it points at, emitters, unregistration cache | `HandleEvent`, `RefreshDesired`, `Sync`, `EmitExternal`, `EmitInternal` |
| watcher | `watcher/` | `syncing`, `cachedEvents`, the event source | a select loop over events, emissions, sync ticks, ends of syncs, resubscriptions; one goroutine per sync and three for its fetches |
| syncer, scheduler | `syncer/`, `scheduler/` | tickers, greeting | ticks into the watcher's channels |
| unregistration | `unregistration/` | messages with a send count | `Add`, `Remove`, `List`; a sender that repeats unregistrations |
| emitters | `emitter/`, `diegonats/` | work pool, token | `Emit` |
| process group | `cmd/route-emitter/` | members in order, lock | start, stop |

How they interact: the BBS streams events to the watcher, which hands each to
the handler, which calls the table and emits the messages the call returns. On a
sync tick the watcher starts a goroutine that fetches actual LRPs, desired LRPs
and fresh domains. Events that arrive meanwhile are cached by key. When the
fetches are done, `Handler.Sync` builds a new table from the answers, replays
the cached events on it (its messages are dropped), and swaps it into the live
table, and the difference is emitted. The schedulers have the whole table
emitted again and again, because routers prune what they do not hear. An update
or a sync also puts the unregistrations it emits into the unregistration cache,
from which the sender repeats them a number of times. All of these are members
of an ordered process group, behind the NATS connection and the lock.

What is hard about it: events that are late, lost, coalesced or replayed;
fetches that see the BBS at different moments; domains that are not fresh, whose
answers must not take routes away; an instance that is in the table twice while
it evacuates; failed syncs; a sender that repeats what is no longer true;
messages of one emission in any order; requests that fail halfway; a router that
restarts at the wrong moment; members that block while the process stops.
`PROJECT.json` lists these hazards with their lines.

## Modules

| Module | Models |
| --- | --- |
| `RoutingTableOps` | the operations of the table as operators on a table value, and the messages of a change |
| `RoutingTable` | the table under every sequence of calls, `Handler.Sync`'s second table, the routers |
| `Handler` | the calls an event, a refresh and a sync lead to |
| `RoutingTableLemmas` | what the operators of the two do to a table and to the routers |
| `RoutingTableProofs` | theorems about `RoutingTable` |
| `RouteEmitter` | watcher, handler and table with a BBS, an event stream and routers |
| `RouteEmitterProofs` | theorems about `RouteEmitter` |
| `Registry` | abstract: what the table and its messages promise the routers; `RoutingTable` implements it |
| `HandlerCache` | what events and syncs do to the unregistration cache |
| `HandlerCacheProofs` | theorems about `HandlerCache` |
| `Unregistration` | cache, sender and handler as interleaving goroutines, over a NATS that loses messages |
| `UnregistrationProofs` | theorems about `Unregistration` |
| `Emission` | abstract: what `NATSEmitter.Emit` promises |
| `NATSEmitter` | `Emit` of two callers over one work pool; it implements `Emission` |
| `NATSEmitterProofs` | theorems about `NATSEmitter` |
| `RoutingAPIEmitter` | `Emit` with its token and its two attempts, and a routing API with expiring mappings |
| `RoutingAPIEmitterProofs` | theorems about `RoutingAPIEmitter` |
| `Scheduler` | a scheduler, its NATS callback, the emit channel, the watcher's emissions, a router that restarts |
| `ProcessGroup` | start, failure and stop of the members; NATS connection, lock, the syncer's channel |
| `ProcessProofs` | theorems about `Scheduler` and `ProcessGroup` |
| `MCRoutingTable`, `MCRouteEmitter`, `MCHandlerCache` | the constants of the runs |

### State and abstraction

* The three sub-tables receive the same calls and never look at each other. One
  function on `Keys` stands for them; a key's `table` field names its sub-table.
* A route is its hash; an endpoint is what `endpointDifferent` compares (`net`)
  and its modification tag. `EndpointKey` is the pair of guid and Evacuating bit
  as in the code. A zero Go value, an empty string and a missing key are `Nil`;
  a read of a missing key is the zero entry (`Lookup`).
* A message is the pair of a route and an endpoint under a key. Whether it is a
  NATS message, a TCP mapping or an internal message follows from the key.
* An entry lists exactly the keys its DesiredLRP has routes for. The index and
  the process of an instance are functions of its guid.
* Modification tags keep their meaning: `SucceededBy` holds between any two
  epochs, and compares indexes within one.
* In `RouteEmitter` one case of the watcher's select loop is one step, including
  the BBS request that a refresh makes. The three fetches are steps of their own.

* In `Unregistration` and `HandlerCache` a pair is what the cache's hash tells
  apart. In `Unregistration` the cache maps a pair to the count of its message
  or `Nil`, and the sender's list says of a pair whether its pointer is `Shared`
  with the cache or leads to a message of its own: the counting after a removal
  or a replacement is the sender's alone.
* Time is counted in ticks in `RoutingAPIEmitter` and `Scheduler`. In `Scheduler`
  it does not pass a ticker that is due, a sleep that is over or a message that
  can be received. In `RoutingAPIEmitter` it passes freely: calls and the waits
  between them take any number of ticks, since the watcher's select gives no case
  a bound. Clocks stop at the ttl.
* An instance's presence is ordinary, evacuating or suspect (its cell is missing).
  Only the update from ordinary to evacuating looks at the difference between
  ordinary and suspect (`Ordinary`).
* In `ProcessGroup` a member is what its `Run` does to readiness, connection,
  lock and syncer channel. The optional debug server, first of all members and
  used by none, is left out.

Assumptions about the environment: the BBS copies net info when it evacuates an
instance (`TwinAgrees`); different instances have different addresses; the
routers apply the registrations of an emission before its unregistrations; an
instance guid is never used again. The order of an emission's messages is
assumed in `RoutingTable` and `RouteEmitter` only: the work pool does not keep it
(`NATSEmitter`), and `Unregistration` checks what any order can do.

### Actions and code

`RoutingTable`: `CallSetRoutes`, `CallRemoveRoutes`, `CallAddEndpoint` and
`CallRemoveEndpoint` are the table's operations with the emission of their
messages, on the live table or on the table of a sync; `StartSync` and
`CallSwap` bracket `Handler.Sync`; `EmitExternal` and `EmitInternal` are the
handler's; `RouterPrunes` is external. Calls come with LRPs of any tag, in any
order, which is more than the BBS would send.

`RouteEmitter`: `CacheEvent` and `HandleLiveEvent` are the event case of
`Watcher.Run`; `StartSync`, `FetchActuals`, `FetchDesired`, `FetchDomains`,
`EndSync` and `SyncFails` the sync; `Subscribe` and `Disconnect` are
`checkForEvents`; `Emit` the two emission cases. The BBS's own changes
(`SetSuspect` among them: a cell goes missing and comes back) and
`RoutersRestart` are external. `EndSync` chooses any order of the fetched LRPs,
which the BBS does not promise, and of the cached events, as Go's map iteration
does (`Orders`), and any subset of the refreshes to fail (`CachedDesired`).

`HandlerCache`: `HandleLive`, `Refresh` and `EndSync` are whole calls of the
handler; `StartSync`, `BuildRoutes`, `BuildEndpoint` and `Replay` are the stages
of `Handler.Sync` that lead to `EndSync`. They use the operators of `Handler`.

`Unregistration`: `Update` and `OtherChange` are the table part of the handler's
operations, with and without the cache; `AddUnregistrations` and
`RemoveRegistrations` its two calls of the cache; `EmitRegistration` and
`EmitUnregistration` single publications, up to `Emitted`. `Tick`, `Send` and
`CountSent` are the sender's loop.

`NATSEmitter`: `Emit`, `Submit`, `NextStage` and `Return` are the caller's side;
`Publish`, `RecordError` and `Done` a task and its deferred function.

`RoutingAPIEmitter`: `EmitChange` and `EmitExternal` are the handler's calls;
`FetchToken`, `Upsert` and `Delete`, and the ways they fail (`FetchTokenFails`,
`Unauthorized`, `RequestFails`), the steps of `emit`. `Revoke` and `Tick` are
external.

`Scheduler`: the cases of the two select loops of `Run`, with `Wake` after the
sleep. `NewTicker` and `Int63n` panic on an argument that is not positive
(`ReceiveFirstInterval`, `ReceiveInterval`). `handleExternalServiceStart` drops a message that is not JSON; a valid one
waits in its callback until `Run` receives it. `EmitExternal` and `Emitted` are
the watcher's; the rest is the router's and the clock's.

`ProcessGroup`: `Start`, `SignalMember` and `NoticeExit` are the ordered group's;
`Connect`, `ConnectFails` and `StopNats` the NATS client runner's; `SyncerReady`,
`SyncTick` and `Sync` the syncer's, the last of which blocks while the channel is
full; `WatcherTakes` and `WatcherReturns` bracket any case of the watcher. The
lock runner (`LockAcquired`, `LockLost`, `StopLock`) is the locket library's.

## Runs

| Run | Checks | Result |
| --- | --- | --- |
| `RoutingTable` | `TypeOK`; `NoStaleRegistration` and `NoMissingRegistration` (the routers equal the table, up to what they lost themselves); `RegistrySpec` (the table implements `Registry`); `SwapKeepsUnfreshRegistrations`; `NoRollback` | hold |
| `RoutingTableFreshSwap` | `FreshSwapIsExact` | violated |
| `RouteEmitter` | `RoutersMirrorTable`; `SyncInstallsAnswer` (after a quiet sync the routers have what the BBS answered); `WantedPairsRegistered`, `DeadInstancesUnregistered`, `StaleRoutesUnregistered` (the routers converge to the BBS) | hold |
| `RouteEmitterLocal` | `TypeOK`; `WantedPairsRegistered`, `DeadInstancesUnregistered` for a cell-local emitter, with routers that restart | hold |
| `RouteEmitterCached` | `CachedEventsApplied` | violated |
| `RouteEmitterRemoval` | `RemovalSparesNewerRoutes` | violated |
| `HandlerCache` | `UpdatesKeepCacheApart` (no update and no swap caches a pair the table has); `FreshSyncSparesPairs` (nor does a sync of fresh domains, whatever it replays) | hold |
| `Unregistration` | `TypeOK`; `UpdateStopsSender` (after an update at most one more withdrawal of a pair it registered); `WithdrawalsBounded` (after any registration at most one more than the send count); `CacheDrains`, `WantedPairsStay`, `RepeatsCoverLosses` | hold |
| `NATSEmitter` | `TypeOK`; `EmissionSpec` (it implements `Emission`); `EmitReturns` | hold |
| `RoutingAPIEmitter` | `TypeOK`; `SurvivesOneFault`; `WantedMappingsLive` (a mapping of the table expires only if no periodic emission succeeded for a whole ttl); `StaleMappingsExpire`; `MakeBeforeBreak` | hold |
| `Scheduler` | `TypeOK`; `EmissionGap`; `NoRequestLost`; `RestartedRouterRefilled`, `CallbacksReturn` (no callback stays blocked on the channel of a `Run` that goes on), `StopsWhenTold` | hold |
| `ProcessGroup` | `ConnectionOutlivesUsers`; `LockOutlivesWatcher`; `ShutdownCompletes`, `FailureEndsProcess` | hold |

Bounds. `RoutingTable`: one key, one instance (ordinary and evacuating), one
route, two addresses, two tags of one epoch, one or two desired instances with
the instance at index 1, so that scaling down reaches it; nothing bounds the
number of calls. Keys and instances do not interact in the table, so one of each
shows every case of an entry; the proofs drop the bounds. Addresses are only
compared, which makes their symmetry sound for these safety properties.
`RouteEmitter`: the BBS starts with or without a DesiredLRP and a running
instance and changes twice, enough for an event to be overtaken, coalesced or
lost, or for a domain to go stale after a change; one lost subscription and one
failed sync. Syncs, refreshes and emissions are not bounded. `RouteEmitterLocal`
has a restart of the routers and suspect instances, but no failed sync.
`RouteEmitterRemoval` needs three changes.

`HandlerCache`: one instance, ordinary and evacuating, and two routes with one
URI, so that an update can register and unregister one hash; two tags; a count of
one. The two routes are symmetric. Calls are not bounded. The theorems cover more
instances, suspect ones and other counts, zero included. `Unregistration`: two
pairs, two sends of each message, three changes of the table (register, withdraw,
register again) and two lost publications, which is as many as messages are
repeated. `NATSEmitter`: two callers, two workers, one message of each kind,
which lets either caller's task run before, between or beside the other's.
`RoutingAPIEmitter`: two mappings, one that replaces the other, and a ttl of four
ticks, so that a mapping can be renewed, age and expire within one call or
between two; nothing bounds calls, failures or waits. `Scheduler`: intervals of
0, 2 and 4 ticks, a jitter factor of one half, three greetings, three restarts,
two messages that wait; the interval of 0 makes both calls panic, as a jitter
factor of 0 does the second one. `ProcessGroup`: all members, with the lock and
the internal scheduler; the other modes only leave members out, and the proofs
cover them.

Deadlock is checked except where the system may stop: a scheduler that was
stopped, gave up or panicked, and a process group whose members have exited.

Fairness (`FairSpec`), in `RouteEmitter`: the watcher's loop takes what its channels offer and
subscribes again, the syncer and the scheduler tick for ever, and the BBS
answers in the end. The select loop never blocks on one case and Go's select
chooses at random, so no ready case is starved. Losses and failures are bounded
in number and not fair: they may stop. Nothing is assumed of the BBS's changes.
`TakeEvent` and `FinishSync` are the control of the event steps and of `EndSync`;
the fairness names them instead of the whole steps, which are enabled when they
are and are the only steps that satisfy them.

In `Unregistration`, handler and sender are goroutines that never wait for each
other, with tickers that go on; changes, losses and pruning are not fair. In
`NATSEmitter`, callers and workers are goroutines and the pool's queue is served
in order. In `Scheduler`, the scheduler and the callback run, time passes and the
watcher serves the channel; the router owes nothing. In `ProcessGroup`, group and
members run; a signal that competes with other cases of a select is taken in the
end, and so is a message of the syncer's channel (strong fairness: Go's select
chooses at random among the ready cases). Connections, locks and ticks owe
nothing.

### What the violations show

* `FreshSwapIsExact`: `mergeUnfreshRoutes` takes the domain of the old entry.
  One that came into being with an endpoint, before its routes, has none, keeps
  none through every swap, and counts as not fresh for ever: a sync no longer
  drops routes the BBS does not have. An event that carries the DesiredLRP
  repairs it. `StaleRoutesUnregistered` excepts such entries.
* `CachedEventsApplied`: after a failed sync the cached events stay and are
  replayed at the end of the next good one, after younger events were handled.
  The liveness runs include this: the following sync repairs what it breaks.
* `RemovalSparesNewerRoutes`: a DesiredLRP is removed and created again while
  its events wait; a refresh installs the new one; the removal of the old one
  then clears its routes, since tags of different epochs have no order, and the
  creation is ignored as already known. The next sync repairs it.

### Limits the passing properties show

The conditions in these properties are not there for convenience: the code does
not do better.

* `WithdrawalsBounded`: only updates and syncs take a message out of the cache. A
  pair that a create event or a refresh registers again is withdrawn by the
  sender until the count of the message is full, and once more if the sender held
  a message that was replaced. The next periodic emission repairs it
  (`WantedPairsStay`).
* `RepeatsCoverLosses` excepts a message that is dropped early: the sender removes
  a complete message by its hash, and one that was removed and added anew while
  the sender held the old one goes with it, unsent.
* `FreshSyncSparesPairs` is about fresh domains: the replay of cached events
  during a sync takes the emitters away, not the cache. An unregistration cached
  there belongs to the second table; the swap keeps its pair if its domain is not
  fresh, and the sender then withdraws it. It also excepts a process that is
  scaled to zero and keeps its routes: `AddEndpoint` checks the index of an
  instance only against a positive count, so that an event replayed after the
  scaling brings back an endpoint whose unregistration is cached.
* `RestartedRouterRefilled` excepts a scheduler that returned: the last greeting
  is given up as soon as it is sent, also while the answer to an earlier one
  waits. `FailureEndsProcess` shows that the process then ends.
* `CallbacksReturn` excepts a `Run` that returned: nothing reads the channel any
  more, and a callback that waits there, or comes later, waits for ever.
* A scheduler may panic, and its liveness properties except that. `Int63n` gets
  the jitter factor times the interval: it panics for an interval of 0, and, with
  a jitter factor of 0, which `config.go` allows, for every start message that
  comes after the greeting.
* `WantedMappingsLive` gives no bound on the time between periodic emissions: Go's
  select may take any number of events before an emission that is due, each with
  a request to the routing API. A deployment has to choose a ttl longer than the
  longest stretch it expects without a successful periodic emission; the
  configuration does not relate the two.
* An event that another of its key replaces in `cachedEvents` is lost, and so is
  a refresh that the live table makes seem unnecessary during a sync. The
  convergence properties hold because a later sync repairs both; they say nothing
  of the time before.

## Proofs

`RoutingTableProofs`, with the lemmas of `RoutingTableLemmas`, proves, for any
constants that satisfy
`ConstantsAssumption` and `NilAssumption` (types of the constants; `Nil` is not a
value):

* `SpecInv`: the inductive invariant `Inv`;
* `TypeCorrect`, `NeverStale`, `NeverMissing`: the three invariants of the run
  `RoutingTable`;
* `UnfreshRoutesKept`, `LateEventsIgnored`: its two action properties;
* `ImplementsRegistry`: `Spec => RegistrySpec`, with the pairs of the table as
  the abstract `wanted`. This and `NeverMissing` cover several keys, where the
  external and the internal sub-tables are pruned and emitted separately, which
  the run with one key does not.

The argument. `Inv` adds to the three invariants that in both tables the
ordinary and the evacuating endpoint of an instance agree (`Twins`). Without that
the mirror is not inductive: the diff matches an endpoint with its twin, and if
they had different addresses it could withdraw a pair that stays. First, four
lemmas about one entry: a pair that is not withdrawn is a pair of the new entry
(`KeptPairs`), only its pairs are registered (`RegisteredPairs`), each is old or
registered (`NewPairs`), and none is withdrawn (`StayingPairs`, which needs the
twins). `EmissionMirrors` lifts them to tables. Second, each operation yields a
well-formed table (the lemmas ending in `OK`). Together they show that every
step preserves `Inv`. The action properties follow from `Inv` with one lemma per
operation. The refinement follows from the same lemmas: every call and every
emission is a `Change` or a stutter, a pruning router a `Lose`.

`UnregistrationProofs`, for any pairs, send count and bounds: `TypeCorrect` (a
message is never counted up to the send count and left, so the comparison for
equality in the sender is enough), `UpdatesStopSender` and `SenderGivesUp` (the
bound of `WithdrawalsBounded`). The invariant adds `ListInv`, that a `Shared`
pointer of the sender has a message in the cache, and `QuietInv`, that a pair an
update has cleared is in the cache no more: what the sender may still send is the
one message it had listed, or has sent already. For `SenderGivesUp`, `BoundInv`
says that the withdrawals a pair has had since its registration and those the
sender still owes (the count left in the cache, and a listed message that is not
the cache's) are at most the send count and one, plus one that is sent and not
yet counted.

`NATSEmitterProofs`, for any callers, workers and finite set of messages, the four
kinds disjoint (`MessagesAssumption`; `NoneAssumption`: `None` is not a task):
`Invariance`, `TypeCorrect` and `ImplementsEmission`, that is `Spec =>
EmissionSpec`. The invariant `IInv` says where a message of a caller may be: to be
submitted, in the pool's queue or with a worker, never in two places (`Apart`,
`NoDuplicates`, `OneWorker`), and that what is to be submitted belongs to this
loop of `Emit` or a later one (`Ahead`). With that the WaitGroup is the number of the
caller's outstanding messages (`CountInv`): `wg.Wait` returns only when none is
left, and no `wg.Done` takes it below zero, which panics in Go. `IdleInv` says
that outside `Emit` nothing is outstanding, `ErrorInv` that an error recorded is
in the errors channel before `wg.Done`. The refinement follows with one lemma per
action: `Emit` is a `Call`, `Publish` a publication, `Return` a `Return`, the
others stutter.

`RoutingAPIEmitterProofs`, for any mappings and any ttl (`TTLAssumption`: a
number): `TypeCorrect`, `OneFaultSurvived`, `WantedLive`, `StaleExpire` and
`DeletesFollowUpserts`. The invariant is `TypeOK` and the two invariants about mappings with
`CallInv` (what a call holds at each of its steps: a periodic one has all wanted
mappings and no others, no mapping to register is unwanted), `FaultInv` (a second
attempt, or a revoked token, has had a fault) and `ReplacedInv` (before a delete
the upserted mappings have all of their ttl but the time the emission has taken).
`WantedMappingsLive` needs `CallInv`: the clock that a periodic upsert resets
counts for all settled mappings, because the table cannot change while the call
that renews them is under way (`WantedStep`).

`ProcessProofs`, for any intervals with a longest one, any jitter factor (a
fraction, zero included) and bounds: `TypeCorrect`, `GapBounded` and
`RequestsKept`. The invariant adds `GapInv` (time since the last request and time
left to the next stay below an interval, plus the jitter while sleeping) and
`GreetInv` (attempts while greeting).

`RouteEmitterProofs`, for any processes, instances, keys, routes and domains, and
any number of changes, lost subscriptions, failed syncs and restarts:
`Invariance`, `TypeSafe`, `RoutersMirror` (`Spec => []RoutersMirrorTable`) and
`SyncsInstallAnswers` (`Spec => SyncInstallsAnswer`). Besides the assumptions of
`RoutingTable` it uses `BoundsAssumption` (bounds are numbers; there are tags for
all the changes) and `BBSAssumption` (the values of `Routables`; `Nil` and `Gone`
are not LRPs).

The argument. The lemmas about the table need the twins to agree, and in
`RouteEmitter` nothing says so: endpoints come from events that are late, cached
or replayed, and from fetches. The invariant `IInv` says why they do. There is a
function `nets` from the instances the BBS has ever had to addresses, and every
record of an instance agrees with it: in the BBS (`NetsInv`), in the stream
(`StreamInv`), cached (`CacheInv`), fetched (`FetchInv`) and in the table
(`Tables`). A new instance extends `nets`. If a guid could be used again, with
another address, there would be no such function: hence `Gone`. `IInv` is the
mirror with that. Each step of the BBS keeps what it publishes in agreement; each
step of the watcher moves records from one place to the next; `EmissionMirrors`
does the rest. For
an update whose two calls are emitted as one (`handleActualUpdate`),
`EventMirrors` shows that the second call registers nothing, so that no
registration of it is lost to an unregistration of the first.

A sync builds its table in three loops (`SetAllRoutes`, `AddAllEndpoints`,
`ReplayAll`), recursive functions on the number of iterations. The library's
induction theorems take an operator and cannot be used here, but what these
loops preserve needs only one instance of induction: `PrefixInduction` proves,
from a least counterexample in the well-founded order on the numbers, that a set
with 0 that is closed under successors holds all numbers up to a bound. With it
a set of tables closed under the operation of a loop is closed under the loop (the
lemmas ending in `Stays`); the set for `IInv` is `Tables(nets)`. For
`SyncsInstallAnswers` the same induction shows what is in one entry after each
iteration (`SetAllRoutesYields`, `AddAllEndpointsYields`): later LRPs are of other
processes or instances and leave it (`AddEndpointSpares`). That nothing else is
registered is the first kind again, with the reported instances alone as
`nets` (`OnlyAnswersKnown`).

`ProcessProofs` has in its second part, for the four modes, `GroupInvariance`,
`ConnectionSafe` and `LockSafe`, the two invariants of the run `ProcessGroup`. The members are a
sequence, started from the left and signalled from the right. The invariant has
a part for each resource. `NatsInv`: while there is no connection no other member
has started, it is closed only when the client was signalled, and the client is
signalled only when no other member is alive. `LockInv` says the same of the lock
and the watcher, save for a lock that was lost.

`HandlerCacheProofs`, for any keys, instances, routes, domains, tags and instance
counts and any number of events and syncs: `Invariance`, `CacheStaysApart`
(`Spec => UpdatesKeepCacheApart`) and `FreshSyncSpares`
(`Spec => FreshSyncSparesPairs`), the two properties of its run. Besides the
assumptions of `RoutingTable` it uses `HashAssumption`: an instance has one
address (`NetOf`) and shares it with no other, and a key is its table, process
and port.

The argument. The cache tells pairs apart by a hash of URI and address, the table
by key, route and instance. In a table whose endpoints are at the addresses and
under the processes of their instances (`OwnTables`), two HTTP pairs with one
hash are of one key, one instance and one URI (`SamePair`), and are one pair
where a key names a URI once (`OnePair`). So a pair that a step keeps is not
withdrawn under its hash (`CacheApart`); for an update of two calls this rests on
`EventMirrors`. That gives the first property. The second is about the events
that a sync replays on its second table. Why can a later one not bring back the
pair an earlier one withdrew? `cachedEvents` has one event of a key: a pair that
the event of its instance withdrew has no endpoint and gets none
(`Settled`, first case), and one that the event of its process withdrew has no
route with the URI, or no room for the instance under a count that no other event
changes. `IInv` says that every pair of the live table that came into the cache
during the replay is settled; `StaysSettled` and `BecomesSettled` prove the two
halves of its step. What a swap of fresh domains installs is not settled
(`InstalledUnsettled`), unless the count is zero. This last exception was found
by the proof: the run has a count of one.

Only model-checked: liveness under fairness (`RouteEmitter`, `Unregistration`,
`NATSEmitter`, `Scheduler`, `ProcessGroup`), which is out of the prover's reach.

## Not modelled

* Configuration parsing and the construction of clients in `main`: their values
  are the constants of the modules.
* The contents of messages beyond what routers and cache tell apart; metrics and
  logs, and with them the LRP utilities and the table's address map, which only
  the collision metric and its log line read.
* `Ping` and `Unsubscribe` of the NATS client, which nothing calls.
* Generated fakes and test matchers.

## Plan

1. The routers' view of TCP routes in one model with `RouteEmitter`, with failed
   emissions of a sync.
2. The address map beside the endpoints: a late `RemoveEndpoint` forgets an
   address whose endpoint stays (`routingtable.go:305`), and a sync's second
   table, built without direct instance routes, replaces it (`:347`).
