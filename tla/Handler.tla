--------------------------------- MODULE Handler ---------------------------------
(***************************************************************************)
(* The route handler (routehandlers/handler.go): which calls it makes on   *)
(* the routing table for each BBS event, for a refreshed DesiredLRP and    *)
(* for a sync, as operators on a table value.                              *)
(*                                                                         *)
(* An event is the LRP before and after: a created event has no before, a  *)
(* removed event no after.                                                 *)
(***************************************************************************)
EXTENDS RoutingTableOps, Sequences, FiniteSets, Functions

(* bbs/models: an ActualLRP with the fields the handler and watcher read.  *)
(* Its Presence is evacuating, suspect (its cell is missing) or, if        *)
(* neither, ordinary.  Routable is optional: "unset" stands for an old BBS *)
(* that does not send it.                                                  *)
ActualStates == {"CLAIMED", "RUNNING", "CRASHED"}

InstanceLRP ==
    [guid : Guids, evacuating : BOOLEAN, suspect : BOOLEAN, net : NetInfos, tag : BBSTag,
     state : ActualStates, routable : {"unset", "yes", "no"}]

Event ==
    [type : {"desired"}, before : DesiredLRP \cup {Nil}, after : DesiredLRP \cup {Nil}]
    \cup [type : {"actual"}, before : InstanceLRP \cup {Nil}, after : InstanceLRP \cup {Nil}]

DesiredEvent(before, after) == [type |-> "desired", before |-> before, after |-> after]
ActualEvent(before, after) == [type |-> "actual", before |-> before, after |-> after]

(* event.Key(): the process guid of a DesiredLRP, the instance guid of an ActualLRP. *)
Key(event) ==
    LET lrp == IF event.after = Nil THEN event.before ELSE event.after
    IN  IF event.type = "desired" THEN lrp.process ELSE lrp.guid

Running(lrp) == lrp.state = "RUNNING"
Ordinary(lrp) == ~lrp.evacuating /\ ~lrp.suspect
RoutableExists(lrp) == lrp.routable # "unset"
GetRoutable(lrp) == lrp.routable = "yes"
MayRoute(lrp) == ~RoutableExists(lrp) \/ GetRoutable(lrp)

--------------------------------------------------------------------------------
(* The calls an event leads to.  A table holds what one call after the     *)
(* other leaves.                                                           *)

(* handleDesiredCreate, handleDesiredUpdate and, with no after, handleDesiredDelete. *)
handleDesired(table, event) == SetRoutes(table, event.before, event.after)

handleActualCreate(table, lrp) ==
    IF Running(lrp) THEN AddEndpoint(table, lrp) ELSE table

handleActualDelete(table, lrp) ==
    IF Running(lrp) THEN RemoveEndpoint(table, lrp) ELSE table

(* handleActualUpdate: the call for the new state, ...                     *)
UpdateEndpoint(table, before, after) ==
    CASE Running(after) /\ MayRoute(after) -> AddEndpoint(table, after)
      [] Running(after) /\ ~MayRoute(after) /\ GetRoutable(before) ->
            RemoveEndpoint(table, after)
      [] Running(before) /\ ~Running(after) -> RemoveEndpoint(table, before)
      [] OTHER -> table

(* ... and the removal of the ordinary endpoint when the instance evacuates. *)
RemoveEvacuated(table, before, after) ==
    IF Running(before) /\ Running(after) /\ Ordinary(before) /\ after.evacuating
    THEN RemoveEndpoint(table, before)
    ELSE table

(* HandleEvent leaves the table through at most two calls; FirstCall is    *)
(* what the first of them leaves.                                          *)
FirstCall(table, event) ==
    CASE event.type = "desired" -> handleDesired(table, event)
      [] event.type = "actual" /\ event.before = Nil ->
            handleActualCreate(table, event.after)
      [] event.type = "actual" /\ event.after = Nil ->
            handleActualDelete(table, event.before)
      [] OTHER -> UpdateEndpoint(table, event.before, event.after)

IsActualUpdate(event) ==
    event.type = "actual" /\ event.before # Nil /\ event.after # Nil

HandleEvent(table, event) ==
    IF IsActualUpdate(event)
    THEN RemoveEvacuated(FirstCall(table, event), event.before, event.after)
    ELSE FirstCall(table, event)

(* The messages of both calls are merged and emitted at once. *)
EventRegistrations(table, event) ==
    Registrations(table, FirstCall(table, event))
    \cup Registrations(FirstCall(table, event), HandleEvent(table, event))

(* Mutant of EventUnregistrations: the messages of the second call replace *)
(* those of the first.                                                     *)
EventUnregistrationsReplaced(table, event) ==
    Unregistrations(FirstCall(table, event), HandleEvent(table, event))

EventUnregistrations(table, event) ==
    Unregistrations(table, FirstCall(table, event))
    \cup Unregistrations(FirstCall(table, event), HandleEvent(table, event))

(* What the routers hold when one emission has reached them: the emitters  *)
(* submit its registrations before its unregistrations.                    *)
emitMessages(routers, registrations, unregistrations) ==
    (routers \cup registrations) \ unregistrations

(* RefreshDesired with at most one DesiredLRP (a fetch by process guid). *)
RefreshDesired(table, lrp) == IF lrp = Nil THEN table ELSE SetRoutes(table, Nil, lrp)

ShouldRefreshDesired(table, lrp) == ~HasExternalRoutes(table, lrp)

--------------------------------------------------------------------------------
(* Sync builds newTable from the desired LRPs of the sync, then those the  *)
(* watcher fetched for cached events, then the actual LRPs, and replays    *)
(* the cached events on it.  Each is a loop over a slice or a map.         *)

SetAllRoutes(table, lrps) ==
    LET after[n \in 0..Len(lrps)] ==
            IF n = 0 THEN table ELSE SetRoutes(after[n - 1], Nil, lrps[n])
    IN  after[Len(lrps)]

AddAllEndpoints(table, lrps) ==
    LET after[n \in 0..Len(lrps)] ==
            IF n = 0 THEN table ELSE AddEndpoint(after[n - 1], lrps[n])
    IN  after[Len(lrps)]

ReplayAll(table, events) ==
    LET after[n \in 0..Len(events)] ==
            IF n = 0 THEN table ELSE HandleEvent(after[n - 1], events[n])
    IN  after[Len(events)]

newTable(desired, cachedDesired, actuals, events) ==
    ReplayAll(AddAllEndpoints(SetAllRoutes(SetAllRoutes(EmptyTable, desired),
                                           cachedDesired), actuals),
              events)

(* The orders in which a slice may list a set, or an iteration over a map  *)
(* may visit it: any.                                                      *)
Orders(S) == UNION {Bijection(1..n, S) : n \in 0..Cardinality(S)}

================================================================================
