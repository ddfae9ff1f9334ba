--------------------------- MODULE RouteEmitterProofs ---------------------------
(***************************************************************************)
(* Theorems about the watcher, the handler and the table together          *)
(* (RouteEmitter): types, that the routers mirror the table, and what a    *)
(* sync installs.                                                          *)
(*                                                                         *)
(* The messages between two tables bring the routers along only if the     *)
(* ordinary and the evacuating endpoint of an instance have one address    *)
(* (EmissionMirrors).  The inductive invariant IInv says why they do: an   *)
(* instance keeps its address for life, and every record of it, in the     *)
(* BBS, in the stream, cached, fetched or in the table, has that one.      *)
(*                                                                         *)
(* A sync builds a table by loops over slices, in the order they come in.  *)
(* What such a loop leaves (RoutingTableLemmas) is shown by induction on   *)
(* the iterations, and the induction by taking a least counterexample.     *)
(***************************************************************************)
EXTENDS RouteEmitter, RoutingTableLemmas, TLAPS

--------------------------------------------------------------------------------
(* The inductive invariant. *)

Used == {g \in Guids : actuals[g] # Nil}

BBSInv ==
    /\ desired \in [Processes -> DesiredLRP \cup {Nil}]
    /\ \A p \in Processes : desired[p] # Nil => desired[p].process = p
    /\ actuals \in [Guids -> InstanceLRP \cup {Nil, Gone}]
    /\ \A g \in Guids : InBBS(g) => actuals[g].guid = g /\ actuals[g].tag.index <= changes
    /\ freshDomains \subseteq Domains
    /\ changes \in 0..MaxChanges

(* An instance has one address for all its life, also in the records of it *)
(* that are under way, cached, fetched or in the table.                    *)
NetsInv(nets) ==
    /\ nets \in [Used -> NetInfos]
    /\ \A g \in Guids : InBBS(g) => Agrees(actuals[g], nets)

StreamInv(nets) ==
    /\ subscribed \in BOOLEAN
    /\ stream \in Seq(EventsFrom(nets))

CacheInv(nets) ==
    /\ cachedEvents \subseteq EventsFrom(nets)
    /\ \A e1, e2 \in cachedEvents : Key(e1) = Key(e2) => e1 = e2

Answer ==
    [actuals : (SUBSET InstanceLRP) \cup {Nil}, desired : (SUBSET DesiredLRP) \cup {Nil},
     domains : (SUBSET Domains) \cup {Nil}]

FetchInv(nets) ==
    /\ syncing \in BOOLEAN
    /\ fetched \in Answer
    /\ fetched.actuals # Nil =>
         /\ \A lrp \in fetched.actuals : Agrees(lrp, nets)
         /\ \A a, b \in fetched.actuals : a.guid = b.guid => a = b
    /\ fetched.desired # Nil =>
         \A a, b \in fetched.desired : a.process = b.process => a = b

CountersInv ==
    /\ disconnects \in 0..MaxDisconnects
    /\ failures \in 0..MaxFailures
    /\ restarts \in 0..MaxRestarts

Sources(nets) ==
    /\ NetsInv(nets) /\ StreamInv(nets) /\ CacheInv(nets) /\ FetchInv(nets)
    /\ entries \in Tables(nets)

IInv ==
    /\ BBSInv /\ CountersInv /\ RoutersMirrorTable
    /\ \E nets : Sources(nets)

--------------------------------------------------------------------------------

(* What a step leaves alone keeps its part of the invariant. *)
LEMMA Untouched ==
    ASSUME NEW nets
    PROVE  /\ BBSInv /\ NetsInv(nets) /\ UNCHANGED bbs => BBSInv' /\ NetsInv(nets)'
           /\ StreamInv(nets) /\ UNCHANGED <<subscribed, stream>> => StreamInv(nets)'
           /\ CacheInv(nets) /\ UNCHANGED cachedEvents => CacheInv(nets)'
           /\ FetchInv(nets) /\ UNCHANGED <<syncing, fetched>> => FetchInv(nets)'
           /\ entries \in Tables(nets) /\ UNCHANGED entries => entries' \in Tables(nets)
           /\ CountersInv /\ UNCHANGED faults => CountersInv'
           /\ RoutersMirrorTable /\ UNCHANGED <<table, restarts>> => RoutersMirrorTable'
<1>1. BBSInv /\ NetsInv(nets) /\ UNCHANGED bbs => BBSInv' /\ NetsInv(nets)'
  BY DEF BBSInv, NetsInv, bbs, InBBS, Used
<1>2. StreamInv(nets) /\ UNCHANGED <<subscribed, stream>> => StreamInv(nets)'
  BY DEF StreamInv
<1>3. CacheInv(nets) /\ UNCHANGED cachedEvents => CacheInv(nets)'
  BY DEF CacheInv
<1>4. FetchInv(nets) /\ UNCHANGED <<syncing, fetched>> => FetchInv(nets)'
  BY DEF FetchInv
<1>5. CountersInv /\ UNCHANGED faults => CountersInv'
  BY DEF CountersInv, faults
<1>6. RoutersMirrorTable /\ UNCHANGED <<table, restarts>> => RoutersMirrorTable'
  BY DEF RoutersMirrorTable, table
<1>7. QED
  BY <1>1, <1>2, <1>3, <1>4, <1>5, <1>6

(* An address more does not harm the records of the other instances. *)
LEMMA Extension ==
    ASSUME NEW nets, NEW nets2,
           \A g \in DOMAIN nets : g \in DOMAIN nets2 /\ nets2[g] = nets[g]
    PROVE  /\ \A lrp : Agrees(lrp, nets) => Agrees(lrp, nets2)
           /\ EventsFrom(nets) \subseteq EventsFrom(nets2)
           /\ Tables(nets) \subseteq Tables(nets2)
<1>1. \A lrp : Agrees(lrp, nets) => Agrees(lrp, nets2)
  BY DEF Agrees
<1>2. EventsFrom(nets) \subseteq EventsFrom(nets2)
  BY <1>1 DEF EventsFrom
<1>3. \A entry : EntryFrom(entry, nets) => EntryFrom(entry, nets2)
  BY DEF EntryFrom
<1>4. Tables(nets) \subseteq Tables(nets2)
  BY <1>3 DEF Tables
<1>5. QED
  BY <1>1, <1>2, <1>4

(* Publishing an event. *)
LEMMA PublishInv ==
    ASSUME NEW nets, StreamInv(nets), NEW e \in EventsFrom(nets), Publish(e),
           UNCHANGED subscribed
    PROVE  StreamInv(nets)'
  BY DEF StreamInv, Publish

(* No fetch has answered. *)
LEMMA NothingFetchedInv ==
    ASSUME NEW nets
    PROVE  /\ syncing \in BOOLEAN /\ fetched = NothingFetched => FetchInv(nets)
           /\ syncing' \in BOOLEAN /\ fetched' = NothingFetched => FetchInv(nets)'
<1>1. /\ NothingFetched.actuals = Nil /\ NothingFetched.desired = Nil
      /\ NothingFetched \in Answer
  BY DEF NothingFetched, Answer
<1>2. QED
  BY <1>1 DEF FetchInv

(* The tags of the BBS's instances stay within the count of its changes. *)
LEMMA IndexGrows ==
    ASSUME BBSInv, changes' = changes + 1
    PROVE  /\ changes \in Nat
           /\ \A g \in Guids : InBBS(g) => /\ actuals[g].tag.index \in Nat
                                          /\ actuals[g].tag.index <= changes'
<1>1. changes \in Nat
  BY BoundsAssumption DEF BBSInv
<1>2. \A lrp \in InstanceLRP : lrp.tag.index \in Nat
  BY ConstantsAssumption, Zenon DEF InstanceLRP, BBSTag
<1>3. \A g \in Guids : InBBS(g) => actuals[g] \in InstanceLRP
  BY DEF BBSInv, InBBS
<1>4. QED
  BY <1>1, <1>2, <1>3 DEF BBSInv

--------------------------------------------------------------------------------
(* The invariant holds initially. *)
LEMMA InitInv == Init => IInv
<1> SUFFICES ASSUME Init PROVE IInv
  OBVIOUS
<1> PICK nets : nets = [g \in Used |-> actuals[g].net]
  BY Zenon
<1>0. /\ freshDomains = Domains /\ subscribed = FALSE /\ stream = <<>> /\ syncing = FALSE
      /\ cachedEvents = {} /\ fetched = NothingFetched /\ entries = EmptyTable
      /\ registered = {}
      /\ changes = 0 /\ disconnects = 0 /\ failures = 0 /\ restarts = 0
  BY DEF Init
<1>1. 0 \in 0..MaxChanges /\ 0 \in 0..MaxDisconnects /\ 0 \in 0..MaxFailures /\ 0 \in 0..MaxRestarts
  BY BoundsAssumption
<1>2. desired \in [Processes -> DesiredLRP \cup {Nil}]
      /\ \A p \in Processes : desired[p] # Nil => desired[p].process = p
  BY DEF Init
<1>3. /\ actuals \in [Guids -> InstanceLRP \cup {Nil}]
      /\ \A g \in Guids : actuals[g] # Nil =>
            /\ actuals[g] \in InstanceLRP
            /\ actuals[g].guid = g /\ actuals[g].tag.index = 0
            /\ actuals[g].net \in NetInfos
  <2>1. actuals \in [Guids -> {lrp \in InstanceLRP : lrp.tag = OldTag} \cup {Nil}]
        /\ \A g \in Guids : actuals[g] # Nil => actuals[g].guid = g
    BY DEF Init
  <2>2. \A lrp \in InstanceLRP : lrp.net \in NetInfos
    BY DEF InstanceLRP
  <2>3. QED
    BY <2>1, <2>2 DEF OldTag
<1>4. BBSInv
  BY <1>0, <1>1, <1>2, <1>3 DEF BBSInv, InBBS
<1>5. NetsInv(nets)
  BY <1>3 DEF NetsInv, Used, InBBS, Agrees
<1>6. StreamInv(nets)
  <2>1. <<>> \in Seq(EventsFrom(nets))
    OBVIOUS
  <2>2. stream \in Seq(EventsFrom(nets)) /\ subscribed \in BOOLEAN
    BY <1>0, <2>1, Zenon
  <2>3. QED
    BY <2>2 DEF StreamInv
<1>7. CacheInv(nets)
  BY <1>0 DEF CacheInv
<1>8. FetchInv(nets)
  <2>1. syncing \in BOOLEAN
    BY <1>0, Zenon
  <2>2. QED
    BY <1>0, <2>1, NothingFetchedInv
<1>9. entries \in Tables(nets)
  BY <1>0, EmptyTableFrom
<1>10. RoutersMirrorTable
  BY <1>0, EmptyTableOK DEF RoutersMirrorTable
<1>11. CountersInv
  BY <1>0, <1>1 DEF CountersInv
<1>12. Sources(nets)
  BY <1>5, <1>6, <1>7, <1>8, <1>9 DEF Sources
<1>13. QED
  BY <1>4, <1>10, <1>11, <1>12 DEF IInv

--------------------------------------------------------------------------------
(* Changes of the BBS. *)

(* A desired LRP that is created, changed or removed. *)
LEMMA DesireToInv ==
    ASSUME IInv, NEW p \in Processes, NEW lrp \in DesiredLRP \cup {Nil},
           lrp # Nil => lrp.process = p, lrp # Nil \/ desired[p] # Nil, DesireTo(p, lrp)
    PROVE  IInv'
<1>1. PICK nets : Sources(nets)
  BY DEF IInv
<1>2. /\ changes' = changes + 1 /\ changes < MaxChanges
      /\ desired' = [desired EXCEPT ![p] = lrp]
      /\ UNCHANGED <<actuals, freshDomains, subscribed, syncing, cachedEvents, fetched,
                     table, faults, restarts>>
  BY DEF DesireTo, Change, faults
<1>3. BBSInv'
  <2>1. changes' \in 0..MaxChanges
    BY <1>2, BoundsAssumption DEF IInv, BBSInv
  <2>2. QED
    BY <1>2, <2>1, IndexGrows DEF IInv, BBSInv, InBBS
<1>4. NetsInv(nets)'
  BY <1>1, <1>2 DEF Sources, NetsInv, InBBS, Used
<1>5. StreamInv(nets)'
  <2>1. DesiredEvent(desired[p], lrp) \in EventsFrom(nets)
    BY DEF IInv, BBSInv, DesiredEvent, EventsFrom, Event
  <2>2. QED
    BY <1>1, <1>2, <2>1, PublishInv DEF Sources, DesireTo
<1>6. QED
  BY <1>1, <1>2, <1>3, <1>4, <1>5, Untouched DEF IInv, Sources, table

(* An actual LRP that is created, changed or removed: it keeps the address *)
(* it was created with.                                                    *)
LEMMA ActualToInv ==
    ASSUME IInv, NEW g \in Guids, NEW lrp \in InstanceLRP \cup {Gone},
           lrp = Gone => InBBS(g), actuals[g] # Nil => InBBS(g),
           lrp # Gone => /\ lrp.guid = g /\ lrp.tag.index <= changes + 1
                         /\ InBBS(g) => lrp.net = actuals[g].net,
           ActualTo(g, lrp)
    PROVE  IInv'
<1>1. PICK nets : Sources(nets)
  BY DEF IInv
<1>2. /\ changes' = changes + 1 /\ changes < MaxChanges
      /\ actuals' = [actuals EXCEPT ![g] = lrp]
      /\ UNCHANGED <<desired, freshDomains, subscribed, syncing, cachedEvents, fetched,
                     table, faults, restarts>>
  BY DEF ActualTo, Change, faults
<1>3. lrp # Nil /\ (lrp # Gone => lrp \in InstanceLRP /\ lrp.net \in NetInfos)
  BY BBSAssumption DEF InstanceLRP
<1>4. /\ actuals \in [Guids -> InstanceLRP \cup {Nil, Gone}]
      /\ Used' = Used \cup {g}
      /\ \A h \in Guids : h # g => actuals'[h] = actuals[h] /\ (InBBS(h)' <=> InBBS(h))
      /\ actuals'[g] = lrp /\ (InBBS(g)' <=> lrp # Gone)
  BY <1>2, <1>3 DEF IInv, BBSInv, Used, InBBS
<1>5. BBSInv'
  <2>1. changes' \in 0..MaxChanges
    BY <1>2, BoundsAssumption DEF IInv, BBSInv
  <2>2. actuals' \in [Guids -> InstanceLRP \cup {Nil, Gone}]
    BY <1>2, <1>4
  <2>3. \A h \in Guids : InBBS(h)' => actuals'[h].guid = h /\ actuals'[h].tag.index <= changes'
    BY <1>2, <1>4, IndexGrows DEF IInv, BBSInv
  <2>4. QED
    BY <1>2, <2>1, <2>2, <2>3 DEF IInv, BBSInv
<1> PICK nets2 : nets2 = [h \in Used \cup {g} |-> IF h \in Used THEN nets[h] ELSE lrp.net]
  BY Zenon
<1>6. /\ nets \in [Used -> NetInfos]
      /\ InBBS(g) => g \in Used /\ nets[g] = actuals[g].net
      /\ g \notin Used => lrp # Gone
  <2>1. InBBS(g) => g \in Used /\ actuals[g].guid = g
    BY DEF IInv, BBSInv, InBBS, Used
  <2>2. InBBS(g) => Agrees(actuals[g], nets)
    BY <1>1 DEF Sources, NetsInv
  <2>3. QED
    BY <1>1, <2>1, <2>2 DEF Sources, NetsInv, Agrees, Used
<1>7. lrp # Gone => Agrees(lrp, nets2)
  BY <1>6 DEF Agrees, Used
<1>8. \A h \in DOMAIN nets : h \in DOMAIN nets2 /\ nets2[h] = nets[h]
  BY <1>6
<1>9. nets2 \in [Used' -> NetInfos]
  BY <1>3, <1>4, <1>6
<1>10. /\ \A a : Agrees(a, nets) => Agrees(a, nets2)
       /\ EventsFrom(nets) \subseteq EventsFrom(nets2)
       /\ Tables(nets) \subseteq Tables(nets2)
  BY <1>8, Extension, Zenon
<1>11. NetsInv(nets2)'
  <2>1. \A h \in Guids : InBBS(h) => Agrees(actuals[h], nets2)
    BY <1>1, <1>10 DEF Sources, NetsInv
  <2>2. \A h \in Guids : InBBS(h)' => Agrees(actuals'[h], nets2)
    BY <1>4, <1>7, <2>1
  <2>3. QED
    BY <1>9, <2>2 DEF NetsInv
<1>12. StreamInv(nets2)'
  <2> DEFINE e == ActualEvent(actuals[g], IF lrp = Gone THEN Nil ELSE lrp)
  <2>1. actuals[g] # Nil => actuals[g] \in InstanceLRP /\ Agrees(actuals[g], nets2)
    BY <1>1, <1>4, <1>10 DEF Sources, NetsInv, InBBS
  <2>2. /\ e.type = "actual" /\ e.before = actuals[g]
        /\ e.after = IF lrp = Gone THEN Nil ELSE lrp
        /\ e \in [type : {"actual"}, before : InstanceLRP \cup {Nil},
                  after : InstanceLRP \cup {Nil}]
    BY <1>3, <2>1 DEF ActualEvent
  <2>3. e.before # Nil \/ e.after # Nil
    BY <1>3, <2>2 DEF InBBS
  <2>4. e \in EventsFrom(nets2)
    <3> HIDE DEF e
    <3> QED
      BY <1>7, <2>1, <2>2, <2>3 DEF EventsFrom, Event
  <2>5. stream \in Seq(EventsFrom(nets2)) /\ subscribed \in BOOLEAN
    BY <1>1, <1>10, SeqGrows, Zenon DEF Sources, StreamInv
  <2>6. QED
    BY <1>2, <2>4, <2>5, PublishInv DEF ActualTo, StreamInv
<1>13. CacheInv(nets2)'
  BY <1>1, <1>2, <1>10 DEF Sources, CacheInv
<1>14. FetchInv(nets2)'
  BY <1>1, <1>2, <1>10, Zenon DEF Sources, FetchInv
<1>15. Sources(nets2)'
  BY <1>1, <1>2, <1>10, <1>11, <1>12, <1>13, <1>14 DEF Sources, table
<1>16. QED
  BY <1>2, <1>5, <1>15, Untouched DEF IInv

(* The tags the BBS gives a record. *)
LEMMA TagsType ==
    ASSUME BBSInv, changes < MaxChanges
    PROVE  /\ NewTag \in BBSTag /\ NewTag.index <= changes + 1
           /\ \A g \in Guids : InBBS(g) =>
                Bump(actuals[g].tag) \in BBSTag /\ Bump(actuals[g].tag).index <= changes + 1
<1>1. changes \in Nat /\ changes + 1 \in 0..MaxChanges /\ 0 \in 0..MaxChanges
  BY BoundsAssumption DEF BBSInv
<1>2. NewTag \in BBSTag /\ NewTag.index <= changes + 1
  BY <1>1, BoundsAssumption DEF NewTag, BBSTag
<1>3. ASSUME NEW g \in Guids, InBBS(g)
      PROVE  Bump(actuals[g].tag) \in BBSTag /\ Bump(actuals[g].tag).index <= changes + 1
  <2>1. actuals[g].tag \in BBSTag /\ actuals[g].tag.index <= changes
    BY <1>3 DEF BBSInv, InBBS, InstanceLRP
  <2>2. actuals[g].tag.index \in Nat
    BY <2>1, ConstantsAssumption, Zenon DEF BBSTag
  <2>3. actuals[g].tag.index + 1 \in 0..MaxChanges /\ actuals[g].tag.index + 1 <= changes + 1
    BY <1>1, <2>1, <2>2, BoundsAssumption
  <2>4. Bump(actuals[g].tag) = [epoch |-> actuals[g].tag.epoch, index |-> actuals[g].tag.index + 1]
    BY <2>1 DEF Bump, BBSTag
  <2>5. QED
    BY <2>1, <2>3, <2>4, BoundsAssumption DEF BBSTag
<1>4. QED
  BY <1>2, <1>3

(* A change of the desired LRPs. *)
LEMMA DesiredStepInv ==
    ASSUME IInv, NEW p \in Processes, CreateDesired(p) \/ UpdateDesired(p) \/ RemoveDesired(p)
    PROVE  IInv'
<1>1. \A lrp \in DesiredLRP : lrp # Nil
  BY NilAssumption
<1>2. CASE CreateDesired(p)
  BY <1>1, <1>2, DesireToInv DEF CreateDesired
<1>3. CASE UpdateDesired(p)
  BY <1>1, <1>3, DesireToInv DEF UpdateDesired
<1>4. CASE RemoveDesired(p)
  BY <1>4, DesireToInv DEF RemoveDesired
<1>5. QED
  BY <1>2, <1>3, <1>4

(* A change of the actual LRPs. *)
LEMMA ActualStepInv ==
    ASSUME IInv, NEW g \in Guids,
           \/ CreateActual(g) \/ StartActual(g) \/ SetRoutable(g)
           \/ Evacuate(g) \/ SetSuspect(g) \/ Crash(g) \/ RemoveActual(g)
    PROVE  IInv'
<1>1. changes < MaxChanges
  BY Zenon DEF CreateActual, StartActual, SetRoutable, Evacuate, SetSuspect, Crash,
               RemoveActual, ActualTo, Change
<1>2. NewTag \in BBSTag /\ NewTag.index <= changes + 1
  BY <1>1, TagsType DEF IInv
<1>3. CASE CreateActual(g)
  <2>1. PICK state \in {"CLAIMED", "RUNNING"}, net \in NetInfos, routable \in Routables :
          ActualTo(g, [guid |-> g, evacuating |-> FALSE, suspect |-> FALSE, net |-> net,
                       tag |-> NewTag, state |-> state, routable |-> routable])
    BY <1>3, Zenon DEF CreateActual
  <2> PICK lrp : lrp = [guid |-> g, evacuating |-> FALSE, suspect |-> FALSE, net |-> net,
                        tag |-> NewTag, state |-> state, routable |-> routable]
    BY Zenon
  <2>2. lrp \in InstanceLRP
    BY <1>2, BBSAssumption DEF InstanceLRP, ActualStates
  <2>3. actuals[g] = Nil /\ ~InBBS(g) /\ lrp # Gone
    BY <1>3, <2>2, BBSAssumption, Zenon DEF CreateActual, InBBS
  <2>4. lrp.guid = g /\ lrp.tag.index <= changes + 1
    BY <1>2
  <2>5. ActualTo(g, lrp)
    BY <2>1
  <2>6. QED
    BY <2>2, <2>3, <2>4, <2>5, ActualToInv
<1>4. ASSUME InBBS(g)
      PROVE  /\ actuals[g] \in InstanceLRP /\ actuals[g].guid = g
             /\ Bump(actuals[g].tag) \in BBSTag /\ Bump(actuals[g].tag).index <= changes + 1
  BY <1>1, <1>4, TagsType DEF IInv, BBSInv, InBBS
<1>5. ASSUME InBBS(g), NEW lrp \in InstanceLRP, lrp.guid = g, lrp.net = actuals[g].net,
             lrp.tag.index <= changes + 1, ActualTo(g, lrp)
      PROVE  IInv'
  <2>1. lrp # Gone
    BY BBSAssumption
  <2>2. QED
    BY <1>5, <2>1, ActualToInv
<1>6. CASE StartActual(g)
  <2> PICK lrp : lrp = [actuals[g] EXCEPT !.state = "RUNNING", !.tag = Bump(@)]
    BY Zenon
  <2>1. InBBS(g) /\ ActualTo(g, lrp)
    BY <1>6 DEF StartActual
  <2>2. /\ lrp \in InstanceLRP /\ lrp.guid = g /\ lrp.net = actuals[g].net
        /\ lrp.tag = Bump(actuals[g].tag)
    BY <1>4, <2>1, Zenon DEF InstanceLRP, ActualStates
  <2>3. QED
    BY <1>4, <1>5, <2>1, <2>2, Zenon
<1>7. CASE SetRoutable(g)
  <2>1. PICK routable \in Routables :
           ActualTo(g, [actuals[g] EXCEPT !.routable = routable, !.tag = Bump(@)])
    BY <1>7, Zenon DEF SetRoutable
  <2> PICK lrp : lrp = [actuals[g] EXCEPT !.routable = routable, !.tag = Bump(@)]
    BY Zenon
  <2>2. InBBS(g) /\ ActualTo(g, lrp)
    BY <1>7, <2>1, Zenon DEF SetRoutable
  <2>3. /\ lrp \in InstanceLRP /\ lrp.guid = g /\ lrp.net = actuals[g].net
        /\ lrp.tag = Bump(actuals[g].tag)
    BY <1>4, <2>2, BBSAssumption, Zenon DEF InstanceLRP
  <2>4. QED
    BY <1>4, <1>5, <2>2, <2>3, Zenon
<1>8. CASE Evacuate(g)
  <2> PICK lrp : lrp = [actuals[g] EXCEPT !.evacuating = TRUE, !.suspect = FALSE, !.tag = NewTag]
    BY Zenon
  <2>1. InBBS(g) /\ ActualTo(g, lrp)
    BY <1>8 DEF Evacuate
  <2>2. /\ lrp \in InstanceLRP /\ lrp.guid = g /\ lrp.net = actuals[g].net
        /\ lrp.tag = NewTag
    BY <1>2, <1>4, <2>1, Zenon DEF InstanceLRP
  <2>3. QED
    BY <1>2, <1>5, <2>1, <2>2, Zenon
<1>9. CASE Crash(g)
  <2> PICK lrp : lrp = [actuals[g] EXCEPT !.state = "CRASHED", !.tag = Bump(@)]
    BY Zenon
  <2>1. InBBS(g) /\ ActualTo(g, lrp)
    BY <1>9 DEF Crash
  <2>2. /\ lrp \in InstanceLRP /\ lrp.guid = g /\ lrp.net = actuals[g].net
        /\ lrp.tag = Bump(actuals[g].tag)
    BY <1>4, <2>1, Zenon DEF InstanceLRP, ActualStates
  <2>3. QED
    BY <1>4, <1>5, <2>1, <2>2, Zenon
<1>10. CASE RemoveActual(g)
  BY <1>10, ActualToInv DEF RemoveActual
<1>11. CASE SetSuspect(g)
  <2>1. PICK suspect \in Suspects :
           ActualTo(g, [actuals[g] EXCEPT !.suspect = suspect, !.tag = Bump(@)])
    BY <1>11, Zenon DEF SetSuspect
  <2> PICK lrp : lrp = [actuals[g] EXCEPT !.suspect = suspect, !.tag = Bump(@)]
    BY Zenon
  <2>2. InBBS(g) /\ ActualTo(g, lrp)
    BY <1>11, <2>1, Zenon DEF SetSuspect
  <2>3. /\ lrp \in InstanceLRP /\ lrp.guid = g /\ lrp.net = actuals[g].net
        /\ lrp.tag = Bump(actuals[g].tag)
    BY <1>4, <2>2, BBSAssumption, Zenon DEF InstanceLRP
  <2>4. QED
    BY <1>4, <1>5, <2>2, <2>3, Zenon
<1>12. QED
  BY <1>3, <1>6, <1>7, <1>8, <1>9, <1>10, <1>11

(* A step that only changes the stream, the cached events, the fetches or  *)
(* the counters.                                                           *)
LEMMA WatcherStepInv ==
    ASSUME IInv, NEW nets, Sources(nets), UNCHANGED <<bbs, table, restarts>>,
           StreamInv(nets)', CacheInv(nets)', FetchInv(nets)', CountersInv'
    PROVE  IInv'
<1>1. BBSInv' /\ NetsInv(nets)' /\ entries' \in Tables(nets) /\ RoutersMirrorTable'
  BY Untouched DEF IInv, Sources, table
<1>2. QED
  BY <1>1 DEF IInv, Sources

(* Domains that become fresh or cease to be. *)
LEMMA SetFreshnessInv == IInv /\ SetFreshness => IInv'
<1> SUFFICES ASSUME IInv, SetFreshness PROVE IInv'
  OBVIOUS
<1>1. PICK nets : Sources(nets)
  BY DEF IInv
<1>2. /\ changes' = changes + 1 /\ changes < MaxChanges
      /\ freshDomains' \subseteq Domains
      /\ UNCHANGED <<desired, actuals, subscribed, stream, syncing, cachedEvents, fetched,
                     table, faults, restarts>>
  BY DEF SetFreshness, Change, faults
<1>3. BBSInv'
  <2>1. changes' \in 0..MaxChanges
    BY <1>2, BoundsAssumption DEF IInv, BBSInv
  <2>2. QED
    BY <1>2, <2>1, IndexGrows DEF IInv, BBSInv, InBBS
<1>4. NetsInv(nets)'
  BY <1>1, <1>2 DEF Sources, NetsInv, InBBS, Used
<1>5. QED
  BY <1>1, <1>2, <1>3, <1>4, Untouched DEF IInv, Sources, table

(* The event stream breaks: a prefix of it remains. *)
LEMMA DisconnectInv == IInv /\ Disconnect => IInv'
<1> SUFFICES ASSUME IInv, Disconnect PROVE IInv'
  OBVIOUS
<1>1. PICK nets : Sources(nets)
  BY DEF IInv
<1>2. /\ disconnects < MaxDisconnects /\ disconnects' = disconnects + 1
      /\ subscribed' = FALSE
      /\ UNCHANGED <<bbs, syncing, cachedEvents, fetched, table, failures, restarts>>
  BY DEF Disconnect
<1>3. stream \in Seq(EventsFrom(nets))
  BY <1>1 DEF Sources, StreamInv
<1>4. PICK n \in 0..Len(stream) : stream' = SubSeq(stream, 1, n)
  BY DEF Disconnect
<1>5. stream' \in Seq(EventsFrom(nets))
  BY <1>3, <1>4
<1>6. StreamInv(nets)'
  BY <1>2, <1>5, Zenon DEF StreamInv
<1>7. CountersInv'
  BY <1>2, BoundsAssumption DEF IInv, CountersInv
<1>8. QED
  BY <1>1, <1>2, <1>6, <1>7, Untouched, WatcherStepInv DEF Sources, table

(* The watcher subscribes. *)
LEMMA SubscribeInv == IInv /\ Subscribe => IInv'
<1> SUFFICES ASSUME IInv, Subscribe PROVE IInv'
  OBVIOUS
<1>1. PICK nets : Sources(nets)
  BY DEF IInv
<1>2. /\ subscribed' = TRUE
      /\ UNCHANGED <<bbs, stream, syncing, cachedEvents, fetched, table, faults, restarts>>
  BY DEF Subscribe, faults
<1>3. StreamInv(nets)'
  BY <1>1, <1>2 DEF Sources, StreamInv
<1>4. QED
  BY <1>1, <1>2, <1>3, Untouched, WatcherStepInv, Zenon DEF IInv, Sources, table

(* Taking an event leaves a stream of events. *)
LEMMA TakeEventInv ==
    ASSUME NEW nets, StreamInv(nets), TakeEvent
    PROVE  StreamInv(nets)' /\ Head(stream) \in EventsFrom(nets)
<1>1. stream \in Seq(EventsFrom(nets)) /\ stream # <<>>
  BY DEF StreamInv, TakeEvent
<1>2. Head(stream) \in EventsFrom(nets) /\ Tail(stream) \in Seq(EventsFrom(nets))
  BY <1>1
<1>3. QED
  BY <1>2 DEF StreamInv, TakeEvent

(* An event that comes during a sync replaces the cached one with its key. *)
LEMMA CacheEventInv == IInv /\ CacheEvent => IInv'
<1> SUFFICES ASSUME IInv, CacheEvent PROVE IInv'
  OBVIOUS
<1>1. PICK nets : Sources(nets)
  BY DEF IInv
<1>2. TakeEvent /\ UNCHANGED <<bbs, syncing, fetched, table, faults, restarts>>
  BY DEF CacheEvent, TakeEvent, faults
<1>3. StreamInv(nets)' /\ Head(stream) \in EventsFrom(nets)
  BY <1>1, <1>2, TakeEventInv DEF Sources
<1> PICK e : e = Head(stream)
  BY Zenon
<1> DEFINE kept == {c \in cachedEvents : Key(c) # Key(e)}
<1>4. CacheInv(nets)
  BY <1>1 DEF Sources
<1>5. cachedEvents' = kept \cup {e}
  BY DEF CacheEvent
<1>6. CacheInv(nets)'
  BY <1>3, <1>4, <1>5 DEF CacheInv
<1>7. QED
  BY <1>1, <1>2, <1>3, <1>6, Untouched, WatcherStepInv DEF IInv, Sources, table

(* What the BBS answers when asked for a DesiredLRP. *)
LEMMA AnswersAre ==
    ASSUME IInv, NEW p \in Processes
    PROVE  Answers(p) \subseteq DesiredLRP \cup {Nil}
  BY DEF Answers, IInv, BBSInv

(* A live event: a refresh of its DesiredLRP first, if the table has no    *)
(* route for it, then the event.                                           *)
LEMMA HandleLiveEventInv == IInv /\ HandleLiveEvent => IInv'
<1> SUFFICES ASSUME IInv, HandleLiveEvent PROVE IInv'
  OBVIOUS
<1>1. PICK nets : Sources(nets)
  BY DEF IInv
<1>2. /\ TakeEvent
      /\ UNCHANGED <<bbs, syncing, cachedEvents, fetched, faults, restarts>>
  BY Zenon DEF HandleLiveEvent, TakeEvent, faults
<1>3. StreamInv(nets)' /\ Head(stream) \in EventsFrom(nets)
  BY <1>1, <1>2, TakeEventInv DEF Sources
<1> PICK e : e = Head(stream)
  BY Zenon
<1> DEFINE refresh == AsksForDesired(e) /\ ShouldRefreshDesired(entries, e.after)
           answers == IF refresh THEN Answers(ProcessOf[e.after.guid]) ELSE {Nil}
<1>4. PICK lrp \in answers :
        LET refreshed == RefreshDesired(entries, lrp)
        IN  /\ entries' = HandleEvent(refreshed, e)
            /\ registered' =
                emitMessages(emitMessages(registered, Registrations(entries, refreshed),
                                          Unregistrations(entries, refreshed)),
                             EventRegistrations(refreshed, e),
                             EventUnregistrations(refreshed, e))
  BY DEF HandleLiveEvent
<1>5. lrp \in DesiredLRP \cup {Nil}
  <2>1. CASE ~refresh
    BY <1>4, <2>1
  <2>2. CASE refresh
    <3>1. e.after \in InstanceLRP
      BY <1>3, <2>2, EventFields DEF AsksForDesired
    <3>2. ProcessOf[e.after.guid] \in Processes
      BY <3>1, ConstantsAssumption DEF InstanceLRP
    <3>3. QED
      BY <1>4, <2>2, <3>2, AnswersAre
  <2>3. QED
    BY <2>1, <2>2
<1> PICK refreshed : refreshed = RefreshDesired(entries, lrp)
  BY Zenon
<1> PICK R1 : R1 = emitMessages(registered, Registrations(entries, refreshed),
                                Unregistrations(entries, refreshed))
  BY Zenon
<1> HIDE DEF answers, refresh
<1>6. /\ entries' = HandleEvent(refreshed, e)
      /\ registered' = emitMessages(R1, EventRegistrations(refreshed, e),
                                    EventUnregistrations(refreshed, e))
  BY <1>4
<1>7. entries \in Tables(nets) /\ refreshed \in Tables(nets)
  BY <1>1, <1>5, SetRoutesFrom, Zenon DEF RefreshDesired, Sources
<1>8. entries' \in Tables(nets)
  BY <1>3, <1>6, <1>7, HandleEventFrom
<1>9. /\ registered \subseteq Associations(entries) => R1 \subseteq Associations(refreshed)
      /\ Associations(refreshed) \subseteq R1 \cup (Associations(entries) \ registered)
  BY <1>7, TablesOK, EmissionMirrors DEF TableOK, emitMessages
<1>10. /\ R1 \subseteq Associations(refreshed) => registered' \subseteq Associations(entries')
       /\ Associations(entries') \subseteq registered' \cup (Associations(refreshed) \ R1)
  BY <1>3, <1>6, <1>7, EventMirrors
<1>11. RoutersMirrorTable'
  <2>1. restarts' = restarts
    BY <1>2
  <2>2. QED
    BY <1>9, <1>10, <2>1 DEF IInv, RoutersMirrorTable
<1>12. QED
  BY <1>1, <1>2, <1>3, <1>8, <1>11, Untouched DEF IInv, Sources

--------------------------------------------------------------------------------
(* A sync. *)

(* A sync starts, or is given up. *)
LEMMA SyncStartsOrFailsInv == IInv /\ (StartSync \/ SyncFails) => IInv'
<1> SUFFICES ASSUME IInv, StartSync \/ SyncFails PROVE IInv'
  OBVIOUS
<1>1. PICK nets : Sources(nets)
  BY DEF IInv
<1>2. UNCHANGED <<bbs, subscribed, stream, cachedEvents, table, disconnects, restarts>>
  BY DEF StartSync, SyncFails, faults
<1>3. CASE StartSync
  <2>1. FetchInv(nets)'
    BY <1>1, <1>3 DEF StartSync, Sources, FetchInv
  <2>2. CountersInv'
    BY <1>3, Untouched, Zenon DEF IInv, StartSync
  <2>3. QED
    BY <1>1, <1>2, <2>1, <2>2, Untouched, WatcherStepInv DEF Sources
<1>4. CASE SyncFails
  <2>1. FetchInv(nets)'
    <3>1. syncing' \in BOOLEAN /\ fetched' = NothingFetched
      BY <1>4, Zenon DEF SyncFails
    <3>2. QED
      BY <3>1, NothingFetchedInv
  <2>2. CountersInv'
    BY <1>2, <1>4, BoundsAssumption DEF IInv, CountersInv, SyncFails
  <2>3. QED
    BY <1>1, <1>2, <2>1, <2>2, Untouched, WatcherStepInv DEF Sources
<1>5. QED
  BY <1>3, <1>4

(* A fetch answers with what the BBS holds. *)
LEMMA FetchesInv == IInv /\ (FetchActuals \/ FetchDesired \/ FetchDomains) => IInv'
<1> SUFFICES ASSUME IInv, FetchActuals \/ FetchDesired \/ FetchDomains PROVE IInv'
  OBVIOUS
<1>1. PICK nets : Sources(nets)
  BY DEF IInv
<1>2. UNCHANGED <<bbs, subscribed, stream, syncing, cachedEvents, table, faults, restarts>>
  BY DEF FetchActuals, FetchDesired, FetchDomains, Fetch, faults
<1>3. FetchInv(nets)
  BY <1>1 DEF Sources
<1>4. FetchInv(nets)'
  <2>1. CASE FetchActuals
    <3> PICK served : served = {h \in Guids : InBBS(h)}
      BY Zenon
    <3> PICK answer : answer = {actuals[g] : g \in served}
      BY Zenon
    <3>1. fetched' = [fetched EXCEPT !.actuals = answer]
      BY <2>1, Zenon DEF FetchActuals, Fetch
    <3>2. \A g \in served : /\ actuals[g] \in InstanceLRP /\ actuals[g].guid = g
                            /\ Agrees(actuals[g], nets)
      BY <1>1, Zenon DEF IInv, BBSInv, InBBS, Sources, NetsInv
    <3>3. /\ answer \subseteq InstanceLRP
          /\ \A lrp \in answer : Agrees(lrp, nets)
          /\ \A a, b \in answer : a.guid = b.guid => a = b
      BY <3>2
    <3>4. /\ fetched' \in Answer /\ fetched'.actuals = answer
          /\ fetched'.desired = fetched.desired
      BY <1>3, <3>1, <3>3 DEF FetchInv, Answer
    <3>5. QED
      BY <1>2, <1>3, <3>3, <3>4, Zenon DEF FetchInv
  <2>2. CASE FetchDesired
    <3> PICK wanted : wanted = IF LocalMode THEN {ProcessOf[lrp.guid] : lrp \in fetched.actuals}
                               ELSE Processes
      BY Zenon
    <3> PICK found : found = {q \in wanted : desired[q] # Nil}
      BY Zenon
    <3> PICK answer : answer = {desired[p] : p \in found}
      BY Zenon
    <3>1. fetched' = [fetched EXCEPT !.desired = answer] /\ (LocalMode => fetched.actuals # Nil)
      BY <2>2, Zenon DEF FetchDesired, Fetch
    <3>2. wanted \subseteq Processes
      <4>1. LocalMode => fetched.actuals \subseteq InstanceLRP
        BY <1>3, <3>1 DEF FetchInv, Answer
      <4>2. \A lrp \in InstanceLRP : ProcessOf[lrp.guid] \in Processes
        BY ConstantsAssumption DEF InstanceLRP
      <4>3. QED
        BY <4>1, <4>2
    <3>3. \A p \in found : desired[p] \in DesiredLRP /\ desired[p].process = p
      BY <3>2 DEF IInv, BBSInv
    <3>4. answer \subseteq DesiredLRP /\ \A a, b \in answer : a.process = b.process => a = b
      BY <3>3
    <3>5. /\ fetched' \in Answer /\ fetched'.desired = answer
          /\ fetched'.actuals = fetched.actuals
      BY <1>3, <3>1, <3>4 DEF FetchInv, Answer
    <3>6. QED
      BY <1>2, <1>3, <3>4, <3>5 DEF FetchInv
  <2>3. CASE FetchDomains
    <3>1. fetched' = [fetched EXCEPT !.domains = freshDomains]
      BY <2>3, Zenon DEF FetchDomains, Fetch
    <3>2. freshDomains \subseteq Domains
      BY DEF IInv, BBSInv
    <3>3. /\ fetched' \in Answer /\ fetched'.desired = fetched.desired
          /\ fetched'.actuals = fetched.actuals
      BY <1>3, <3>1, <3>2 DEF FetchInv, Answer
    <3>4. QED
      BY <1>2, <1>3, <3>3 DEF FetchInv
  <2>4. QED
    BY <2>1, <2>2, <2>3
<1>5. QED
  BY <1>1, <1>2, <1>4, Untouched, WatcherStepInv DEF IInv, Sources

(* What the fetches of a sync that is over have answered. *)
LEMMA AllFetchedFacts ==
    ASSUME NEW nets, FetchInv(nets), AllFetched
    PROVE  /\ fetched.desired \in SUBSET DesiredLRP
           /\ OneOfEachProcess(fetched.desired)
           /\ RunningActuals \in SUBSET InstanceLRP
           /\ \A lrp \in RunningActuals : Agrees(lrp, nets)
           /\ OneOfEachInstance(RunningActuals)
<1>1. fetched.actuals # Nil /\ fetched.desired # Nil
  BY DEF AllFetched, FetchInv, Answer
<1>2. fetched.actuals \in SUBSET InstanceLRP /\ fetched.desired \in SUBSET DesiredLRP
  BY <1>1 DEF FetchInv, Answer
<1>3. RunningActuals \subseteq fetched.actuals
  BY DEF RunningActuals
<1>4. QED
  BY <1>1, <1>2, <1>3 DEF FetchInv, OneOfEachProcess, OneOfEachInstance

(* The slices a table of a sync is built from. *)
LEMMA BuiltFrom ==
    ASSUME NEW new \in NewTables
    PROVE  \E ds \in Orders(fetched.desired), C \in CachedDesired,
              as \in Orders(RunningActuals), es \in Orders(cachedEvents) :
                \E cs \in Orders(C) : new = newTable(ds, cs, as, es)
<1> PICK D, A, E, CC : /\ D = Orders(fetched.desired) /\ A = Orders(RunningActuals)
                       /\ E = Orders(cachedEvents) /\ CC = UNION {Orders(C) : C \in CachedDesired}
  BY Zenon
<1>1. NewTables = {newTable(ds, cs, as, es) : ds \in D, cs \in CC, as \in A, es \in E}
  BY DEF NewTables
<1>2. PICK ds \in D, cs \in CC, as \in A, es \in E : new = newTable(ds, cs, as, es)
  BY <1>1
<1>3. PICK C \in CachedDesired : cs \in Orders(C)
  BY Zenon
<1>4. QED
  BY <1>2, <1>3, Zenon

(* Whatever a fetch for a cached event answers, and whatever the orders    *)
(* are, the table of a sync has the addresses of its sources.              *)
LEMMA NewTablesFrom ==
    ASSUME IInv, NEW nets, Sources(nets), AllFetched, NEW new \in NewTables
    PROVE  new \in Tables(nets)
<1>1. PICK ds \in Orders(fetched.desired), C \in CachedDesired,
           as \in Orders(RunningActuals), es \in Orders(cachedEvents) :
             \E cs \in Orders(C) : new = newTable(ds, cs, as, es)
  BY BuiltFrom
<1>2. PICK cs \in Orders(C) : new = newTable(ds, cs, as, es)
  BY <1>1, Zenon
<1>3. ProcessesToAsk \subseteq Processes
  <2>1. ASSUME NEW c \in cachedEvents, AsksForDesired(c)
        PROVE  ProcessOf[c.after.guid] \in Processes
    <3>1. c.after \in InstanceLRP
      BY <2>1, EventFields DEF AsksForDesired, Sources, CacheInv
    <3>2. QED
      BY <3>1, ConstantsAssumption DEF InstanceLRP
  <2>2. QED
    BY <2>1 DEF ProcessesToAsk
<1>4. C \subseteq DesiredLRP
  BY <1>3 DEF CachedDesired, IInv, BBSInv
<1>5. /\ fetched.desired \subseteq DesiredLRP
      /\ RunningActuals \subseteq {lrp \in InstanceLRP : Agrees(lrp, nets)}
      /\ cachedEvents \subseteq EventsFrom(nets)
  BY AllFetchedFacts DEF Sources, CacheInv
<1>6. /\ ds \in Seq(DesiredLRP) /\ cs \in Seq(DesiredLRP)
      /\ as \in Seq({lrp \in InstanceLRP : Agrees(lrp, nets)})
      /\ es \in Seq(EventsFrom(nets))
  BY <1>4, <1>5, OrderGrows, Zenon
<1>7. QED
  BY <1>2, <1>6, newTableFrom, Zenon

(* A sync ends: its table is swapped in and the difference emitted. *)
LEMMA EndSyncInv == IInv /\ EndSync => IInv'
<1> SUFFICES ASSUME IInv, EndSync PROVE IInv'
  OBVIOUS
<1>1. PICK nets : Sources(nets)
  BY DEF IInv
<1>2. /\ AllFetched /\ syncing' = FALSE /\ cachedEvents' = {} /\ fetched' = NothingFetched
      /\ UNCHANGED <<bbs, subscribed, stream, faults, restarts>>
  BY DEF EndSync, FinishSync, faults
<1>3. PICK new \in NewTables : entries' = Swap(entries, new, fetched.domains)
  BY DEF EndSync
<1>4. TableOK(entries) /\ new \in Tables(nets)
  BY <1>1, <1>2, <1>3, NewTablesFrom, TablesOK DEF Sources
<1>5. entries' \in Tables(nets)
  BY <1>3, <1>4, SwapFrom
<1>6. TableOK(entries')
  BY <1>5, TablesOK
<1>7. /\ registered \subseteq Associations(entries) => registered' \subseteq Associations(entries')
      /\ Associations(entries') \subseteq registered' \cup (Associations(entries) \ registered)
  BY <1>4, <1>6, EmissionMirrors DEF EndSync, emitMessages, TableOK
<1>8. RoutersMirrorTable'
  <2>1. restarts' = restarts
    BY <1>2
  <2>2. QED
    BY <1>7, <2>1 DEF IInv, RoutersMirrorTable
<1>9. CacheInv(nets)'
  BY <1>2 DEF CacheInv
<1>10. FetchInv(nets)'
  <2>1. syncing' \in BOOLEAN
    BY <1>2, Zenon
  <2>2. QED
    BY <1>2, <2>1, NothingFetchedInv
<1>11. QED
  BY <1>1, <1>2, <1>5, <1>8, <1>9, <1>10, Untouched DEF IInv, Sources

--------------------------------------------------------------------------------
(* The periodic emission, and routers that restart. *)

(* The periodic emission sends pairs of the table and withdraws none. *)
LEMMA EmitInv == IInv /\ Emit => IInv'
<1> SUFFICES ASSUME IInv, Emit PROVE IInv'
  OBVIOUS
<1>1. PICK nets : Sources(nets)
  BY DEF IInv
<1>2. UNCHANGED <<bbs, subscribed, stream, syncing, cachedEvents, fetched, entries, faults,
                  restarts>>
  BY DEF Emit, faults
<1>3. PICK keys \in {ExternalKeys, InternalKeys} :
         registered' = registered \cup GetRoutingEvents(entries, keys)
  BY DEF Emit
<1>4. keys \in SUBSET Keys /\ entries \in Table
  BY <1>1 DEF ExternalKeys, InternalKeys, Sources, Tables
<1>5. GetRoutingEvents(entries, keys) \subseteq Associations(entries)
  BY <1>4, EmitsAssociations
<1>6. RoutersMirrorTable'
  BY <1>2, <1>3, <1>5 DEF IInv, RoutersMirrorTable
<1>7. QED
  BY <1>1, <1>2, <1>6, Untouched DEF IInv, Sources

(* Routers that restart hold nothing, and that is counted. *)
LEMMA RoutersRestartInv == IInv /\ RoutersRestart => IInv'
<1> SUFFICES ASSUME IInv, RoutersRestart PROVE IInv'
  OBVIOUS
<1>1. PICK nets : Sources(nets)
  BY DEF IInv
<1>2. /\ restarts < MaxRestarts /\ restarts' = restarts + 1 /\ registered' = {}
      /\ UNCHANGED <<bbs, subscribed, stream, syncing, cachedEvents, fetched, entries,
                     disconnects, failures>>
  BY DEF RoutersRestart
<1>3. CountersInv' /\ restarts' # 0
  BY <1>2, BoundsAssumption DEF IInv, CountersInv
<1>4. RoutersMirrorTable'
  BY <1>2, <1>3 DEF RoutersMirrorTable
<1>5. QED
  BY <1>1, <1>2, <1>3, <1>4, Untouched DEF IInv, Sources

(* Every step keeps the invariant. *)
LEMMA NextInv == IInv /\ [Next]_vars => IInv'
<1> SUFFICES ASSUME IInv, [Next]_vars PROVE IInv'
  OBVIOUS
<1>1. CASE BBSNext
  BY <1>1, DesiredStepInv, ActualStepInv, SetFreshnessInv DEF BBSNext
<1>2. CASE Disconnect \/ RoutersRestart
  BY <1>2, DisconnectInv, RoutersRestartInv
<1>3. CASE SyncFails \/ StartSync \/ EndSync
  BY <1>3, SyncStartsOrFailsInv, EndSyncInv
<1>4. CASE Subscribe \/ CacheEvent \/ HandleLiveEvent
  BY <1>4, SubscribeInv, CacheEventInv, HandleLiveEventInv
<1>5. CASE FetchActuals \/ FetchDesired \/ FetchDomains
  BY <1>5, FetchesInv
<1>6. CASE Emit
  BY <1>6, EmitInv
<1>7. CASE UNCHANGED vars
  <2>1. PICK nets : Sources(nets)
    BY DEF IInv
  <2>2. UNCHANGED <<bbs, subscribed, stream, syncing, cachedEvents, fetched, table, entries,
                    faults, restarts>>
    BY <1>7 DEF vars, table, faults
  <2>3. QED
    BY <2>1, <2>2, Untouched DEF IInv, Sources
<1>8. QED
  BY <1>1, <1>2, <1>3, <1>4, <1>5, <1>6, <1>7 DEF Next, WatcherNext

--------------------------------------------------------------------------------

(* IInv is an invariant of the watcher beside the BBS: whatever the order  *)
(* of changes, events, syncs, losses and restarts, an instance is recorded *)
(* at one address only, in the stream, the cache, the fetches and the      *)
(* table.                                                                  *)
THEOREM Invariance == Spec => []IInv
<1>1. Init => IInv
  BY InitInv
<1>2. IInv /\ [Next]_vars => IInv'
  BY NextInv
<1>3. QED
  BY <1>1, <1>2, PTL DEF Spec

(* The invariant implies the type invariant. *)
LEMMA TypesHold == IInv => TypeOK
<1> SUFFICES ASSUME IInv PROVE TypeOK
  OBVIOUS
<1>1. PICK nets : Sources(nets)
  BY DEF IInv
<1>2. \A i \in DOMAIN stream : stream[i] \in Event
  <2>1. stream \in Seq(EventsFrom(nets))
    BY <1>1 DEF Sources, StreamInv
  <2>2. \A i \in DOMAIN stream : stream[i] \in EventsFrom(nets)
    BY <2>1
  <2>3. QED
    BY <2>2 DEF EventsFrom
<1>3. /\ cachedEvents \subseteq Event
      /\ \A e1, e2 \in cachedEvents : Key(e1) = Key(e2) => e1 = e2
  BY <1>1 DEF Sources, CacheInv, EventsFrom
<1>4. /\ syncing \in BOOLEAN
      /\ fetched.actuals # Nil => fetched.actuals \subseteq InstanceLRP
      /\ fetched.desired # Nil => fetched.desired \subseteq DesiredLRP
      /\ fetched.domains # Nil => fetched.domains \subseteq Domains
  BY <1>1 DEF Sources, FetchInv, Answer
<1>5. \A g \in Guids : InBBS(g) => actuals[g] \in InstanceLRP
  BY DEF IInv, BBSInv, InBBS
<1>6. entries \in Table /\ subscribed \in BOOLEAN
  BY <1>1 DEF Sources, Tables, StreamInv
<1>7. QED
  BY <1>2, <1>3, <1>4, <1>5, <1>6 DEF TypeOK, IInv, BBSInv, CountersInv

(* The records of the BBS, of the stream, of the fetches and of the table  *)
(* are well formed, and at most one event is cached per key (watcher.go).  *)
THEOREM TypeSafe == Spec => []TypeOK
  BY Invariance, TypesHold, PTL

(* The routers hold no pair that the table has not and, unless they        *)
(* restarted, all that it has: through live events, refreshes, merged      *)
(* emissions, syncs with replayed events and lost events (watcher.go,      *)
(* handler.go, routingtable.go).                                           *)
THEOREM RoutersMirror == Spec => []RoutersMirrorTable
<1>1. IInv => RoutersMirrorTable
  BY DEF IInv
<1>2. QED
  BY <1>1, Invariance, PTL

--------------------------------------------------------------------------------
(* What a sync without cached events installs. *)

(* Without cached events a sync builds its table from the answers alone. *)
LEMMA NewTableOfAnswers ==
    ASSUME cachedEvents = {}, NEW new \in NewTables
    PROVE  \E ds \in Orders(fetched.desired), as \in Orders(RunningActuals) :
              new = newTable(ds, <<>>, as, <<>>)
<1>1. PICK ds \in Orders(fetched.desired), C \in CachedDesired,
           as \in Orders(RunningActuals), es \in Orders(cachedEvents) :
             \E cs \in Orders(C) : new = newTable(ds, cs, as, es)
  BY BuiltFrom, Zenon
<1>2. PICK cs \in Orders(C) : new = newTable(ds, cs, as, es)
  BY <1>1, Zenon
<1>3. C = {}
  BY Zenon DEF CachedDesired, ProcessesToAsk
<1>4. cs = <<>> /\ es = <<>>
  <2>1. cs \in Seq({}) /\ es \in Seq({})
    BY <1>3, OrderOf, Zenon
  <2>2. QED
    BY <2>1
<1>5. QED
  BY <1>2, <1>4, Zenon

(* The pairs that the answers of a sync want. *)
LEMMA AnswersRegistered ==
    ASSUME IInv, IInv', EndSync, cachedEvents = {}, restarts = 0,
           NEW lrp \in RunningActuals, NEW d \in fetched.desired, NEW k \in Keys,
           k.process = d.process, d.process = ProcessOf[lrp.guid],
           IndexOf[lrp.guid] < d.instances,
           NEW r \in d.routes[k]
    PROVE  [key |-> k, route |-> r, guid |-> lrp.guid, net |-> lrp.net] \in registered'
<1> PICK D, A, B : D = fetched.desired /\ A = RunningActuals /\ B = fetched.domains
  BY Zenon
<1>1. PICK nets : Sources(nets)
  BY DEF IInv
<1>2. AllFetched /\ restarts' = restarts
  BY Zenon DEF EndSync, FinishSync, faults
<1>3. /\ D \in SUBSET DesiredLRP /\ OneOfEachProcess(D)
      /\ A \in SUBSET {a \in InstanceLRP : Agrees(a, nets)} /\ OneOfEachInstance(A)
  BY <1>1, <1>2, AllFetchedFacts, Zenon DEF Sources
<1>4. PICK new \in NewTables : entries' = Swap(entries, new, B)
  BY Zenon DEF EndSync
<1>5. PICK ds \in Orders(D), as \in Orders(A) : new = newTable(ds, <<>>, as, <<>>)
  BY <1>4, NewTableOfAnswers, Zenon
<1>6. entries \in Table /\ new \in Table
  BY <1>1, <1>2, <1>4, NewTablesFrom, Zenon DEF Sources, Tables
<1> PICK old : old = entries
  BY Zenon
<1>7. [key |-> k, route |-> r, guid |-> lrp.guid, net |-> lrp.net]
        \in Associations(Swap(old, new, B))
  BY <1>3, <1>5, <1>6, AnswersInstalled, Zenon
<1>8. QED
  BY <1>2, <1>4, <1>7, Zenon DEF IInv, RoutersMirrorTable

(* No pair but those of the instances that the BBS reported. *)
LEMMA OnlyAnswersRegistered ==
    ASSUME IInv, IInv', EndSync, cachedEvents = {}, NEW m \in registered'
    PROVE  \E lrp \in RunningActuals : lrp.guid = m.guid
<1> PICK D, A, B : D = fetched.desired /\ A = RunningActuals /\ B = fetched.domains
  BY Zenon
<1>1. PICK nets : Sources(nets)
  BY DEF IInv
<1>2. AllFetched
  BY DEF EndSync, FinishSync
<1>3. D \in SUBSET DesiredLRP /\ A \in SUBSET InstanceLRP /\ OneOfEachInstance(A)
  BY <1>1, <1>2, AllFetchedFacts, Zenon DEF Sources
<1>4. PICK new \in NewTables : entries' = Swap(entries, new, B)
  BY DEF EndSync
<1>5. PICK ds \in Orders(D), as \in Orders(A) : new = newTable(ds, <<>>, as, <<>>)
  BY <1>4, NewTableOfAnswers, Zenon
<1> PICK old : old = entries
  BY Zenon
<1>6. TableOK(old)
  BY <1>1, TablesOK DEF Sources
<1>7. PICK own : DOMAIN own = {lrp.guid : lrp \in A} /\ new \in Tables(own)
  BY <1>3, <1>5, OnlyAnswersKnown, Zenon
<1>8. Swap(old, new, B) \in Tables(own)
  BY <1>6, <1>7, SwapFrom, Zenon
<1>9. m \in Associations(Swap(old, new, B))
  BY <1>4, Zenon DEF IInv, RoutersMirrorTable
<1>10. m.guid \in DOMAIN own
  BY <1>8, <1>9, KnownInstances, Zenon
<1>11. QED
  BY <1>7, <1>10

(* A sync during which no event came brings the routers to what the BBS    *)
(* answered: with all that the answers want, and nothing on an instance    *)
(* that they do not report as running and routable (watcher.go, Sync).     *)
THEOREM SyncsInstallAnswers == Spec => SyncInstallsAnswer
<1>1. IInv /\ IInv' => [EndSync /\ cachedEvents = {} /\ restarts = 0 =>
        /\ \A lrp \in RunningActuals, d \in fetched.desired, k \in Keys :
            (k.process = d.process /\ d.process = ProcessOf[lrp.guid]
                /\ IndexOf[lrp.guid] < d.instances) =>
                \A r \in d.routes[k] :
                    [key |-> k, route |-> r, guid |-> lrp.guid, net |-> lrp.net]
                        \in registered'
        /\ \A m \in registered' : \E lrp \in RunningActuals : lrp.guid = m.guid]_vars
  BY AnswersRegistered, OnlyAnswersRegistered
<1>2. QED
  BY <1>1, Invariance, PTL DEF SyncInstallsAnswer

================================================================================
