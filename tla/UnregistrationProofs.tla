------------------------ MODULE UnregistrationProofs ------------------------
(***************************************************************************)
(* Proofs about Unregistration for every set of pairs, every send count    *)
(* and any number of changes and losses.                                   *)
(***************************************************************************)
EXTENDS Unregistration, TLAPS

(* What the handler holds in hand and what the sender lists. *)
ListInv ==
    /\ pc \in {"add", "remove"} => toUnregister \cap table \subseteq toRegister
    /\ \A p \in Pairs : batch[p] = Shared => cache[p] # Nil
    /\ sending # Nil => batch[sending] # Nil

(* The sender still has a Message of p to send from its list. *)
Listed(p) == batch[p] # Nil /\ sending # p

(* The sender has withdrawn a pair that is out of the cache, or will, but  *)
(* not both.                                                               *)
Quiet(p) ==
    /\ cache[p] = Nil
    /\ late[p] <= 1
    /\ Listed(p) => late[p] = 0

QuietInv == \A p \in table : changedBy[p] = "update" /\ ~Clearing(p) => Quiet(p)

(* The inductive invariant. *)
IInv == TypeOK /\ ListInv /\ QuietInv

(* Adding and removing keep the types and leave no Shared pointer to a     *)
(* Message that is gone.                                                   *)
LEMMA DetachType ==
    ASSUME IInv, NEW ps \in SUBSET Pairs, Detach(ps)
    PROVE  /\ batch' \in [Pairs -> Counts \cup {Nil, Shared}]
           /\ \A p \in Pairs : batch'[p] = Nil <=> batch[p] = Nil
           /\ \A p \in ps : batch'[p] # Shared
  BY NilSharedAssumption, SendCountAssumption DEF Detach, IInv, TypeOK, ListInv, Counts

(* A change of the table keeps the invariant, if an update goes on to the  *)
(* cache and any other operation to the emission.                          *)
LEMMA ChangeStep ==
    ASSUME IInv, NEW new \in SUBSET Pairs, NEW renewed \in SUBSET (table \cap new),
           NEW how \in {"update", "other"}, ChangeTable(new, renewed, how),
           pc' = IF how = "update" THEN "add" ELSE "emit"
    PROVE  IInv'
<1>1. TypeOK'
  <2>1. /\ changedBy' \in [Pairs -> {"update", "other"}] /\ late' \in [Pairs -> 0..MaxLate]
        /\ dropped' \subseteq Pairs /\ changes' \in 0..MaxChanges
    BY BoundsAssumption, SendCountAssumption DEF ChangeTable, IInv, TypeOK, MaxLate
  <2>2. QED
    BY <2>1 DEF ChangeTable, IInv, TypeOK
<1>2. ListInv'
  BY DEF ChangeTable, IInv, TypeOK, ListInv
<1>3. QuietInv'
  <2> SUFFICES ASSUME NEW p \in table', changedBy'[p] = "update", ~Clearing(p)'
               PROVE  Quiet(p)'
    BY DEF QuietInv
  <2>1. p \in Pairs /\ p \in new
    BY DEF ChangeTable
  <2>2. p \notin toRegister' \cup toUnregister'
    BY <2>1 DEF ChangeTable, Clearing
  <2>3. p \in table /\ changedBy[p] = "update" /\ late'[p] = late[p] /\ ~Clearing(p)
    BY <2>1, <2>2 DEF ChangeTable, Clearing
  <2>4. QED
    BY <2>3 DEF ChangeTable, IInv, QuietInv, Quiet, Listed
<1>4. QED
  BY <1>1, <1>2, <1>3 DEF IInv

(* Every step keeps the types. *)
LEMMA TypeStep ==
    ASSUME IInv, [Handle \/ Sender \/ \E p \in Pairs : RouterPrunes(p)]_vars
    PROVE  TypeOK'
<1> USE NilSharedAssumption, SendCountAssumption, BoundsAssumption DEF code, history
<1>1. CASE EmitExternal
  BY <1>1 DEF EmitExternal, IInv, TypeOK
<1>2. CASE AddUnregistrations
  <2>1. cache' \in [Pairs -> Counts \cup {Nil}]
    BY <1>2 DEF AddUnregistrations, Add, IInv, TypeOK, Counts
  <2>2. QED
    BY <1>2, <2>1, DetachType DEF AddUnregistrations, Add, IInv, TypeOK
<1>3. CASE RemoveRegistrations
  <2>1. cache' \in [Pairs -> Counts \cup {Nil}] /\ late' \in [Pairs -> 0..MaxLate]
    BY <1>3 DEF RemoveRegistrations, Remove, IInv, TypeOK, Counts, MaxLate
  <2>2. QED
    BY <1>3, <2>1, DetachType DEF RemoveRegistrations, Remove, IInv, TypeOK
<1>4. ASSUME NEW p \in Pairs, EmitRegistration(p)
      PROVE  TypeOK'
  BY <1>4 DEF EmitRegistration, Register, IInv, TypeOK
<1>5. ASSUME NEW p \in Pairs, EmitUnregistration(p)
      PROVE  TypeOK'
  BY <1>5 DEF EmitUnregistration, Unregister, IInv, TypeOK
<1>6. CASE Emitted
  BY <1>6 DEF Emitted, IInv, TypeOK
<1>7. CASE Tick
  BY <1>7 DEF Tick, List, IInv, TypeOK
<1>8. ASSUME NEW p \in Pairs, Send(p)
      PROVE  TypeOK'
  <2>1. late' \in [Pairs -> 0..MaxLate]
    BY <1>8 DEF Send, IInv, TypeOK, MaxLate
  <2>2. lost' \in 0..MaxLost /\ routers' \subseteq Pairs
    BY <1>8 DEF Send, Unregister, IInv, TypeOK
  <2>3. QED
    BY <1>8, <2>1, <2>2 DEF Send, IInv, TypeOK
<1>9. CASE CountSent
  <2>1. sending \in Pairs /\ SentCount(sending) \in Counts
    BY <1>9 DEF CountSent, SentCount, IInv, TypeOK, ListInv
  <2>2. cache' \in [Pairs -> Counts \cup {Nil}]
    BY <1>9, <2>1 DEF CountSent, Counted, SentCount, Counts, IInv, TypeOK
  <2>3. batch' \in [Pairs -> Counts \cup {Nil, Shared}] /\ dropped' \subseteq Pairs
    BY <1>9, <2>1 DEF CountSent, Counted, IInv, TypeOK
  <2>4. QED
    BY <1>9, <2>2, <2>3 DEF CountSent, IInv, TypeOK
<1>10. ASSUME NEW p \in Pairs, RouterPrunes(p)
       PROVE  TypeOK'
  BY <1>10 DEF RouterPrunes, IInv, TypeOK
<1>11. CASE UNCHANGED vars
  BY <1>11 DEF vars, IInv, TypeOK
<1>12. QED
  BY <1>1, <1>2, <1>3, <1>4, <1>5, <1>6, <1>7, <1>8, <1>9, <1>10, <1>11 DEF Handle, Sender

(* Every step keeps what the list refers to. *)
LEMMA ListStep ==
    ASSUME IInv, [Handle \/ Sender \/ \E p \in Pairs : RouterPrunes(p)]_vars
    PROVE  ListInv'
<1> USE NilSharedAssumption DEF code, history
<1>1. CASE EmitExternal
  BY <1>1 DEF EmitExternal, IInv, ListInv
<1>2. CASE AddUnregistrations
  BY <1>2, DetachType DEF AddUnregistrations, Add, Detach, IInv, TypeOK, ListInv
<1>3. CASE RemoveRegistrations
  BY <1>3, DetachType, Zenon DEF RemoveRegistrations, Remove, Detach, IInv, TypeOK, ListInv
<1>4. ASSUME NEW p \in Pairs, EmitRegistration(p)
      PROVE  ListInv'
  BY <1>4 DEF EmitRegistration, IInv, ListInv
<1>5. ASSUME NEW p \in Pairs, EmitUnregistration(p)
      PROVE  ListInv'
  BY <1>5 DEF EmitUnregistration, IInv, ListInv
<1>6. CASE Emitted
  BY <1>6 DEF Emitted, IInv, ListInv
<1>7. CASE Tick
  BY <1>7 DEF Tick, List, IInv, ListInv
<1>8. ASSUME NEW p \in Pairs, Send(p)
      PROVE  ListInv'
  BY <1>8 DEF Send, IInv, ListInv
<1>9. CASE CountSent
  <2>1. \A p \in Pairs : batch'[p] = Shared => p # sending /\ batch[p] = Shared
    BY <1>9 DEF CountSent, IInv, TypeOK
  <2>2. \A p \in Pairs : p # sending => cache'[p] = cache[p]
    BY <1>9 DEF CountSent, Counted, IInv, TypeOK
  <2>3. QED
    BY <1>9, <2>1, <2>2 DEF CountSent, IInv, ListInv
<1>10. ASSUME NEW p \in Pairs, RouterPrunes(p)
       PROVE  ListInv'
  BY <1>10 DEF RouterPrunes, IInv, ListInv
<1>11. CASE UNCHANGED vars
  BY <1>11 DEF vars, IInv, ListInv
<1>12. QED
  BY <1>1, <1>2, <1>3, <1>4, <1>5, <1>6, <1>7, <1>8, <1>9, <1>10, <1>11 DEF Handle, Sender

(* Every step keeps the sender quiet about pairs that an update registered. *)
LEMMA QuietStep ==
    ASSUME IInv, [Handle \/ Sender \/ \E p \in Pairs : RouterPrunes(p)]_vars
    PROVE  QuietInv'
<1> USE NilSharedAssumption DEF code, history
<1>1. CASE EmitExternal
  BY <1>1 DEF EmitExternal, IInv, QuietInv, Quiet, Listed, Clearing
<1>2. CASE AddUnregistrations
  <2> SUFFICES ASSUME NEW p \in table', changedBy'[p] = "update", ~Clearing(p)'
               PROVE  Quiet(p)'
    BY DEF QuietInv
  <2>1. p \in table /\ p \in Pairs /\ p \notin toRegister /\ p \notin toUnregister /\ Quiet(p)
    BY <1>2 DEF AddUnregistrations, Clearing, IInv, TypeOK, ListInv, QuietInv
  <2>2. cache'[p] = cache[p] /\ batch'[p] = batch[p]
    BY <1>2, <2>1 DEF AddUnregistrations, Add, Detach
  <2>3. QED
    BY <1>2, <2>1, <2>2 DEF AddUnregistrations, Quiet, Listed
<1>3. CASE RemoveRegistrations
  <2> SUFFICES ASSUME NEW p \in table', changedBy'[p] = "update"
               PROVE  Quiet(p)'
    BY DEF QuietInv
  <2>1. p \in table /\ p \in Pairs /\ changedBy[p] = "update"
    BY <1>3 DEF RemoveRegistrations, IInv, TypeOK
  <2>2. CASE p \in toRegister
    BY <1>3, <2>1, <2>2 DEF RemoveRegistrations, Remove, Quiet
  <2>3. CASE p \notin toRegister
    <3>1. Quiet(p)
      BY <2>1, <2>3 DEF IInv, QuietInv, Clearing
    <3>2. cache'[p] = cache[p] /\ batch'[p] = batch[p] /\ late'[p] = late[p]
      BY <1>3, <2>1, <2>3 DEF RemoveRegistrations, Remove, Detach
    <3>3. QED
      BY <1>3, <3>1, <3>2 DEF RemoveRegistrations, Quiet, Listed
  <2>4. QED
    BY <2>2, <2>3
<1>4. ASSUME NEW p \in Pairs, EmitRegistration(p)
      PROVE  QuietInv'
  BY <1>4 DEF EmitRegistration, IInv, QuietInv, Quiet, Listed, Clearing
<1>5. ASSUME NEW p \in Pairs, EmitUnregistration(p)
      PROVE  QuietInv'
  BY <1>5 DEF EmitUnregistration, IInv, QuietInv, Quiet, Listed, Clearing
<1>6. CASE Emitted
  BY <1>6 DEF Emitted, IInv, QuietInv, Quiet, Listed, Clearing
<1>7. CASE Tick
  BY <1>7 DEF Tick, List, IInv, TypeOK, QuietInv, Quiet, Listed, Clearing
<1>8. ASSUME NEW p \in Pairs, Send(p)
      PROVE  QuietInv'
  BY <1>8 DEF Send, IInv, TypeOK, QuietInv, Quiet, Listed, Clearing, MaxLate
<1>9. CASE CountSent
  <2>1. sending \in Pairs
    BY <1>9 DEF CountSent, IInv, TypeOK
  <2>2. /\ \A p \in Pairs : p # sending => cache'[p] = cache[p] /\ batch'[p] = batch[p]
        /\ batch'[sending] = Nil
        /\ cache[sending] = Nil => cache'[sending] = Nil
    BY <1>9, <2>1 DEF CountSent, Counted, IInv, TypeOK, ListInv
  <2>3. QED
    BY <1>9, <2>2 DEF CountSent, IInv, TypeOK, QuietInv, Quiet, Listed, Clearing
<1>10. ASSUME NEW p \in Pairs, RouterPrunes(p)
       PROVE  QuietInv'
  BY <1>10 DEF RouterPrunes, IInv, QuietInv, Quiet, Listed, Clearing
<1>11. CASE UNCHANGED vars
  BY <1>11 DEF vars, IInv, QuietInv, Quiet, Listed, Clearing
<1>12. QED
  BY <1>1, <1>2, <1>3, <1>4, <1>5, <1>6, <1>7, <1>8, <1>9, <1>10, <1>11 DEF Handle, Sender

(* The inductive invariant holds initially and every step of the handler,  *)
(* the sender and the routers keeps it.                                    *)
THEOREM Invariance == Spec => []IInv
<1>1. Init => IInv
  <2> SUFFICES ASSUME Init PROVE IInv
    OBVIOUS
  <2>1. TypeOK
    BY BoundsAssumption, SendCountAssumption DEF Init, TypeOK, MaxLate
  <2>2. ListInv /\ QuietInv
    BY NilSharedAssumption DEF Init, ListInv, QuietInv, Quiet, Listed
  <2>3. QED
    BY <2>1, <2>2 DEF IInv
<1>2. IInv /\ [Next]_vars => IInv'
  <2> SUFFICES ASSUME IInv, [Next]_vars PROVE IInv'
    OBVIOUS
  <2>1. CASE Update
    BY <2>1, ChangeStep DEF Update
  <2>2. CASE OtherChange
    BY <2>2, ChangeStep DEF OtherChange
  <2>3. CASE [Handle \/ Sender \/ \E p \in Pairs : RouterPrunes(p)]_vars
    BY <2>3, TypeStep, ListStep, QuietStep DEF IInv
  <2>4. QED
    BY <2>1, <2>2, <2>3 DEF Next
<1>3. QED
  BY <1>1, <1>2, PTL DEF Spec

(* The cache and the sender's list keep their types: no Message is counted *)
(* up to the send count and left in the cache, which would be sent for     *)
(* ever (sender.go:67 tests for equality).                                 *)
THEOREM TypeCorrect == Spec => []TypeOK
<1>1. IInv => TypeOK
  BY DEF IInv
<1>2. QED
  BY <1>1, Invariance, PTL

(* After an update has taken a pair out of the cache the sender withdraws  *)
(* it at most once, wherever in its list it was (sender.go:55).            *)
THEOREM UpdatesStopSender == Spec => []UpdateStopsSender
<1>1. IInv => UpdateStopsSender
  BY DEF IInv, QuietInv, Quiet, UpdateStopsSender
<1>2. QED
  BY <1>1, Invariance, PTL

(* Withdrawals of p that the cache, and a Message the sender has for       *)
(* itself, still owe.                                                      *)
Cached(p) == IF cache[p] = Nil THEN 0 ELSE SendCount - cache[p]
Owed(p) == Cached(p) + (IF batch[p] \in {Nil, Shared} THEN 0 ELSE 1)

(* One that is sent and not yet counted is among them. *)
InFlight(p) == IF sending = p THEN 1 ELSE 0

BoundInv ==
    \A p \in table : ~Clearing(p) => late[p] + Owed(p) <= SendCount + 1 + InFlight(p)

(* No pair is owed more than a full count and one. *)
LEMMA OwedBounded ==
    ASSUME IInv, NEW p \in Pairs
    PROVE  Cached(p) \in 0..SendCount /\ Owed(p) \in 0..(SendCount + 1) /\ InFlight(p) \in 0..1
  BY SendCountAssumption, NilSharedAssumption DEF IInv, TypeOK, Counts, Cached, Owed, InFlight

(* A change starts the count of the pairs it changes. *)
LEMMA BoundChange ==
    ASSUME IInv, BoundInv, IInv', NEW new \in SUBSET Pairs, NEW renewed \in SUBSET (table \cap new),
           NEW how \in {"update", "other"}, ChangeTable(new, renewed, how)
    PROVE  BoundInv'
<1> SUFFICES ASSUME NEW p \in table', ~Clearing(p)'
             PROVE  (late[p] + Owed(p) <= SendCount + 1 + InFlight(p))'
  BY DEF BoundInv
<1>1. p \in Pairs /\ p \in new
  BY DEF ChangeTable
<1>2. Owed(p)' = Owed(p) /\ InFlight(p)' = InFlight(p)
  BY DEF ChangeTable, Owed, Cached, InFlight
<1>3. CASE p \in toRegister' \cup toUnregister'
  <2>1. late'[p] = 0
    BY <1>1, <1>3 DEF ChangeTable
  <2>2. QED
    BY <1>1, <1>2, <2>1, OwedBounded, SendCountAssumption
<1>4. CASE p \notin toRegister' \cup toUnregister'
  <2>1. p \in table /\ late'[p] = late[p] /\ ~Clearing(p)
    BY <1>1, <1>4 DEF ChangeTable, Clearing
  <2>2. QED
    BY <1>2, <2>1 DEF BoundInv
<1>5. QED
  BY <1>3, <1>4

(* Every step takes from what is owed as much as it adds to the count. *)
LEMMA BoundStep ==
    ASSUME IInv, BoundInv, IInv', [Handle \/ Sender \/ \E p \in Pairs : RouterPrunes(p)]_vars
    PROVE  BoundInv'
<1> USE DEF code, history
<1> SUFFICES ASSUME NEW p \in table', ~Clearing(p)'
             PROVE  (late[p] + Owed(p) <= SendCount + 1 + InFlight(p))'
  BY DEF BoundInv
<1>1. p \in table /\ p \in Pairs
  BY DEF Handle, EmitExternal, AddUnregistrations, RemoveRegistrations, EmitRegistration,
         EmitUnregistration, Emitted, Sender, Tick, Send, CountSent, RouterPrunes, vars,
         IInv, TypeOK
<1>2. late[p] \in Nat /\ SendCount \in Nat \ {0}
  BY <1>1, SendCountAssumption DEF IInv, TypeOK, MaxLate
<1>3. Cached(p) \in Nat /\ Owed(p) \in Nat /\ InFlight(p) \in 0..1
  BY <1>1, <1>2, OwedBounded
<1>4. ASSUME ~Clearing(p), cache'[p] = cache[p], batch'[p] = batch[p], sending' = sending,
             late'[p] = late[p]
      PROVE  (late[p] + Owed(p) <= SendCount + 1 + InFlight(p))'
  BY <1>1, <1>4 DEF BoundInv, Owed, Cached, InFlight
<1>5. CASE EmitExternal
  BY <1>4, <1>5 DEF EmitExternal, Clearing
<1>6. CASE AddUnregistrations
  <2>1. p \notin toRegister /\ p \notin toUnregister
    BY <1>1, <1>6 DEF AddUnregistrations, Clearing, IInv, ListInv
  <2>2. cache'[p] = cache[p] /\ batch'[p] = batch[p]
    BY <1>1, <1>6, <2>1 DEF AddUnregistrations, Add, Detach
  <2>3. QED
    BY <1>4, <1>6, <2>1, <2>2 DEF AddUnregistrations, Clearing
<1>7. CASE RemoveRegistrations
  <2>1. CASE p \in toRegister
    <3>1. late'[p] = 0 /\ cache'[p] = Nil
      BY <1>1, <1>7, <2>1 DEF RemoveRegistrations, Remove
    <3>2. Owed(p)' \in 0..1 /\ InFlight(p)' \in 0..1
      BY <3>1 DEF Owed, Cached, InFlight
    <3>3. QED
      BY <1>2, <3>1, <3>2
  <2>2. CASE p \notin toRegister
    BY <1>1, <1>4, <1>7, <2>2 DEF RemoveRegistrations, Remove, Detach, Clearing
  <2>3. QED
    BY <2>1, <2>2
<1>8. ASSUME NEW q \in Pairs, EmitRegistration(q)
      PROVE  (late[p] + Owed(p) <= SendCount + 1 + InFlight(p))'
  BY <1>4, <1>8 DEF EmitRegistration, Clearing
<1>9. ASSUME NEW q \in Pairs, EmitUnregistration(q)
      PROVE  (late[p] + Owed(p) <= SendCount + 1 + InFlight(p))'
  BY <1>4, <1>9 DEF EmitUnregistration, Clearing
<1>10. CASE Emitted
  BY <1>4, <1>10 DEF Emitted, Clearing
<1>11. CASE Tick
  <2>1. batch[p] = Nil /\ batch'[p] \in {Nil, Shared}
    BY <1>1, <1>11 DEF Tick, List
  <2>2. Owed(p)' = Owed(p) /\ InFlight(p)' = InFlight(p) /\ late' = late /\ ~Clearing(p)
    BY <1>11, <2>1 DEF Tick, Owed, Cached, InFlight, Clearing
  <2>3. QED
    BY <1>1, <2>2 DEF BoundInv
<1>12. ASSUME NEW q \in Pairs, Send(q)
       PROVE  (late[p] + Owed(p) <= SendCount + 1 + InFlight(p))'
  <2>1. late[p] + Owed(p) <= SendCount + 1 + InFlight(p)
    BY <1>1, <1>12 DEF BoundInv, Send, Clearing
  <2>2. Owed(p)' = Owed(p)
    BY <1>12 DEF Send, Owed, Cached
  <2>3. CASE q = p
    <3>1. InFlight(p) = 0 /\ InFlight(p)' = 1
      BY <1>1, <1>12, <2>3, NilSharedAssumption DEF Send, InFlight
    <3>2. late'[p] \in {late[p], late[p] + 1}
      BY <1>1, <1>2, <1>12, <2>3 DEF Send, IInv, TypeOK
    <3>3. QED
      BY <1>2, <1>3, <2>1, <2>2, <3>1, <3>2
  <2>4. CASE q # p
    <3>1. InFlight(p) = 0 /\ InFlight(p)' = 0
      BY <1>1, <1>12, <2>4, NilSharedAssumption DEF Send, InFlight
    <3>2. late'[p] = late[p]
      BY <1>1, <1>12, <2>4 DEF Send, IInv, TypeOK
    <3>3. QED
      BY <2>1, <2>2, <3>1, <3>2
  <2>5. QED
    BY <2>3, <2>4
<1>13. CASE CountSent
  <2>1. late' = late /\ late[p] + Owed(p) <= SendCount + 1 + InFlight(p)
    BY <1>1, <1>13 DEF BoundInv, CountSent, Clearing
  <2>2. CASE sending # p
    <3>1. cache'[p] = cache[p] /\ batch'[p] = batch[p]
      BY <1>1, <1>13, <2>2 DEF CountSent, Counted, IInv, TypeOK
    <3>2. Owed(p)' = Owed(p) /\ InFlight(p) = 0 /\ InFlight(p)' = 0
      BY <1>1, <1>13, <2>2, <3>1, NilSharedAssumption DEF CountSent, Owed, Cached, InFlight
    <3>3. QED
      BY <2>1, <3>2
  <2>3. CASE sending = p
    <3>1. InFlight(p) = 1 /\ InFlight(p)' = 0 /\ batch'[p] = Nil /\ batch[p] # Nil
      BY <1>1, <1>13, <2>3, NilSharedAssumption DEF CountSent, InFlight, IInv, TypeOK, ListInv
    <3>2. Cached(p)' \in Nat
      BY <1>1, SendCountAssumption, NilSharedAssumption DEF IInv, TypeOK, Counts, Cached
    <3>3. Owed(p)' = Cached(p)'
      BY <3>1, <3>2 DEF Owed
    <3>4. Cached(p)' + 1 <= Owed(p)
      <4>1. CASE batch[p] = Shared
        <5>1. cache[p] \in Counts /\ Owed(p) = SendCount - cache[p]
          BY <1>1, <1>2, <4>1, NilSharedAssumption DEF IInv, TypeOK, ListInv, Owed, Cached, Counts
        <5>2. cache'[p] = IF cache[p] + 1 = SendCount THEN Nil ELSE cache[p] + 1
          BY <1>1, <1>13, <2>3, <4>1 DEF CountSent, Counted, SentCount, IInv, TypeOK
        <5>3. QED
          BY <1>2, <5>1, <5>2, NilSharedAssumption DEF Cached, Counts
      <4>2. CASE batch[p] # Shared
        <5>1. Owed(p) = Cached(p) + 1
          BY <3>1, <4>2 DEF Owed
        <5>2. cache'[p] \in {Nil, cache[p]}
          BY <1>1, <1>13, <2>3, <4>2 DEF CountSent, Counted, IInv, TypeOK
        <5>3. Cached(p)' \in {0, Cached(p)}
          BY <5>2 DEF Cached
        <5>4. QED
          BY <1>3, <5>1, <5>3
      <4>3. QED
        BY <4>1, <4>2
    <3>5. QED
      BY <1>2, <1>3, <2>1, <3>1, <3>2, <3>3, <3>4
  <2>4. QED
    BY <2>2, <2>3
<1>14. ASSUME NEW q \in Pairs, RouterPrunes(q)
       PROVE  (late[p] + Owed(p) <= SendCount + 1 + InFlight(p))'
  BY <1>4, <1>14 DEF RouterPrunes, Clearing
<1>15. CASE UNCHANGED vars
  BY <1>4, <1>15 DEF vars, Clearing
<1>16. QED
  BY <1>5, <1>6, <1>7, <1>8, <1>9, <1>10, <1>11, <1>12, <1>13, <1>14, <1>15 DEF Handle, Sender

(* Whatever registered a pair, the sender withdraws it at most SendCount   *)
(* times and once more (handler.go:223, sender.go:66).                     *)
THEOREM SenderGivesUp == Spec => []WithdrawalsBounded
<1>1. Init => BoundInv
  <2> SUFFICES ASSUME Init, NEW p \in table
               PROVE  late[p] + Owed(p) <= SendCount + 1 + InFlight(p)
    BY DEF BoundInv
  <2>1. late[p] = 0 /\ Owed(p) = 0 /\ InFlight(p) \in 0..1
    BY DEF Init, Owed, Cached, InFlight
  <2>2. QED
    BY <2>1, SendCountAssumption
<1>2. IInv /\ IInv' /\ BoundInv /\ [Next]_vars => BoundInv'
  <2> SUFFICES ASSUME IInv, IInv', BoundInv, [Next]_vars PROVE BoundInv'
    OBVIOUS
  <2>1. CASE Update
    BY <2>1, BoundChange DEF Update
  <2>2. CASE OtherChange
    BY <2>2, BoundChange DEF OtherChange
  <2>3. CASE [Handle \/ Sender \/ \E p \in Pairs : RouterPrunes(p)]_vars
    BY <2>3, BoundStep
  <2>4. QED
    BY <2>1, <2>2, <2>3 DEF Next
<1>3. IInv /\ BoundInv => WithdrawalsBounded
  <2> SUFFICES ASSUME IInv, BoundInv, NEW p \in table, ~Clearing(p)
               PROVE  late[p] <= SendCount + 1
    BY DEF WithdrawalsBounded
  <2>1. p \in Pairs /\ late[p] \in Nat /\ SendCount \in Nat
    BY SendCountAssumption DEF IInv, TypeOK, MaxLate
  <2>2. Owed(p) \in Nat /\ InFlight(p) \in 0..1
    BY <2>1, OwedBounded
  <2>3. sending = p => Owed(p) >= 1
    BY <2>1, SendCountAssumption, NilSharedAssumption
    DEF IInv, TypeOK, ListInv, Owed, Cached, Counts
  <2>4. QED
    BY <2>1, <2>2, <2>3 DEF BoundInv, InFlight
<1>4. QED
  BY <1>1, <1>2, <1>3, Invariance, PTL DEF Spec
================================================================================
