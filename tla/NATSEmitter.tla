------------------------------ MODULE NATSEmitter ------------------------------
(***************************************************************************)
(* NATSEmitter.Emit (emitter/nats_emitter.go) with its callers, the        *)
(* handler and the unregistration sender, over one shared work pool.       *)
(*                                                                         *)
(* Emit submits one task per message, registrations before                 *)
(* unregistrations, waits for them on a WaitGroup and returns an error if  *)
(* one of them left one in a channel of capacity one.                      *)
(*                                                                         *)
(* The work pool is external: a queue without bound, and workers that take *)
(* its tasks in order and run beside each other.                           *)
(***************************************************************************)
EXTENDS Naturals, Sequences, FiniteSets, Functions

CONSTANTS
    Callers,            \* goroutines that call Emit
    Sender,             \* the one of them that is the unregistration sender
    Workers,            \* RouteEmittingWorkers
    Registrations,      \* messages of the four kinds
    Unregistrations,
    InternalRegistrations,
    InternalUnregistrations,
    EmitInternalRoutes, \* EnableInternalEmitter
    None

Messages ==
    Registrations \cup Unregistrations \cup InternalRegistrations \cup InternalUnregistrations

Kind(n) ==
    CASE n = 1 -> Registrations
      [] n = 2 -> Unregistrations
      [] n = 3 -> InternalRegistrations
      [] n = 4 -> InternalUnregistrations

Task == [caller : Callers, message : Messages]
Running == [task : Task, at : {"start", "published", "recorded"}, error : BOOLEAN]

ASSUME MessagesAssumption ==
    /\ IsFiniteSet(Messages)
    /\ \A i, j \in 1..4 : i # j => Kind(i) \cap Kind(j) = {}

ASSUME NoneAssumption == None \notin Running

VARIABLES
    stage,    \* the part of Emit a caller is in: 0 before, 1..4 submitting, 5 waiting
    pending,  \* messages the caller has yet to submit
    wg,       \* the caller's WaitGroup
    errors,   \* the caller's errors channel holds an error
    result,   \* what the caller's last Emit returned
    queue,    \* the work pool's queue of tasks
    worker    \* the task a worker runs, or None

vars == <<stage, pending, wg, errors, result, queue, worker>>

TypeOK ==
    /\ stage \in [Callers -> 0..5]
    /\ pending \in [Callers -> SUBSET Messages]
    /\ wg \in [Callers -> 0..Cardinality(Messages)]
    /\ errors \in [Callers -> BOOLEAN]
    /\ result \in [Callers -> {"none", "ok", "error"}]
    /\ queue \in Seq(Task)
    /\ worker \in [Workers -> Running \cup {None}]

Init ==
    /\ stage = [c \in Callers |-> 0]
    /\ pending = [c \in Callers |-> {}]
    /\ wg = [c \in Callers |-> 0]
    /\ errors = [c \in Callers |-> FALSE]
    /\ result = [c \in Callers |-> "none"]
    /\ queue = <<>>
    /\ worker = [w \in Workers |-> None]

--------------------------------------------------------------------------------
(* Emit. *)

ToEmit(messages) ==
    IF EmitInternalRoutes
    THEN messages
    ELSE messages \ (InternalRegistrations \cup InternalUnregistrations)

(* The sender emits one unregistration at a time. *)
MayEmit(c) ==
    IF c = Sender THEN {{m} : m \in Unregistrations} ELSE SUBSET Messages

(* Mutant of EnterStage: the unregistrations are not added. *)
EnterStageUncounted(c, n, messages) ==
    /\ stage' = [stage EXCEPT ![c] = n]
    /\ wg' = IF n \in {2, 5} THEN wg
             ELSE [wg EXCEPT ![c] = @ + Cardinality(messages \cap Kind(n))]

(* wg.Add of a kind comes before its first Submit. *)
EnterStage(c, n, messages) ==
    /\ stage' = [stage EXCEPT ![c] = n]
    /\ wg' = IF n = 5 THEN wg
             ELSE [wg EXCEPT ![c] = @ + Cardinality(messages \cap Kind(n))]

Emit(c, messages) ==
    /\ stage[c] = 0
    /\ pending' = [pending EXCEPT ![c] = ToEmit(messages)]
    /\ errors' = [errors EXCEPT ![c] = FALSE]
    /\ result' = [result EXCEPT ![c] = "none"]
    /\ EnterStage(c, 1, ToEmit(messages))
    /\ UNCHANGED <<queue, worker>>

Submit(c, m) ==
    /\ stage[c] \in 1..4
    /\ m \in pending[c] \cap Kind(stage[c])
    /\ pending' = [pending EXCEPT ![c] = @ \ {m}]
    /\ queue' = Append(queue, [caller |-> c, message |-> m])
    /\ UNCHANGED <<stage, wg, errors, result, worker>>

NextStage(c) ==
    /\ stage[c] \in 1..4
    /\ pending[c] \cap Kind(stage[c]) = {}
    /\ EnterStage(c, stage[c] + 1, pending[c])
    /\ UNCHANGED <<pending, errors, result, queue, worker>>

(* wg.Wait, and the error if there is one. *)
Return(c) ==
    /\ stage[c] = 5
    /\ wg[c] = 0
    /\ stage' = [stage EXCEPT ![c] = 0]
    /\ result' = [result EXCEPT ![c] = IF errors[c] THEN "error" ELSE "ok"]
    /\ UNCHANGED <<pending, wg, errors, queue, worker>>

--------------------------------------------------------------------------------
(* A task of the work pool. *)

Take(w) ==
    /\ worker[w] = None
    /\ queue # <<>>
    /\ worker' = [worker EXCEPT ![w] = [task |-> Head(queue), at |-> "start", error |-> FALSE]]
    /\ queue' = Tail(queue)
    /\ UNCHANGED <<stage, pending, wg, errors, result>>

(* natsClient.Publish succeeds or fails. *)
Publish(w) ==
    /\ worker[w] # None
    /\ worker[w].at = "start"
    /\ \E error \in BOOLEAN :
        worker' = [worker EXCEPT ![w].at = "published", ![w].error = error]
    /\ UNCHANGED <<stage, pending, wg, errors, result, queue>>

(* Mutant of RecordError: a task that failed is submitted again. *)
RecordErrorRetrying(w) ==
    /\ worker[w] # None
    /\ worker[w].at = "published"
    /\ IF worker[w].error
       THEN /\ queue' = Append(queue, worker[w].task)
            /\ worker' = [worker EXCEPT ![w] = None]
       ELSE /\ worker' = [worker EXCEPT ![w].at = "recorded"]
            /\ UNCHANGED queue
    /\ UNCHANGED <<stage, pending, wg, errors, result>>

(* The deferred function: leave the error if the channel is free, ... *)
RecordError(w) ==
    /\ worker[w] # None
    /\ worker[w].at = "published"
    /\ errors' = [errors EXCEPT ![worker[w].task.caller] = @ \/ worker[w].error]
    /\ worker' = [worker EXCEPT ![w].at = "recorded"]
    /\ UNCHANGED <<stage, pending, wg, result, queue>>

(* Mutant of Done: before the error is recorded. *)
DoneEarly(w) ==
    /\ worker[w] # None
    /\ worker[w].at \in {"published", "recorded"}
    /\ wg' = [wg EXCEPT ![worker[w].task.caller] = @ - 1]
    /\ worker' = [worker EXCEPT ![w] = None]
    /\ UNCHANGED <<stage, pending, errors, result, queue>>

(* ... then wg.Done. *)
Done(w) ==
    /\ worker[w] # None
    /\ worker[w].at = "recorded"
    /\ wg' = [wg EXCEPT ![worker[w].task.caller] = @ - 1]
    /\ worker' = [worker EXCEPT ![w] = None]
    /\ UNCHANGED <<stage, pending, errors, result, queue>>

Work(w) == Take(w) \/ Publish(w) \/ RecordError(w) \/ Done(w)

Proceed(c) == (\E m \in Messages : Submit(c, m)) \/ NextStage(c) \/ Return(c)

Next ==
    \/ \E c \in Callers :
        (\E messages \in MayEmit(c) : Emit(c, messages)) \/ Proceed(c)
    \/ \E w \in Workers : Work(w)

Spec == Init /\ [][Next]_vars

(* Callers and workers are goroutines; the queue is served in order. *)
FairSpec ==
    /\ Spec
    /\ \A c \in Callers : WF_vars(Proceed(c))
    /\ \A w \in Workers : WF_vars(Work(w))

--------------------------------------------------------------------------------
(* Properties. *)

(* Messages of c that are not published yet. *)
Unpublished(c) ==
    pending[c]
    \cup {t.message : t \in {task \in Range(queue) : task.caller = c}}
    \cup {worker[w].task.message : w \in {v \in Workers :
            worker[v] # None /\ worker[v].at = "start" /\ worker[v].task.caller = c}}

(* A task of c left an error, or is about to. *)
Failed(c) ==
    \/ errors[c]
    \/ \E w \in Workers : worker[w] # None /\ worker[w].task.caller = c /\ worker[w].error

E == INSTANCE Emission WITH
        active <- {c \in Callers : stage[c] # 0},
        todo <- [c \in Callers |-> Unpublished(c)],
        failed <- [c \in Callers |-> Failed(c)]

(* The emitter implements Emission: whatever the interleaving of two       *)
(* callers and the workers, a message is published once, Emit returns only *)
(* when its own messages are published (wg.Wait), and it returns an error  *)
(* exactly when one of them failed, also when several fail while the       *)
(* errors channel has room for one.                                        *)
EmissionSpec == E!Spec

(* Emit always returns: no task is forgotten and no wg.Done is missing.    *)
EmitReturns == \A c \in Callers : stage[c] # 0 ~> stage[c] = 0
================================================================================
