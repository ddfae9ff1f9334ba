--------------------------- MODULE NATSEmitterProofs ---------------------------
(***************************************************************************)
(* Proofs about NATSEmitter for any number of callers, workers and         *)
(* messages: the WaitGroup of a caller counts exactly its tasks that are   *)
(* not done, so Emit returns when it should, and the emitter implements    *)
(* Emission.                                                               *)
(***************************************************************************)
EXTENDS NATSEmitter, FiniteSetTheorems, TLAPS

TaskOf(c, m) == [caller |-> c, message |-> m]

(* Where a message of c may be: to be submitted and counted already, in    *)
(* the queue, with a worker.                                               *)
Counted(c) == {m \in pending[c] : stage[c] \in 1..4 /\ m \in Kind(stage[c])}
Queued(c) == {m \in Messages : TaskOf(c, m) \in Range(queue)}
Held(c) == {m \in Messages : \E w \in Workers : worker[w] # None /\ worker[w].task = TaskOf(c, m)}

Outstanding(c) == Counted(c) \cup Queued(c) \cup Held(c)

(* The type invariant without the bound on the WaitGroup, which takes the  *)
(* counting to prove.                                                      *)
Types ==
    /\ stage \in [Callers -> 0..5]
    /\ pending \in [Callers -> SUBSET Messages]
    /\ wg \in [Callers -> Int]
    /\ errors \in [Callers -> BOOLEAN]
    /\ result \in [Callers -> {"none", "ok", "error"}]
    /\ queue \in Seq(Task)
    /\ worker \in [Workers -> Running \cup {None}]

(* No task is in two places. *)
NoDuplicates == \A i, j \in DOMAIN queue : queue[i] = queue[j] => i = j

OneWorker ==
    \A v, w \in Workers :
        worker[v] # None /\ worker[w] # None /\ worker[v].task = worker[w].task => v = w

Apart ==
    \A c \in Callers :
        /\ Queued(c) \cap Held(c) = {}
        /\ Queued(c) \cap pending[c] = {}
        /\ Held(c) \cap pending[c] = {}

(* What is to be submitted is of this stage or a later one. *)
Ahead ==
    \A c \in Callers : \A m \in pending[c] :
        stage[c] \in 1..4 /\ \E k \in stage[c]..4 : m \in Kind(k)

(* The WaitGroup counts what is outstanding, and that is nothing while the *)
(* caller is not in Emit.                                                  *)
CountInv == \A c \in Callers : wg[c] = Cardinality(Outstanding(c))
IdleInv == \A c \in Callers : stage[c] = 0 => Outstanding(c) = {}

(* An error that a task has recorded is in its caller's channel. *)
ErrorInv ==
    \A w \in Workers : worker[w] # None =>
        /\ worker[w].at = "start" => ~worker[w].error
        /\ worker[w].at = "recorded" /\ worker[w].error => errors[worker[w].task.caller]

(* The inductive invariant. *)
IInv == Types /\ NoDuplicates /\ OneWorker /\ Apart /\ Ahead /\ CountInv /\ IdleInv /\ ErrorInv

--------------------------------------------------------------------------------
(* The queue as a set of tasks. *)
LEMMA QueueAppend ==
    ASSUME NEW q \in Seq(Task), NEW t \in Task, t \notin Range(q),
           \A i, j \in DOMAIN q : q[i] = q[j] => i = j
    PROVE  /\ Append(q, t) \in Seq(Task)
           /\ Range(Append(q, t)) = Range(q) \cup {t}
           /\ \A i, j \in DOMAIN Append(q, t) : Append(q, t)[i] = Append(q, t)[j] => i = j
<1> DEFINE r == Append(q, t)
<1>1. /\ r \in Seq(Task) /\ Len(r) = Len(q) + 1 /\ Len(q) \in Nat
      /\ DOMAIN r = 1..(Len(q) + 1) /\ DOMAIN q = 1..Len(q)
      /\ r[Len(q) + 1] = t
      /\ \A i \in 1..Len(q) : r[i] = q[i]
  OBVIOUS
<1> HIDE DEF r
<1>2. \A i \in 1..(Len(q) + 1) : i \in 1..Len(q) \/ i = Len(q) + 1
  BY <1>1
<1>3. Range(r) = Range(q) \cup {t}
  BY <1>1, <1>2 DEF Range
<1>4. \A i, j \in DOMAIN r : r[i] = r[j] => i = j
  BY <1>1, <1>2 DEF Range
<1>5. QED
  BY <1>1, <1>3, <1>4 DEF r

(* Taking the head takes one task, and only that. *)
LEMMA QueueTail ==
    ASSUME NEW q \in Seq(Task), q # <<>>,
           \A i, j \in DOMAIN q : q[i] = q[j] => i = j
    PROVE  /\ Tail(q) \in Seq(Task)
           /\ Head(q) \in Task /\ Head(q) \in Range(q)
           /\ Range(Tail(q)) = Range(q) \ {Head(q)}
           /\ \A i, j \in DOMAIN Tail(q) : Tail(q)[i] = Tail(q)[j] => i = j
<1> DEFINE r == Tail(q)
<1>1. /\ r \in Seq(Task) /\ Len(r) = Len(q) - 1 /\ Len(q) \in Nat \ {0}
      /\ DOMAIN r = 1..(Len(q) - 1) /\ DOMAIN q = 1..Len(q)
      /\ Head(q) = q[1] /\ q[1] \in Task
      /\ \A i \in 1..(Len(q) - 1) : r[i] = q[i + 1]
  OBVIOUS
<1> HIDE DEF r
<1>2. Range(r) = Range(q) \ {Head(q)}
  <2>1. ASSUME NEW i \in DOMAIN r
        PROVE  r[i] \in Range(q) \ {Head(q)}
    <3>1. i + 1 \in DOMAIN q /\ i + 1 # 1 /\ 1 \in DOMAIN q /\ r[i] = q[i + 1]
      BY <1>1, <2>1
    <3>2. QED
      BY <1>1, <3>1 DEF Range
  <2>2. ASSUME NEW i \in DOMAIN q, q[i] # Head(q)
        PROVE  q[i] \in Range(r)
    <3>1. i - 1 \in DOMAIN r /\ r[i - 1] = q[i]
      BY <1>1, <2>2
    <3>2. QED
      BY <3>1 DEF Range
  <2>3. QED
    BY <2>1, <2>2 DEF Range
<1>3. \A i, j \in DOMAIN r : r[i] = r[j] => i = j
  <2> SUFFICES ASSUME NEW i \in DOMAIN r, NEW j \in DOMAIN r, r[i] = r[j]
               PROVE  i = j
    OBVIOUS
  <2>1. i + 1 \in DOMAIN q /\ j + 1 \in DOMAIN q /\ q[i + 1] = q[j + 1]
    BY <1>1
  <2>2. i + 1 = j + 1
    BY <2>1
  <2>3. QED
    BY <1>1, <2>2
<1>4. Head(q) \in Range(q)
  BY <1>1 DEF Range
<1>5. QED
  BY <1>1, <1>2, <1>3, <1>4 DEF r

--------------------------------------------------------------------------------
(* The kinds make up the messages. *)
LEMMA Kinds ==
    /\ \A k \in 1..4 : Kind(k) \subseteq Messages
    /\ \A m \in Messages : \E k \in 1..4 : m \in Kind(k)
    /\ \A i, j \in 1..4 : i # j => Kind(i) \cap Kind(j) = {}
<1>1. \A k \in 1..4 : k = 1 \/ k = 2 \/ k = 3 \/ k = 4
  OBVIOUS
<1>2. /\ Kind(1) = Registrations /\ Kind(2) = Unregistrations
      /\ Kind(3) = InternalRegistrations /\ Kind(4) = InternalUnregistrations
  BY DEF Kind
<1>3. QED
  BY <1>1, <1>2, MessagesAssumption DEF Messages

(* A worker's task is that of a message and its caller. *)
LEMMA WorkerTask ==
    ASSUME Types, NEW w \in Workers, worker[w] # None
    PROVE  /\ worker[w] \in Running
           /\ worker[w].task \in Task
           /\ worker[w].task.caller \in Callers
           /\ worker[w].task.message \in Messages
           /\ worker[w].task = TaskOf(worker[w].task.caller, worker[w].task.message)
<1>1. worker[w] \in Running /\ worker[w].task \in Task
  BY DEF Types, Running
<1>2. QED
  BY <1>1 DEF Task, TaskOf

(* What is outstanding is a finite set of messages. *)
LEMMA OutstandingFinite ==
    ASSUME Types, NEW c \in Callers
    PROVE  /\ Outstanding(c) \subseteq Messages
           /\ IsFiniteSet(Outstanding(c))
           /\ Cardinality(Outstanding(c)) \in 0..Cardinality(Messages)
<1>1. Outstanding(c) \subseteq Messages
  BY DEF Outstanding, Counted, Queued, Held, Types
<1>2. IsFiniteSet(Outstanding(c)) /\ Cardinality(Outstanding(c)) <= Cardinality(Messages)
  BY <1>1, FS_Subset, MessagesAssumption
<1>3. Cardinality(Outstanding(c)) \in Nat /\ Cardinality(Messages) \in Nat
  BY <1>2, FS_CardinalityType, MessagesAssumption
<1>4. QED
  BY <1>1, <1>2, <1>3

(* A step that moves tasks, and neither counts nor finishes one. *)
LEMMA Moved ==
    ASSUME IInv, UNCHANGED <<wg, stage>>,
           \A c \in Callers : Outstanding(c)' = Outstanding(c)
    PROVE  CountInv' /\ IdleInv'
  BY DEF IInv, CountInv, IdleInv

(* Submit moves a message from pending to the queue. *)
LEMMA SubmitMoves ==
    ASSUME IInv, NEW c \in Callers, NEW m \in Messages, Submit(c, m)
    PROVE  /\ queue' \in Seq(Task) /\ NoDuplicates'
           /\ m \in pending[c]
           /\ \A d \in Callers :
                /\ pending'[d] = IF d = c THEN pending[c] \ {m} ELSE pending[d]
                /\ Queued(d)' = IF d = c THEN Queued(c) \cup {m} ELSE Queued(d)
<1> DEFINE t == TaskOf(c, m)
<1> USE DEF IInv
<1>1. /\ m \in pending[c]
      /\ pending' = [pending EXCEPT ![c] = @ \ {m}]
      /\ queue' = Append(queue, t)
  BY DEF Submit, TaskOf
<1>2. t \in Task /\ t \notin Range(queue)
  BY <1>1 DEF Apart, Queued, Task, TaskOf
<1>3. /\ queue' \in Seq(Task) /\ Range(queue') = Range(queue) \cup {t}
      /\ NoDuplicates'
  BY <1>1, <1>2, QueueAppend, Zenon DEF Types, NoDuplicates
<1>4. \A d \in Callers : pending'[d] = IF d = c THEN pending[c] \ {m} ELSE pending[d]
  BY <1>1 DEF Types
<1>5. ASSUME NEW d \in Callers
      PROVE  Queued(d)' = IF d = c THEN Queued(c) \cup {m} ELSE Queued(d)
  <2>1. \A n \in Messages : TaskOf(d, n) = t <=> d = c /\ n = m
    BY DEF TaskOf
  <2>2. QED
    BY <1>3, <2>1 DEF Queued
<1>6. QED
  BY <1>1, <1>3, <1>4, <1>5

(* So Submit keeps the invariant. *)
LEMMA SubmitInv ==
    ASSUME IInv, NEW c \in Callers, NEW m \in Messages, Submit(c, m)
    PROVE  IInv'
<1> USE DEF IInv
<1>1. /\ stage[c] \in 1..4 /\ m \in Kind(stage[c])
      /\ pending' = [pending EXCEPT ![c] = @ \ {m}]
      /\ UNCHANGED <<stage, wg, errors, result, worker>>
  BY DEF Submit
<1>2. /\ queue' \in Seq(Task) /\ NoDuplicates'
      /\ m \in pending[c]
      /\ \A d \in Callers :
           /\ pending'[d] = IF d = c THEN pending[c] \ {m} ELSE pending[d]
           /\ Queued(d)' = IF d = c THEN Queued(c) \cup {m} ELSE Queued(d)
  BY SubmitMoves, Zenon
<1>3. Types'
  BY <1>1, <1>2 DEF Types
<1>4. \A d \in Callers : /\ Held(d)' = Held(d)
                         /\ Counted(d)' = IF d = c THEN Counted(c) \ {m} ELSE Counted(d)
  BY <1>1, <1>2 DEF Held, Counted
<1>5. Apart'
  BY <1>2, <1>4 DEF Apart
<1>6. Ahead'
  BY <1>1, <1>2 DEF Ahead
<1>7. \A d \in Callers : Outstanding(d)' = Outstanding(d)
  BY <1>1, <1>2, <1>4 DEF Outstanding, Counted
<1>8. CountInv' /\ IdleInv'
  BY <1>1, <1>7, Moved
<1>9. OneWorker' /\ ErrorInv'
  BY <1>1 DEF OneWorker, ErrorInv
<1>10. QED
  BY <1>2, <1>3, <1>5, <1>6, <1>8, <1>9

(* Take moves a message from the queue to a worker. *)
LEMMA TakeMoves ==
    ASSUME IInv, NEW w \in Workers, Take(w)
    PROVE  \E c \in Callers, m \in Messages :
            /\ queue' \in Seq(Task) /\ NoDuplicates'
            /\ m \in Queued(c)
            /\ \A d \in Callers :
                Queued(d)' = IF d = c THEN Queued(c) \ {m} ELSE Queued(d)
            /\ worker'[w] \in Running /\ worker'[w].task = TaskOf(c, m)
            /\ worker'[w].at = "start" /\ ~worker'[w].error
<1> DEFINE t == Head(queue)
<1> USE DEF IInv
<1>1. /\ queue # <<>>
      /\ worker' = [worker EXCEPT ![w] = [task |-> t, at |-> "start", error |-> FALSE]]
      /\ queue' = Tail(queue)
  BY DEF Take
<1>2. /\ t \in Task /\ t \in Range(queue)
      /\ queue' \in Seq(Task) /\ Range(queue') = Range(queue) \ {t}
      /\ NoDuplicates'
  BY <1>1, QueueTail DEF Types, NoDuplicates
<1> HIDE DEF t
<1>3. PICK c \in Callers, m \in Messages : t = TaskOf(c, m)
  BY <1>2 DEF Task, TaskOf
<1>4. m \in Queued(c)
  BY <1>2, <1>3 DEF Queued
<1>5. ASSUME NEW d \in Callers
      PROVE  Queued(d)' = IF d = c THEN Queued(c) \ {m} ELSE Queued(d)
  <2>1. \A n \in Messages : TaskOf(d, n) = t <=> d = c /\ n = m
    BY <1>3 DEF TaskOf
  <2>2. QED
    BY <1>2, <2>1 DEF Queued
<1>6. /\ worker'[w] \in Running /\ worker'[w].task = TaskOf(c, m)
      /\ worker'[w].at = "start" /\ ~worker'[w].error
  BY <1>1, <1>2, <1>3 DEF Types, Running
<1>7. QED
  BY <1>2, <1>4, <1>5, <1>6

(* So Take keeps the invariant. *)
LEMMA TakeInv ==
    ASSUME IInv, NEW w \in Workers, Take(w)
    PROVE  IInv'
<1> USE DEF IInv
<1>1. /\ worker[w] = None
      /\ worker' = [worker EXCEPT ![w] = worker'[w]]
      /\ \A v \in Workers : v # w => worker'[v] = worker[v]
      /\ UNCHANGED <<stage, pending, wg, errors, result>>
  BY DEF Take, Types
<1>2. PICK c \in Callers, m \in Messages :
        /\ queue' \in Seq(Task) /\ NoDuplicates'
        /\ m \in Queued(c)
        /\ \A d \in Callers :
            Queued(d)' = IF d = c THEN Queued(c) \ {m} ELSE Queued(d)
        /\ worker'[w] \in Running /\ worker'[w].task = TaskOf(c, m)
        /\ worker'[w].at = "start" /\ ~worker'[w].error
  BY TakeMoves
<1>3. worker'[w] # None
  BY <1>2, NoneAssumption
<1>4. Types'
  BY <1>1, <1>2, Zenon DEF Types
<1>5. \A d \in Callers : /\ Held(d)' = IF d = c THEN Held(c) \cup {m} ELSE Held(d)
                         /\ Counted(d)' = Counted(d)
  <2> TAKE d \in Callers
  <2>1. \A n \in Messages : TaskOf(d, n) = TaskOf(c, m) <=> d = c /\ n = m
    BY DEF TaskOf
  <2>2. Held(d)' = IF d = c THEN Held(c) \cup {m} ELSE Held(d)
    BY <1>1, <1>2, <1>3, <2>1 DEF Held
  <2>3. QED
    BY <1>1, <2>2 DEF Counted
<1>6. Apart'
  BY <1>1, <1>2, <1>5 DEF Apart
<1>7. OneWorker'
  <2>1. \A v \in Workers : worker[v] # None => worker[v].task # TaskOf(c, m)
    BY <1>2 DEF Apart, Held
  <2>2. QED
    BY <1>1, <1>2, <2>1 DEF OneWorker
<1>8. \A d \in Callers : Outstanding(d)' = Outstanding(d)
  BY <1>2, <1>5 DEF Outstanding
<1>9. CountInv' /\ IdleInv'
  BY <1>1, <1>8, Moved
<1>10. Ahead' /\ ErrorInv'
  BY <1>1, <1>2 DEF Ahead, ErrorInv
<1>11. QED
  BY <1>2, <1>4, <1>6, <1>7, <1>9, <1>10

(* Entering a stage counts the messages of its kind. *)
LEMMA StageCounts ==
    ASSUME Types, NEW c \in Callers, NEW n \in 1..4, NEW messages \in SUBSET Messages,
           NEW S \in SUBSET Messages, S \cap messages = {},
           wg[c] = Cardinality(S), EnterStage(c, n, messages)
    PROVE  wg'[c] = Cardinality((messages \cap Kind(n)) \cup S)
<1>1. /\ IsFiniteSet(S) /\ IsFiniteSet(messages \cap Kind(n))
      /\ (messages \cap Kind(n)) \cap S = {}
  BY FS_Subset, MessagesAssumption
<1>2. Cardinality(S) \in Nat /\ Cardinality(messages \cap Kind(n)) \in Nat
  BY <1>1, FS_CardinalityType
<1>3. Cardinality((messages \cap Kind(n)) \cup S)
        = Cardinality(messages \cap Kind(n)) + Cardinality(S)
  <2>1. Cardinality((messages \cap Kind(n)) \cup S)
          = Cardinality(messages \cap Kind(n)) + Cardinality(S)
              - Cardinality((messages \cap Kind(n)) \cap S)
    BY <1>1, FS_Union
  <2>2. Cardinality((messages \cap Kind(n)) \cap S) = 0
    BY <1>1, FS_EmptySet
  <2>3. QED
    BY <1>2, <2>1, <2>2
<1>4. wg'[c] = wg[c] + Cardinality(messages \cap Kind(n))
  BY DEF EnterStage, Types
<1>5. QED
  BY <1>2, <1>3, <1>4

(* Entering a stage changes nothing of the other callers. *)
LEMMA StageTypes ==
    ASSUME Types, NEW c \in Callers, NEW n \in 1..5, NEW messages \in SUBSET Messages,
           EnterStage(c, n, messages)
    PROVE  /\ stage' \in [Callers -> 0..5] /\ stage'[c] = n
           /\ wg' \in [Callers -> Int]
           /\ \A d \in Callers : d # c => stage'[d] = stage[d] /\ wg'[d] = wg[d]
<1>1. IsFiniteSet(messages \cap Kind(n))
  BY FS_Subset, MessagesAssumption
<1>2. Cardinality(messages \cap Kind(n)) \in Nat
  BY <1>1, FS_CardinalityType
<1>3. QED
  BY <1>2 DEF EnterStage, Types

(* Emit starts with nothing outstanding and counts the first kind. *)
LEMMA EmitInv ==
    ASSUME IInv, NEW c \in Callers, NEW messages \in MayEmit(c), Emit(c, messages)
    PROVE  IInv'
<1> DEFINE new == ToEmit(messages)
<1> USE DEF IInv
<1>1. new \subseteq Messages
  BY DEF MayEmit, ToEmit, Messages
<1>2. /\ stage[c] = 0 /\ EnterStage(c, 1, new)
      /\ pending' = [pending EXCEPT ![c] = new]
      /\ errors' = [errors EXCEPT ![c] = FALSE]
      /\ result' = [result EXCEPT ![c] = "none"]
      /\ UNCHANGED <<queue, worker>>
  BY DEF Emit
<1> HIDE DEF new
<1>3. /\ stage' \in [Callers -> 0..5] /\ stage'[c] = 1
      /\ wg' \in [Callers -> Int]
      /\ \A d \in Callers : d # c => stage'[d] = stage[d] /\ wg'[d] = wg[d]
  BY <1>1, <1>2, StageTypes
<1>4. Types'
  BY <1>1, <1>2, <1>3, Zenon DEF Types
<1>5. \A d \in Callers : pending'[d] = IF d = c THEN new ELSE pending[d]
  BY <1>2 DEF Types
<1>6. \A d \in Callers : Queued(d)' = Queued(d) /\ Held(d)' = Held(d)
  BY <1>2 DEF Queued, Held
<1>7. Outstanding(c) = {} /\ Queued(c) = {} /\ Held(c) = {}
  BY <1>2 DEF IdleInv, Outstanding
<1>8. Outstanding(c)' = new \cap Kind(1)
  BY <1>3, <1>5, <1>6, <1>7 DEF Outstanding, Counted
<1>9. \A d \in Callers : d # c => Outstanding(d)' = Outstanding(d)
  BY <1>3, <1>5, <1>6 DEF Outstanding, Counted
<1>10. CountInv'
  <2>1. wg'[c] = Cardinality((new \cap Kind(1)) \cup Outstanding(c))
    BY <1>1, <1>2, <1>7, StageCounts DEF CountInv
  <2>2. QED
    BY <1>3, <1>7, <1>8, <1>9, <2>1 DEF CountInv
<1>11. IdleInv'
  BY <1>3, <1>9 DEF IdleInv
<1>12. Apart'
  BY <1>5, <1>6, <1>7 DEF Apart
<1>13. Ahead'
  BY <1>1, <1>3, <1>5, Kinds DEF Ahead
<1>14. ErrorInv'
  <2> SUFFICES ASSUME NEW w \in Workers, worker[w] # None
               PROVE  worker[w].task.caller # c
    BY <1>2 DEF ErrorInv, Types
  <2>1. QED
    BY <1>7, WorkerTask DEF Held
<1>15. NoDuplicates' /\ OneWorker'
  BY <1>2 DEF NoDuplicates, OneWorker
<1>16. QED
  BY <1>4, <1>10, <1>11, <1>12, <1>13, <1>14, <1>15

(* The next stage counts the next kind; after the last, none is left. *)
LEMMA NextStageInv ==
    ASSUME IInv, NEW c \in Callers, NextStage(c)
    PROVE  IInv'
<1> DEFINE n == stage[c] + 1
<1> USE DEF IInv
<1>1. /\ stage[c] \in 1..4 /\ pending[c] \cap Kind(stage[c]) = {}
      /\ EnterStage(c, n, pending[c])
      /\ UNCHANGED <<pending, errors, result, queue, worker>>
  BY DEF NextStage
<1>2. n \in 1..5 /\ pending[c] \in SUBSET Messages
  BY <1>1 DEF Types
<1>3. /\ stage' \in [Callers -> 0..5] /\ stage'[c] = n
      /\ wg' \in [Callers -> Int]
      /\ \A d \in Callers : d # c => stage'[d] = stage[d] /\ wg'[d] = wg[d]
  BY <1>1, <1>2, StageTypes
<1>4. Types'
  BY <1>1, <1>3 DEF Types
<1>5. \A d \in Callers : Queued(d)' = Queued(d) /\ Held(d)' = Held(d)
  BY <1>1 DEF Queued, Held
<1>6. \A d \in Callers : d # c => Outstanding(d)' = Outstanding(d)
  BY <1>1, <1>3, <1>5 DEF Outstanding, Counted
<1>7. Counted(c) = {} /\ Outstanding(c) = Queued(c) \cup Held(c)
  BY <1>1 DEF Outstanding, Counted
<1>8. \A m \in pending[c] : \E k \in n..4 : m \in Kind(k)
  <2> TAKE m \in pending[c]
  <2>1. PICK k \in stage[c]..4 : m \in Kind(k)
    BY DEF Ahead
  <2>2. k # stage[c]
    BY <1>1, <2>1
  <2>3. k \in n..4
    BY <1>1, <2>1, <2>2
  <2>4. QED
    BY <2>1, <2>3
<1>9. Ahead'
  <2>1. \A m \in pending[c] : n \in 1..4
    BY <1>1, <1>8
  <2>2. QED
    BY <1>1, <1>3, <1>8, <2>1 DEF Ahead
<1>10. CountInv'
  <2>1. CASE n \in 1..4
    <3>1. Outstanding(c)' = (pending[c] \cap Kind(n)) \cup Outstanding(c)
      BY <1>1, <1>3, <1>5, <1>7, <2>1 DEF Outstanding, Counted
    <3>2. Outstanding(c) \in SUBSET Messages /\ Outstanding(c) \cap pending[c] = {}
      BY <1>7, OutstandingFinite DEF Apart
    <3>3. wg'[c] = Cardinality((pending[c] \cap Kind(n)) \cup Outstanding(c))
      BY <1>1, <1>2, <2>1, <3>2, StageCounts DEF CountInv
    <3>4. QED
      BY <1>3, <1>6, <3>1, <3>3, Zenon DEF CountInv
  <2>2. CASE n = 5
    <3>1. Outstanding(c)' = Outstanding(c)
      BY <1>3, <1>5, <1>7, <2>2 DEF Outstanding, Counted
    <3>2. wg' = wg
      BY <1>1, <2>2 DEF EnterStage
    <3>3. QED
      BY <1>6, <3>1, <3>2 DEF CountInv
  <2>3. QED
    BY <1>2, <2>1, <2>2
<1>11. IdleInv'
  BY <1>2, <1>3, <1>6 DEF IdleInv
<1>12. Apart'
  BY <1>1, <1>5 DEF Apart
<1>13. NoDuplicates' /\ OneWorker' /\ ErrorInv'
  BY <1>1 DEF NoDuplicates, OneWorker, ErrorInv
<1>14. QED
  BY <1>4, <1>9, <1>10, <1>11, <1>12, <1>13

(* Emit returns when nothing is outstanding. *)
LEMMA ReturnInv ==
    ASSUME IInv, NEW c \in Callers, Return(c)
    PROVE  IInv' /\ Outstanding(c) = {} /\ pending[c] = {}
<1> USE DEF IInv
<1>1. /\ stage[c] = 5 /\ wg[c] = 0
      /\ stage' = [stage EXCEPT ![c] = 0]
      /\ result' = [result EXCEPT ![c] = IF errors[c] THEN "error" ELSE "ok"]
      /\ UNCHANGED <<pending, wg, errors, queue, worker>>
  BY DEF Return
<1>2. Outstanding(c) = {}
  BY <1>1, OutstandingFinite, FS_EmptySet DEF CountInv
<1>3. pending[c] = {}
  BY <1>1 DEF Ahead
<1>4. Types'
  BY <1>1 DEF Types
<1>5. stage'[c] = 0 /\ \A d \in Callers : d # c => stage'[d] = stage[d]
  BY <1>1 DEF Types
<1>6. \A d \in Callers : Queued(d)' = Queued(d) /\ Held(d)' = Held(d)
  BY <1>1 DEF Queued, Held
<1>7. \A d \in Callers : Outstanding(d)' = Outstanding(d)
  BY <1>1, <1>3, <1>5, <1>6 DEF Outstanding, Counted
<1>8. CountInv' /\ IdleInv'
  BY <1>1, <1>2, <1>5, <1>7 DEF CountInv, IdleInv
<1>9. Apart' /\ Ahead'
  BY <1>1, <1>3, <1>5, <1>6 DEF Apart, Ahead
<1>10. NoDuplicates' /\ OneWorker' /\ ErrorInv'
  BY <1>1 DEF NoDuplicates, OneWorker, ErrorInv
<1>11. QED
  BY <1>2, <1>3, <1>4, <1>8, <1>9, <1>10

(* Publish and RecordError leave a task where it is. *)
LEMMA StaysInv ==
    ASSUME IInv, NEW w \in Workers, worker[w] # None, NEW r \in Running,
           r.task = worker[w].task, worker' = [worker EXCEPT ![w] = r],
           errors' \in [Callers -> BOOLEAN], ErrorInv',
           UNCHANGED <<stage, pending, wg, result, queue>>
    PROVE  IInv'
<1> USE DEF IInv
<1>1. /\ worker'[w] = r /\ r # None
      /\ \A v \in Workers : v # w => worker'[v] = worker[v]
  BY NoneAssumption DEF Types
<1>2. Types'
  BY DEF Types
<1>3. \A v \in Workers : /\ worker'[v] # None <=> worker[v] # None
                         /\ worker[v] # None => worker'[v].task = worker[v].task
  BY <1>1
<1>4. \A d \in Callers : /\ Queued(d)' = Queued(d) /\ Counted(d)' = Counted(d)
                         /\ Held(d)' = Held(d)
  BY <1>3 DEF Queued, Counted, Held
<1>5. OneWorker'
  BY <1>3 DEF OneWorker
<1>6. Apart' /\ Ahead' /\ NoDuplicates'
  BY <1>4 DEF Apart, Ahead, NoDuplicates
<1>7. \A d \in Callers : Outstanding(d)' = Outstanding(d)
  BY <1>4 DEF Outstanding
<1>8. QED
  BY <1>2, <1>5, <1>6, <1>7, Moved

(* A publication that fails or succeeds. *)
LEMMA PublishInv ==
    ASSUME IInv, NEW w \in Workers, Publish(w)
    PROVE  IInv'
<1>1. PICK error \in BOOLEAN :
         worker' = [worker EXCEPT ![w].at = "published", ![w].error = error]
  BY Zenon DEF Publish
<1>2. /\ worker[w] # None /\ worker[w] \in Running
      /\ UNCHANGED <<stage, pending, wg, errors, result, queue>>
  BY WorkerTask DEF Publish, IInv
<1> DEFINE r == [worker[w] EXCEPT !.at = "published", !.error = error]
<1>3. r \in Running /\ r.task = worker[w].task /\ r.at = "published"
  BY <1>2, Zenon DEF Running
<1>4. worker' = [worker EXCEPT ![w] = r]
  BY <1>1, <1>2, Zenon DEF IInv, Types
<1> HIDE DEF r
<1>5. ErrorInv' /\ errors' \in [Callers -> BOOLEAN]
  BY <1>2, <1>3, <1>4 DEF IInv, Types, ErrorInv
<1>6. QED
  BY <1>2, <1>3, <1>4, <1>5, StaysInv, Zenon

(* The task's error reaches the channel. *)
LEMMA RecordErrorInv ==
    ASSUME IInv, NEW w \in Workers, RecordError(w)
    PROVE  IInv'
<1> DEFINE r == [worker[w] EXCEPT !.at = "recorded"]
           c == worker[w].task.caller
<1>1. /\ worker[w] # None /\ worker[w] \in Running /\ c \in Callers
      /\ worker' = [worker EXCEPT ![w] = r]
      /\ errors' = [errors EXCEPT ![c] = @ \/ worker[w].error]
      /\ UNCHANGED <<stage, pending, wg, result, queue>>
  BY WorkerTask DEF RecordError, IInv, Types
<1>2. /\ r \in Running /\ r.task = worker[w].task /\ r.at = "recorded"
      /\ r.error = worker[w].error /\ r.error \in BOOLEAN
  BY <1>1 DEF Running
<1>3. /\ errors' \in [Callers -> BOOLEAN]
      /\ \A d \in Callers : errors[d] => errors'[d]
      /\ worker[w].error => errors'[c]
  BY <1>1, <1>2 DEF IInv, Types
<1>4. ErrorInv'
  <2> SUFFICES ASSUME NEW v \in Workers, worker'[v] # None
               PROVE  /\ worker'[v].at = "start" => ~worker'[v].error
                      /\ worker'[v].at = "recorded" /\ worker'[v].error
                            => errors'[worker'[v].task.caller]
    BY DEF ErrorInv
  <2>1. CASE v = w
    BY <1>1, <1>2, <1>3, <2>1 DEF IInv, Types
  <2>2. CASE v # w
    <3>1. worker'[v] = worker[v]
      BY <1>1, <2>2 DEF IInv, Types
    <3>2. worker[v].task.caller \in Callers
      BY <3>1, WorkerTask DEF IInv
    <3>3. QED
      BY <1>3, <3>1, <3>2 DEF IInv, ErrorInv
  <2>3. QED
    BY <2>1, <2>2
<1>5. QED
  BY <1>1, <1>2, <1>3, <1>4, StaysInv, Zenon

(* wg.Done takes back what was counted for the task. *)
LEMMA DoneInv ==
    ASSUME IInv, NEW w \in Workers, Done(w)
    PROVE  IInv'
<1> USE DEF IInv
<1>0. PICK c \in Callers, m \in Messages : worker[w].task = TaskOf(c, m)
  BY WorkerTask DEF Done
<1>1. /\ worker[w] # None
      /\ worker[w].task = TaskOf(c, m) /\ worker[w].task.caller = c
      /\ wg' = [wg EXCEPT ![c] = @ - 1]
      /\ worker' = [worker EXCEPT ![w] = None]
      /\ UNCHANGED <<stage, pending, errors, result, queue>>
  BY <1>0 DEF Done, TaskOf
<1>2. Types'
  BY <1>1 DEF Types
<1>3. worker'[w] = None /\ \A v \in Workers : v # w => worker'[v] = worker[v]
  BY <1>1 DEF Types
<1>4. OneWorker' /\ ErrorInv'
  BY <1>1, <1>3 DEF OneWorker, ErrorInv
<1>5. \A d \in Callers : /\ Queued(d)' = Queued(d) /\ Counted(d)' = Counted(d)
                         /\ Held(d)' = IF d = c THEN Held(c) \ {m} ELSE Held(d)
  <2> TAKE d \in Callers
  <2>1. \A n \in Messages : TaskOf(d, n) = TaskOf(c, m) <=> d = c /\ n = m
    BY DEF TaskOf
  <2>2. \A v \in Workers : worker[v] # None /\ worker[v].task = TaskOf(c, m) => v = w
    BY <1>1 DEF OneWorker
  <2>3. Held(d)' = IF d = c THEN Held(c) \ {m} ELSE Held(d)
    BY <1>1, <1>3, <2>1, <2>2 DEF Held
  <2>4. QED
    BY <1>1, <2>3 DEF Queued, Counted
<1>6. m \in Held(c) /\ m \notin Queued(c) /\ m \notin Counted(c)
  BY <1>1 DEF Held, Apart, Counted
<1>7. Outstanding(c)' = Outstanding(c) \ {m} /\ m \in Outstanding(c)
  BY <1>1, <1>5, <1>6 DEF Outstanding
<1>8. \A d \in Callers : d # c => Outstanding(d)' = Outstanding(d)
  BY <1>5 DEF Outstanding
<1>9. CountInv'
  <2>1. Cardinality(Outstanding(c) \ {m}) = Cardinality(Outstanding(c)) - 1
    <3>1. IsFiniteSet(Outstanding(c))
      BY OutstandingFinite
    <3>2. QED
      BY <1>7, <3>1, FS_RemoveElement, Zenon
  <2>2. wg'[c] = wg[c] - 1 /\ \A d \in Callers : d # c => wg'[d] = wg[d]
    BY <1>1 DEF Types
  <2>3. QED
    BY <1>1, <1>7, <1>8, <2>1, <2>2 DEF CountInv
<1>10. IdleInv'
  BY <1>1, <1>7, <1>8 DEF IdleInv
<1>11. Apart'
  BY <1>1, <1>5 DEF Apart
<1>12. Ahead'
  BY <1>1, <1>5 DEF Ahead
<1>13. NoDuplicates'
  BY <1>1 DEF NoDuplicates
<1>14. QED
  BY <1>2, <1>4, <1>9, <1>10, <1>11, <1>12, <1>13

(* Nothing is outstanding at first. *)
LEMMA InitInv == Init => IInv
<1> SUFFICES ASSUME Init PROVE IInv
  OBVIOUS
<1>1. Types
  BY DEF Init, Types
<1>2. \A c \in Callers : pending[c] = {} /\ Queued(c) = {} /\ Held(c) = {} /\ Outstanding(c) = {}
  BY DEF Init, Queued, Held, Counted, Outstanding, Range
<1>3. CountInv /\ IdleInv
  BY <1>2, FS_EmptySet, Zenon DEF Init, CountInv, IdleInv
<1>4. NoDuplicates /\ OneWorker /\ Apart /\ Ahead /\ ErrorInv
  BY <1>2 DEF Init, NoDuplicates, OneWorker, Apart, Ahead, ErrorInv
<1>5. QED
  BY <1>1, <1>3, <1>4 DEF IInv

(* Every step keeps the invariant. *)
LEMMA NextInv == IInv /\ [Next]_vars => IInv'
<1> SUFFICES ASSUME IInv, [Next]_vars PROVE IInv'
  OBVIOUS
<1>1. ASSUME NEW c \in Callers, NEW messages \in MayEmit(c), Emit(c, messages)
      PROVE  IInv'
  BY <1>1, EmitInv
<1>2. ASSUME NEW c \in Callers, Proceed(c)
      PROVE  IInv'
  BY <1>2, SubmitInv, NextStageInv, ReturnInv DEF Proceed
<1>3. ASSUME NEW w \in Workers, Work(w)
      PROVE  IInv'
  BY <1>3, TakeInv, PublishInv, RecordErrorInv, DoneInv DEF Work
<1>4. CASE UNCHANGED vars
  <2>1. \A c \in Callers : /\ Queued(c)' = Queued(c) /\ Held(c)' = Held(c)
                           /\ Outstanding(c)' = Outstanding(c)
    BY <1>4 DEF vars, Outstanding, Counted, Queued, Held
  <2>2. Types' /\ OneWorker' /\ ErrorInv'
    BY <1>4 DEF vars, IInv, Types, OneWorker, ErrorInv
  <2>3. NoDuplicates' /\ Apart' /\ Ahead'
    BY <1>4, <2>1 DEF vars, IInv, NoDuplicates, Apart, Ahead
  <2>4. CountInv' /\ IdleInv'
    BY <1>4, <2>1 DEF vars, IInv, CountInv, IdleInv
  <2>5. QED
    BY <2>2, <2>3, <2>4 DEF IInv
<1>5. QED
  BY <1>1, <1>2, <1>3, <1>4 DEF Next

(* The WaitGroup of a caller is the number of its tasks that are counted   *)
(* and not done, whatever callers and workers do beside each other.        *)
THEOREM Invariance == Spec => []IInv
  BY InitInv, NextInv, PTL DEF Spec

(* The WaitGroup never goes below zero, where Done panics, nor above the   *)
(* number of messages, and the other variables keep their types.           *)
THEOREM TypeCorrect == Spec => []TypeOK
<1>1. IInv => TypeOK
  <2> SUFFICES ASSUME IInv PROVE TypeOK
    OBVIOUS
  <2>1. \A c \in Callers : wg[c] \in 0..Cardinality(Messages)
    BY OutstandingFinite DEF IInv, CountInv
  <2>2. QED
    BY <2>1 DEF IInv, Types, TypeOK
<1>2. QED
  BY <1>1, Invariance, PTL

--------------------------------------------------------------------------------
(* The emitter implements Emission. *)

(* Messages of c that a worker has and has not published. *)
Started(c) ==
    {m \in Messages : \E w \in Workers :
        worker[w] # None /\ worker[w].at = "start" /\ worker[w].task = TaskOf(c, m)}

(* The abstract todo, by the places a message may be in. *)
LEMMA Places ==
    Types => \A c \in Callers : Unpublished(c) = pending[c] \cup Queued(c) \cup Started(c)
<1> SUFFICES ASSUME Types, NEW c \in Callers
             PROVE  Unpublished(c) = pending[c] \cup Queued(c) \cup Started(c)
  OBVIOUS
<1>1. {t.message : t \in {task \in Range(queue) : task.caller = c}} = Queued(c)
  <2>1. Range(queue) \subseteq Task
    BY DEF Types, Range
  <2>2. \A t \in Task : t.message \in Messages /\ t = TaskOf(t.caller, t.message)
    BY DEF Task, TaskOf
  <2>3. QED
    BY <2>1, <2>2 DEF Queued, TaskOf
<1>2. {worker[w].task.message : w \in {v \in Workers :
            worker[v] # None /\ worker[v].at = "start" /\ worker[v].task.caller = c}} = Started(c)
  BY WorkerTask DEF Started, TaskOf
<1>3. QED
  BY <1>1, <1>2 DEF Unpublished

(* The same after a step. *)
LEMMA PlacesNext ==
    (Types => \A c \in Callers : Unpublished(c) = pending[c] \cup Queued(c) \cup Started(c))'
  BY Places, PTL

(* A step that leaves the abstract variables of every caller alone. *)
LEMMA Stutters ==
    ASSUME \A d \in Callers : /\ Unpublished(d)' = Unpublished(d)
                              /\ Failed(d)' <=> Failed(d)
                              /\ stage'[d] = 0 <=> stage[d] = 0,
           result' = result
    PROVE  UNCHANGED E!vars
<1>1. {c \in Callers : stage'[c] # 0} = {c \in Callers : stage[c] # 0}
  OBVIOUS
<1>2. [c \in Callers |-> Unpublished(c)'] = [c \in Callers |-> Unpublished(c)]
  OBVIOUS
<1>3. [c \in Callers |-> Failed(c)'] = [c \in Callers |-> Failed(c)]
  BY DEF Failed
<1>4. QED
  BY <1>1, <1>2, <1>3 DEF E!vars

(* Emit is a call. *)
LEMMA EmitRefines ==
    ASSUME IInv, Types', NEW c \in Callers, NEW messages \in MayEmit(c), Emit(c, messages)
    PROVE  E!Next
<1> DEFINE new == ToEmit(messages)
<1>1. new \in SUBSET Messages
  BY DEF MayEmit, ToEmit, Messages
<1>2. /\ stage[c] = 0 /\ stage' = [stage EXCEPT ![c] = 1]
      /\ pending' = [pending EXCEPT ![c] = new]
      /\ errors' = [errors EXCEPT ![c] = FALSE]
      /\ result' = [result EXCEPT ![c] = "none"]
      /\ UNCHANGED <<queue, worker>>
  BY DEF Emit, EnterStage
<1> HIDE DEF new
<1>3. Queued(c) = {} /\ Held(c) = {} /\ Started(c) = {}
  BY <1>2 DEF IInv, IdleInv, Outstanding, Held, Started
<1>4. \A d \in Callers : Queued(d)' = Queued(d) /\ Started(d)' = Started(d)
  BY <1>2 DEF Queued, Started
<1>5. \A d \in Callers : pending'[d] = IF d = c THEN new ELSE pending[d]
  BY <1>2 DEF IInv, Types
<1>6. \A d \in Callers : Unpublished(d)' = IF d = c THEN new ELSE Unpublished(d)
  <2> SUFFICES ASSUME NEW d \in Callers
               PROVE  Unpublished(d)' = IF d = c THEN new ELSE Unpublished(d)
    OBVIOUS
  <2>1. /\ Unpublished(d) = pending[d] \cup Queued(d) \cup Started(d)
        /\ Unpublished(d)' = pending'[d] \cup Queued(d)' \cup Started(d)'
    BY Places, PlacesNext DEF IInv
  <2>2. CASE d = c
    BY <2>1, <2>2, <1>3, <1>4, <1>5
  <2>3. CASE d # c
    BY <2>1, <2>3, <1>3, <1>4, <1>5
  <2>4. QED
    BY <2>2, <2>3
<1>7. \A w \in Workers : worker[w] # None => worker[w].task.caller # c
  BY <1>3, WorkerTask DEF Held, IInv
<1>8. \A d \in Callers : Failed(d)' <=> IF d = c THEN FALSE ELSE Failed(d)
  BY <1>2, <1>7 DEF Failed, IInv, Types
<1>9. {d \in Callers : stage'[d] # 0} = {d \in Callers : stage[d] # 0} \cup {c}
  BY <1>2 DEF IInv, Types
<1>10. [d \in Callers |-> Unpublished(d)'] = [[d \in Callers |-> Unpublished(d)] EXCEPT ![c] = new]
  BY <1>6, Zenon
<1>11. [d \in Callers |-> Failed(d)'] = [[d \in Callers |-> Failed(d)] EXCEPT ![c] = FALSE]
  <2>1. \A d \in Callers : Failed(d)' = IF d = c THEN FALSE ELSE Failed(d)
    BY <1>8, Zenon DEF Failed
  <2>2. QED
    BY <2>1, Zenon
<1>12. E!Call(c, new)
  BY <1>2, <1>9, <1>10, <1>11 DEF E!Call
<1>13. QED
  BY <1>1, <1>12 DEF E!Next

(* Submit moves a message from pending to the pool's queue: it is as       *)
(* unpublished as before.                                                  *)
LEMMA SubmitStutters ==
    ASSUME IInv, Types', NEW c \in Callers, NEW m \in Messages, Submit(c, m)
    PROVE  UNCHANGED E!vars
<1>1. UNCHANGED <<stage, errors, result, worker>>
  BY DEF Submit
<1>2. \A d \in Callers : Started(d)' = Started(d)
  BY <1>1 DEF Started
<1>3. /\ m \in pending[c]
      /\ \A d \in Callers :
           /\ pending'[d] = IF d = c THEN pending[c] \ {m} ELSE pending[d]
           /\ Queued(d)' = IF d = c THEN Queued(c) \cup {m} ELSE Queued(d)
  BY SubmitMoves
<1>4. \A d \in Callers : Unpublished(d)' = Unpublished(d)
  <2> SUFFICES ASSUME NEW d \in Callers
               PROVE  Unpublished(d)' = Unpublished(d)
    OBVIOUS
  <2>1. /\ Unpublished(d) = pending[d] \cup Queued(d) \cup Started(d)
        /\ Unpublished(d)' = pending'[d] \cup Queued(d)' \cup Started(d)'
    BY Places, PlacesNext DEF IInv
  <2>2. CASE d = c
    BY <2>1, <2>2, <1>2, <1>3
  <2>3. CASE d # c
    BY <2>1, <2>3, <1>2, <1>3
  <2>4. QED
    BY <2>2, <2>3
<1>5. QED
  BY <1>1, <1>4, Stutters DEF Failed

(* The next of the four loops of Emit is no abstract step. *)
LEMMA NextStageStutters ==
    ASSUME IInv, Types', NEW c \in Callers, NextStage(c)
    PROVE  UNCHANGED E!vars
<1>1. /\ stage[c] \in 1..4 /\ stage' = [stage EXCEPT ![c] = stage[c] + 1]
      /\ UNCHANGED <<pending, errors, result, queue, worker>>
  BY DEF NextStage, EnterStage
<1>2. \A d \in Callers : Unpublished(d)' = Unpublished(d) /\ (Failed(d)' <=> Failed(d))
  BY <1>1 DEF Unpublished, Failed
<1>3. \A d \in Callers : stage'[d] = 0 <=> stage[d] = 0
  BY <1>1 DEF IInv, Types
<1>4. QED
  BY <1>1, <1>2, <1>3, Stutters

(* A worker that takes a task has not published it yet. *)
LEMMA TakeStutters ==
    ASSUME IInv, Types', NEW w \in Workers, Take(w)
    PROVE  UNCHANGED E!vars
<1>1. /\ worker[w] = None
      /\ \A v \in Workers : v # w => worker'[v] = worker[v]
      /\ UNCHANGED <<stage, pending, errors, result>>
  BY DEF Take, IInv, Types
<1>2. PICK c \in Callers, m \in Messages :
        /\ m \in Queued(c)
        /\ \A d \in Callers :
            Queued(d)' = IF d = c THEN Queued(c) \ {m} ELSE Queued(d)
        /\ worker'[w] \in Running /\ worker'[w].task = TaskOf(c, m)
        /\ worker'[w].at = "start" /\ ~worker'[w].error
  BY TakeMoves
<1>3. worker'[w] # None
  BY <1>2, NoneAssumption
<1>4. ASSUME NEW d \in Callers
      PROVE  Started(d)' = IF d = c THEN Started(c) \cup {m} ELSE Started(d)
  <2>1. \A n \in Messages : TaskOf(d, n) = TaskOf(c, m) <=> d = c /\ n = m
    BY DEF TaskOf
  <2>2. QED
    BY <1>1, <1>2, <1>3, <2>1 DEF Started
<1>5. \A d \in Callers : Unpublished(d)' = Unpublished(d)
  <2> SUFFICES ASSUME NEW d \in Callers
               PROVE  Unpublished(d)' = Unpublished(d)
    OBVIOUS
  <2>1. /\ Unpublished(d) = pending[d] \cup Queued(d) \cup Started(d)
        /\ Unpublished(d)' = pending'[d] \cup Queued(d)' \cup Started(d)'
    BY Places, PlacesNext DEF IInv
  <2>2. CASE d = c
    <3>1. /\ pending'[c] = pending[c] /\ m \in Queued(c)
          /\ Queued(c)' = Queued(c) \ {m} /\ Started(c)' = Started(c) \cup {m}
      BY <1>1, <1>2, <1>4
    <3>2. QED
      BY <2>1, <2>2, <3>1
  <2>3. CASE d # c
    <3>1. pending'[d] = pending[d] /\ Queued(d)' = Queued(d) /\ Started(d)' = Started(d)
      BY <2>3, <1>1, <1>2, <1>4
    <3>2. QED
      BY <2>1, <3>1
  <2>4. QED
    BY <2>2, <2>3
<1>6. \A d \in Callers : Failed(d)' <=> Failed(d)
  BY <1>1, <1>2 DEF Failed
<1>7. QED
  BY <1>1, <1>5, <1>6, Stutters

(* Publish is the abstract publication, with or without an error. *)
LEMMA PublishRefines ==
    ASSUME IInv, Types', NEW w \in Workers, Publish(w)
    PROVE  E!Next
<1>1. PICK error \in BOOLEAN :
         worker' = [worker EXCEPT ![w].at = "published", ![w].error = error]
  BY Zenon DEF Publish
<1>2. /\ worker[w] # None /\ worker[w].at = "start"
      /\ UNCHANGED <<stage, pending, errors, result, queue>>
  BY DEF Publish
<1>3. PICK c \in Callers, m \in Messages : worker[w].task = TaskOf(c, m)
  BY <1>2, WorkerTask DEF IInv
<1>4. worker[w] \in Running /\ worker[w].task.caller = c /\ ~worker[w].error
  <2>1. worker[w] \in Running
    BY <1>2, WorkerTask DEF IInv
  <2>2. worker[w].task.caller = c
    <3>1. TaskOf(c, m).caller = c
      BY DEF TaskOf
    <3>2. QED
      BY <1>3, <3>1
  <2>3. ~worker[w].error
    BY <1>2 DEF IInv, ErrorInv
  <2>4. QED
    BY <2>1, <2>2, <2>3
<1>5. /\ worker'[w] \in Running /\ worker'[w] # None
      /\ worker'[w].at = "published" /\ worker'[w].error = error
      /\ worker'[w].task = worker[w].task
      /\ \A v \in Workers : v # w => worker'[v] = worker[v]
  <2>1. /\ worker'[w] = [worker[w] EXCEPT !.at = "published", !.error = error]
        /\ \A v \in Workers : v # w => worker'[v] = worker[v]
    BY <1>1 DEF IInv, Types
  <2>2. \A r \in Running :
          /\ [r EXCEPT !.at = "published", !.error = error] \in Running
          /\ [r EXCEPT !.at = "published", !.error = error].at = "published"
          /\ [r EXCEPT !.at = "published", !.error = error].error = error
          /\ [r EXCEPT !.at = "published", !.error = error].task = r.task
    BY Zenon DEF Running
  <2>3. /\ worker'[w] \in Running
        /\ worker'[w].at = "published" /\ worker'[w].error = error
        /\ worker'[w].task = worker[w].task
    BY <1>4, <2>1, <2>2, Zenon
  <2>4. QED
    BY <2>1, <2>3, NoneAssumption
<1>6. ASSUME NEW d \in Callers
      PROVE  Started(d)' = IF d = c THEN Started(c) \ {m} ELSE Started(d)
  <2>1. \A n \in Messages : TaskOf(d, n) = TaskOf(c, m) <=> d = c /\ n = m
    BY DEF TaskOf
  <2>2. \A v \in Workers : worker[v] # None /\ worker[v].task = TaskOf(c, m) => v = w
    BY <1>2, <1>3 DEF IInv, OneWorker
  <2>3. ASSUME NEW n \in Messages
        PROVE  n \in Started(d)' <=> n \in Started(d) /\ ~(d = c /\ n = m)
    <3>1. n \in Started(d)' <=> \E v \in Workers : v # w /\ worker[v] # None
                                  /\ worker[v].at = "start" /\ worker[v].task = TaskOf(d, n)
      BY <1>5 DEF Started
    <3>2. n \in Started(d) <=> \E v \in Workers : worker[v] # None
                                  /\ worker[v].at = "start" /\ worker[v].task = TaskOf(d, n)
      BY DEF Started
    <3>3. QED
      BY <1>3, <2>1, <2>2, <3>1, <3>2
  <2>4. Started(d) \subseteq Messages /\ Started(d)' \subseteq Messages
    BY DEF Started
  <2>5. QED
    BY <2>3, <2>4
<1>7. m \in Started(c) /\ m \notin Queued(c) /\ m \notin pending[c]
  BY <1>2, <1>3 DEF Started, IInv, Apart, Held
<1>8. \A d \in Callers : Queued(d)' = Queued(d)
  BY <1>2 DEF Queued
<1>9. /\ m \in Unpublished(c)
      /\ \A d \in Callers :
           Unpublished(d)' = IF d = c THEN Unpublished(c) \ {m} ELSE Unpublished(d)
  <2>1. \A d \in Callers : /\ Unpublished(d) = pending[d] \cup Queued(d) \cup Started(d)
                           /\ Unpublished(d)' = pending'[d] \cup Queued(d)' \cup Started(d)'
    BY Places, PlacesNext DEF IInv
  <2>2. Unpublished(c)' = Unpublished(c) \ {m} /\ m \in Unpublished(c)
    BY <1>2, <1>6, <1>7, <1>8, <2>1
  <2>3. \A d \in Callers : d # c => Unpublished(d)' = Unpublished(d)
    BY <1>2, <1>6, <1>8, <2>1
  <2>4. QED
    BY <2>2, <2>3
<1>10. \A d \in Callers : Failed(d)' <=> IF d = c THEN Failed(c) \/ error ELSE Failed(d)
  BY <1>2, <1>4, <1>5 DEF Failed
<1>11. [d \in Callers |-> Unpublished(d)']
         = [[d \in Callers |-> Unpublished(d)] EXCEPT ![c] = @ \ {m}]
  BY <1>9, Zenon
<1>12. [d \in Callers |-> Failed(d)'] = [[d \in Callers |-> Failed(d)] EXCEPT ![c] = @ \/ error]
  <2>1. \A d \in Callers : Failed(d)' = IF d = c THEN Failed(c) \/ error ELSE Failed(d)
    BY <1>10, Zenon DEF Failed
  <2>2. QED
    BY <2>1, Zenon
<1>13. E!Publish(c, m, error)
  BY <1>2, <1>9, <1>11, <1>12 DEF E!Publish
<1>14. QED
  BY <1>13 DEF E!Next

(* An error recorded is an error the task had already. *)
LEMMA RecordErrorStutters ==
    ASSUME IInv, Types', NEW w \in Workers, RecordError(w)
    PROVE  UNCHANGED E!vars
<1> DEFINE c == worker[w].task.caller
<1>1. /\ worker[w] # None /\ worker[w].at = "published"
      /\ worker[w] \in Running /\ c \in Callers
      /\ worker' = [worker EXCEPT ![w].at = "recorded"]
      /\ errors' = [errors EXCEPT ![c] = @ \/ worker[w].error]
      /\ UNCHANGED <<stage, pending, result, queue>>
  BY WorkerTask DEF RecordError, IInv
<1>2. /\ worker'[w] \in Running /\ worker'[w] # None /\ worker'[w].at = "recorded"
      /\ worker'[w].task = worker[w].task /\ worker'[w].error = worker[w].error
      /\ \A v \in Workers : v # w => worker'[v] = worker[v]
  <2>1. /\ worker'[w] = [worker[w] EXCEPT !.at = "recorded"]
        /\ \A v \in Workers : v # w => worker'[v] = worker[v]
    BY <1>1 DEF IInv, Types
  <2>2. \A r \in Running :
          /\ [r EXCEPT !.at = "recorded"] \in Running
          /\ [r EXCEPT !.at = "recorded"].at = "recorded"
          /\ [r EXCEPT !.at = "recorded"].task = r.task
          /\ [r EXCEPT !.at = "recorded"].error = r.error
    BY DEF Running
  <2>3. QED
    BY <1>1, <2>1, <2>2, NoneAssumption, Zenon
<1>3. \A d \in Callers : Started(d)' = Started(d) /\ Queued(d)' = Queued(d)
  BY <1>1, <1>2 DEF Started, Queued
<1>4. \A d \in Callers : Unpublished(d)' = Unpublished(d)
  BY <1>1, <1>3, Places, PlacesNext, Zenon DEF IInv
<1>5. \A d \in Callers : errors'[d] <=> errors[d] \/ (d = c /\ worker[w].error)
  BY <1>1, Zenon DEF IInv, Types
<1>6. \A d \in Callers : Failed(d)' <=> Failed(d)
  BY <1>1, <1>2, <1>5 DEF Failed
<1>7. QED
  BY <1>1, <1>4, <1>6, Stutters

(* A finished task's error stays in the errors channel. *)
LEMMA DoneStutters ==
    ASSUME IInv, Types', NEW w \in Workers, Done(w)
    PROVE  UNCHANGED E!vars
<1>1. /\ worker[w] # None /\ worker[w].at = "recorded"
      /\ UNCHANGED <<stage, pending, errors, result, queue>>
  BY DEF Done
<1>2. worker'[w] = None /\ \A v \in Workers : v # w => worker'[v] = worker[v]
  BY DEF Done, IInv, Types
<1>3. \A d \in Callers : Started(d)' = Started(d) /\ Queued(d)' = Queued(d)
  BY <1>1, <1>2 DEF Started, Queued
<1>4. \A d \in Callers : Unpublished(d)' = Unpublished(d)
  BY <1>1, <1>3, Places, PlacesNext DEF IInv
<1>5. worker[w].error => errors[worker[w].task.caller]
  BY <1>1 DEF IInv, ErrorInv
<1>6. \A d \in Callers : Failed(d)' <=> Failed(d)
  BY <1>1, <1>2, <1>5 DEF Failed
<1>7. QED
  BY <1>1, <1>4, <1>6, Stutters

(* Emit returns when its messages are published, and what it returns is    *)
(* whether one of them failed.                                             *)
LEMMA ReturnRefines ==
    ASSUME IInv, Types', NEW c \in Callers, Return(c)
    PROVE  E!Next
<1>1. /\ stage[c] = 5 /\ stage' = [stage EXCEPT ![c] = 0]
      /\ result' = [result EXCEPT ![c] = IF errors[c] THEN "error" ELSE "ok"]
      /\ UNCHANGED <<pending, errors, queue, worker>>
  BY DEF Return
<1>2. Outstanding(c) = {} /\ pending[c] = {}
  BY ReturnInv
<1>3. Queued(c) = {} /\ Held(c) = {} /\ Started(c) = {}
  BY <1>2 DEF Outstanding, Held, Started
<1>4. Unpublished(c) = {}
  BY <1>2, <1>3, Places DEF IInv
<1>5. \A w \in Workers : worker[w] # None => worker[w].task.caller # c
  BY <1>3, WorkerTask DEF Held, IInv
<1>6. Failed(c) <=> errors[c]
  BY <1>5 DEF Failed
<1>7. \A d \in Callers : Unpublished(d)' = Unpublished(d) /\ (Failed(d)' <=> Failed(d))
  BY <1>1 DEF Unpublished, Failed
<1>8. {d \in Callers : stage'[d] # 0} = {d \in Callers : stage[d] # 0} \ {c}
  BY <1>1 DEF IInv, Types
<1>9. result' = [result EXCEPT ![c] = IF Failed(c) THEN "error" ELSE "ok"]
  BY <1>1, <1>6, Zenon
<1>10. [d \in Callers |-> Unpublished(d)'] = [d \in Callers |-> Unpublished(d)]
  BY <1>7
<1>11. [d \in Callers |-> Failed(d)'] = [d \in Callers |-> Failed(d)]
  BY <1>7 DEF Failed
<1>12. c \in {d \in Callers : stage[d] # 0}
  BY <1>1
<1>13. E!Return(c)
  BY <1>4, <1>8, <1>9, <1>10, <1>11, <1>12 DEF E!Return
<1>14. QED
  BY <1>13 DEF E!Next

(* Whatever the interleaving of callers and workers, the emitter           *)
(* implements Emission: a message is published once, Emit returns when its *)
(* own messages are published, and with an error exactly if one failed.    *)
THEOREM ImplementsEmission == Spec => EmissionSpec
<1>1. Init => E!Init
  <2> SUFFICES ASSUME Init PROVE E!Init
    OBVIOUS
  <2>1. {c \in Callers : stage[c] # 0} = {}
    BY DEF Init
  <2>2. \A c \in Callers : Unpublished(c) = {} /\ ~Failed(c)
    BY DEF Init, Unpublished, Failed, Range
  <2>3. [c \in Callers |-> Unpublished(c)] = [c \in Callers |-> {}]
    BY <2>2
  <2>4. [c \in Callers |-> Failed(c)] = [c \in Callers |-> FALSE]
    BY <2>2 DEF Failed
  <2>5. QED
    BY <2>1, <2>3, <2>4, Zenon DEF Init, E!Init
<1>2. IInv /\ IInv' /\ [Next]_vars => [E!Next]_E!vars
  <2> SUFFICES ASSUME IInv, Types', [Next]_vars PROVE [E!Next]_E!vars
    BY DEF IInv
  <2>1. ASSUME NEW c \in Callers, NEW messages \in MayEmit(c), Emit(c, messages)
        PROVE  E!Next
    BY <2>1, EmitRefines
  <2>2. ASSUME NEW c \in Callers, Proceed(c)
        PROVE  E!Next \/ UNCHANGED E!vars
    BY <2>2, SubmitStutters, NextStageStutters, ReturnRefines DEF Proceed
  <2>3. ASSUME NEW w \in Workers, Work(w)
        PROVE  E!Next \/ UNCHANGED E!vars
    BY <2>3, TakeStutters, PublishRefines, RecordErrorStutters, DoneStutters DEF Work
  <2>4. CASE UNCHANGED vars
    <3>1. \A d \in Callers : /\ Unpublished(d)' = Unpublished(d)
                             /\ Failed(d)' <=> Failed(d)
                             /\ stage'[d] = 0 <=> stage[d] = 0
      BY <2>4 DEF vars, Unpublished, Failed
    <3>2. QED
      BY <2>4, <3>1, Stutters DEF vars
  <2>5. QED
    BY <2>1, <2>2, <2>3, <2>4 DEF Next
<1>3. QED
  BY <1>1, <1>2, Invariance, PTL DEF Spec, EmissionSpec, E!Spec
================================================================================
