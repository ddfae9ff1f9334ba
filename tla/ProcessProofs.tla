----------------------------- MODULE ProcessProofs -----------------------------
(***************************************************************************)
(* Proofs about Scheduler for every set of intervals with a longest one,   *)
(* every jitter factor, zero included, and any number of greetings,        *)
(* restarts and messages, and, in the second part, about the ProcessGroup  *)
(* that schedulers are members of, in each of its four configurations.     *)
(***************************************************************************)
EXTENDS Scheduler, ProcessGroup, TLAPS

--------------------------------------------------------------------------------
(* The scheduler. *)

(* What the next emission is away, at most. *)
GapInv ==
    /\ stage = "run" => gap + left <= Longest
    /\ stage = "sleep" => gap + nap <= MaxGap
    /\ stage \in {"run", "sleep"} => interval > 0

(* Greetings are attempts, and while Run greets there is one left. *)
GreetInv ==
    /\ greetings <= attempts
    /\ stage \in {"greet", "wait"} => attempts < MaxGreetAttempts

(* The inductive invariant. *)
IInv == TypeOK /\ GapInv /\ GreetInv /\ NoRequestLost

(* Division is monotonic. *)
LEMMA Division ==
    ASSUME NEW i \in Nat, NEW j \in Nat, i <= j, NEW d \in Nat \ {0}
    PROVE  i \div d <= j \div d
  OBVIOUS

(* Addition is monotonic. *)
LEMMA Sums ==
    ASSUME NEW a \in Nat, NEW b \in Nat, NEW c \in Nat, NEW d \in Nat, a <= c, b <= d
    PROVE  a + b <= c + d
  OBVIOUS

(* Jitter grows with the interval. *)
LEMMA JitterGrows ==
    ASSUME NEW i \in Nat, NEW j \in Nat, i <= j
    PROVE  /\ JitterRange(i) \in Nat
           /\ JitterRange(i) <= JitterRange(j)
<1>1. i * JitterNumerator \in Nat /\ j * JitterNumerator \in Nat
  BY SchedulerAssumption
<1>2. i * JitterNumerator <= j * JitterNumerator
  BY SchedulerAssumption
<1>3. JitterDenominator \in Nat \ {0}
  BY SchedulerAssumption
<1>4. ASSUME NEW a \in Nat, NEW d \in Nat \ {0}
      PROVE  a \div d \in Nat
  OBVIOUS
<1>5. QED
  BY <1>1, <1>2, <1>3, <1>4, Division DEF JitterRange

(* There is a longest interval, and none has more jitter. *)
LEMMA Jitter ==
    /\ Longest \in Intervals /\ Longest \in Nat
    /\ MaxNap \in Nat /\ MaxGap = Longest + MaxNap
    /\ \A i \in Intervals :
        /\ i \in Nat /\ i <= Longest
        /\ JitterRange(i) \in Nat
        /\ JitterRange(i) # 0 => JitterRange(i) - 1 <= MaxNap
<1>1. Longest \in Intervals /\ \A j \in Intervals : j <= Longest
  BY SchedulerAssumption DEF Longest
<1>2. Intervals \subseteq Nat
  BY SchedulerAssumption
<1>3. JitterRange(Longest) \in Nat
  BY <1>1, <1>2, JitterGrows
<1>4. MaxNap \in Nat /\ MaxGap = Longest + MaxNap
  BY <1>3 DEF MaxNap, MaxGap
<1>5. ASSUME NEW i \in Intervals
      PROVE  /\ JitterRange(i) \in Nat
             /\ JitterRange(i) # 0 => JitterRange(i) - 1 <= MaxNap
  <2>1. JitterRange(i) \in Nat /\ JitterRange(i) <= JitterRange(Longest)
    BY <1>1, <1>2, JitterGrows
  <2>2. QED
    BY <1>3, <2>1 DEF MaxNap
<1>6. QED
  BY <1>1, <1>2, <1>4, <1>5

(* What a receive gets is an interval, and what it leaves are messages. *)
LEMMA Received ==
    ASSUME TypeOK
    PROVE  /\ interval \in Nat /\ interval <= Longest
           /\ Heard => Head(answers) \in Intervals
           /\ answers # <<>> => /\ Tail(answers) \in Seq(Intervals \cup {Bad})
                                /\ Len(Tail(answers)) <= MaxAnswers
<1>1. interval \in Nat /\ interval <= Longest
  <2>1. CASE interval \in Intervals
    BY <2>1, Jitter
  <2>2. CASE interval = 0
    BY <2>2, Jitter
  <2>3. QED
    BY <2>1, <2>2 DEF TypeOK
<1>2. /\ answers \in Seq(Intervals \cup {Bad}) /\ Len(answers) <= MaxAnswers
      /\ MaxAnswers \in Nat
  BY SchedulerAssumption DEF TypeOK
<1>3. Heard => Head(answers) \in Intervals
  BY <1>2 DEF Heard
<1>4. answers # <<>> => /\ Tail(answers) \in Seq(Intervals \cup {Bad})
                        /\ Len(Tail(answers)) <= MaxAnswers
  BY <1>2
<1>5. QED
  BY <1>1, <1>3, <1>4

(* A message of the router that reaches the reply or the start subscription *)
(* is an interval or one the parser refuses, and the queue keeps its bound. *)
LEMMA Delivered ==
    ASSUME TypeOK, NEW m \in Intervals \cup {Bad}, Deliver(m)
    PROVE  answers' \in Seq(Intervals \cup {Bad}) /\ Len(answers') <= MaxAnswers
<1>1. answers \in Seq(Intervals \cup {Bad}) /\ MaxAnswers \in Nat
  BY SchedulerAssumption DEF TypeOK
<1>2. Append(answers, m) \in Seq(Intervals \cup {Bad})
  BY <1>1
<1>3. Len(Append(answers, m)) = Len(answers) + 1 /\ Len(answers) \in Nat
  BY <1>1
<1>4. QED
  BY <1>1, <1>2, <1>3 DEF Deliver

(* Every step keeps the types. *)
LEMMA TypeStep ==
    ASSUME IInv, [Next]_vars
    PROVE  TypeOK'
<1> USE SchedulerAssumption DEF IInv, TypeOK, GreetInv, Terminal, world, greeting, timing, history
<1>1. CASE greetExternalService
  BY <1>1 DEF greetExternalService
<1>2. CASE GreetFails
  BY <1>2 DEF GreetFails
<1>3. CASE RetryGreeting
  BY <1>3 DEF RetryGreeting
<1>4. CASE ReceiveFirstInterval
  <2>1. interval' \in Intervals /\ answers' = Tail(answers) /\ answers # <<>>
    BY <1>4, Received DEF ReceiveFirstInterval, Heard
  <2>2. interval' \in Nat /\ interval' <= Longest /\ Longest \in Nat
    BY <2>1, Jitter
  <2>3. left' \in 0..Longest /\ stage' \in {"panicked", "run"} /\ gap' \in Nat
    BY <1>4, <2>2 DEF ReceiveFirstInterval
  <2>4. QED
    BY <1>4, <2>1, <2>3, Received DEF ReceiveFirstInterval
<1>5. CASE ReceiveInterval
  <2>1. Heard /\ interval' \in Intervals /\ answers' = Tail(answers) /\ answers # <<>>
    BY <1>5, Received DEF ReceiveInterval, Heard
  <2>2. /\ JitterRange(interval') \in Nat /\ MaxNap \in Nat
        /\ JitterRange(interval') # 0 => JitterRange(interval') - 1 <= MaxNap
    BY <2>1, Jitter
  <2>3. nap' \in 0..MaxNap /\ stage' \in {"panicked", "sleep"}
    BY <1>5, <2>2 DEF ReceiveInterval
  <2>4. QED
    BY <1>5, <2>1, <2>3, Received DEF ReceiveInterval
<1>6. CASE Wake
  <2>1. left' \in 0..Longest /\ emitCh' \in 0..1 /\ gap' \in Nat
    BY <1>6, Received DEF Wake, emit
  <2>2. asked' \in BOOLEAN
    BY <1>6, Zenon DEF Wake, emit
  <2>3. QED
    BY <1>6, <2>1, <2>2 DEF Wake
<1>7. CASE EmitTick
  <2>1. left' \in 0..Longest /\ emitCh' \in 0..1 /\ gap' \in Nat
    BY <1>7, Received DEF EmitTick, emit
  <2>2. asked' \in BOOLEAN
    BY <1>7, Zenon DEF EmitTick, emit
  <2>3. QED
    BY <1>7, <2>1, <2>2 DEF EmitTick
<1>8. CASE Stop
  BY <1>8 DEF Stop
<1>9. CASE handleExternalServiceStart
  BY <1>9 DEF handleExternalServiceStart
<1>10. CASE Tick
  <2>1. Longest \in Nat /\ MaxNap \in Nat
    BY Jitter
  <2>2. left' \in 0..Longest /\ nap' \in 0..MaxNap /\ gap' \in Nat
    BY <1>10, <2>1 DEF Tick
  <2>3. QED
    BY <1>10, <2>2 DEF Tick
<1>11. CASE EmitExternal
  BY <1>11 DEF EmitExternal
<1>12. CASE Emitted
  BY <1>12 DEF Emitted
<1>13. CASE RouterAnswers
  <2>1. answers' \in Seq(Intervals \cup {Bad}) /\ Len(answers') <= MaxAnswers
    <3>1. (\E m \in Intervals \cup {Bad} : Deliver(m)) \/ answers' = answers
      BY <1>13 DEF RouterAnswers
    <3>2. TypeOK
      BY Zenon
    <3>3. QED
      BY <3>1, <3>2, Delivered
  <2>2. greetings' \in 0..MaxGreetAttempts
    BY <1>13 DEF RouterAnswers
  <2>3. replySub' \in BOOLEAN
    BY <1>13, Zenon DEF RouterAnswers
  <2>4. QED
    BY <1>13, <2>1, <2>2, <2>3 DEF RouterAnswers
<1>14. CASE RouterRestarts
  <2>1. answers' \in Seq(Intervals \cup {Bad}) /\ Len(answers') <= MaxAnswers
    <3>1. (\E m \in Intervals \cup {Bad} : Deliver(m)) \/ answers' = answers
      BY <1>14 DEF RouterRestarts
    <3>2. TypeOK
      BY Zenon
    <3>3. QED
      BY <3>1, <3>2, Delivered
  <2>2. restarts' \in 0..MaxRestarts /\ emission' \in {"none", "current", "overtaken"}
    BY <1>14 DEF RouterRestarts
  <2>3. asked' \in BOOLEAN
    BY <1>14, Zenon DEF RouterRestarts
  <2>4. QED
    BY <1>14, <2>1, <2>2, <2>3 DEF RouterRestarts
<1>15. CASE Signal
  BY <1>15 DEF Signal
<1>16. CASE UNCHANGED vars
  BY <1>16 DEF vars
<1>17. QED
  BY <1>1, <1>2, <1>3, <1>4, <1>5, <1>6, <1>7, <1>8, <1>9, <1>10, <1>11, <1>12,
     <1>13, <1>14, <1>15, <1>16, Zenon DEF Next, Run

(* Every step leaves the next emission near enough. *)
LEMMA GapStep ==
    ASSUME IInv, [Next]_vars
    PROVE  GapInv'
<1> USE DEF IInv, TypeOK, GapInv, world, greeting, timing, history
<1>1. CASE greetExternalService
  BY <1>1 DEF greetExternalService
<1>2. CASE GreetFails
  BY <1>2 DEF GreetFails
<1>3. CASE RetryGreeting
  BY <1>3 DEF RetryGreeting
<1>4. CASE ReceiveFirstInterval
  <2>1. interval' \in Intervals /\ left' = interval' /\ gap' = 0
    BY <1>4, Received DEF ReceiveFirstInterval
  <2>2. interval' \in Nat /\ interval' <= Longest
    BY <2>1, Jitter
  <2>3. (stage' = "run" /\ interval' > 0) \/ stage' = "panicked"
    BY <1>4, <2>2 DEF ReceiveFirstInterval
  <2>4. QED
    BY <2>1, <2>2, <2>3
<1>5. CASE ReceiveInterval
  <2>1. Heard /\ interval' \in Intervals /\ answers' = Tail(answers) /\ answers # <<>>
    BY <1>5, Received DEF ReceiveInterval, Heard
  <2>2. CASE stage' = "sleep"
    <3>1. nap' \in 0..(JitterRange(interval') - 1) /\ JitterRange(interval') # 0
      BY <1>5, <2>2 DEF ReceiveInterval
    <3>2. /\ interval' \in Nat /\ JitterRange(interval') \in Nat
          /\ JitterRange(interval') # 0 => JitterRange(interval') - 1 <= MaxNap
          /\ Longest \in Nat /\ MaxNap \in Nat /\ MaxGap = Longest + MaxNap
      BY <2>1, Jitter
    <3>3. gap' = gap /\ gap \in Nat /\ gap <= Longest
      BY <1>5, <3>2 DEF ReceiveInterval
    <3>4. JitterRange(0) = 0
      <4>1. 0 * JitterNumerator = 0 /\ JitterDenominator \in Nat \ {0}
        BY SchedulerAssumption
      <4>2. ASSUME NEW d \in Nat \ {0} PROVE 0 \div d = 0
        OBVIOUS
      <4>3. QED
        BY <4>1, <4>2 DEF JitterRange
    <3>5. interval' # 0
      BY <3>1, <3>4, Zenon
    <3>6. gap' + nap' <= MaxGap
      <4> PICK range : range = JitterRange(interval')
        OBVIOUS
      <4>1. range \in Nat /\ range # 0 /\ range - 1 <= MaxNap /\ nap' \in 0..(range - 1)
        BY <3>1, <3>2
      <4>2. gap' \in Nat /\ gap' <= Longest
        BY <3>3
      <4> HIDE DEF IInv, TypeOK, GapInv
      <4>3. nap' \in Nat /\ nap' <= MaxNap
        BY <3>2, <4>1
      <4>4. Longest \in Nat /\ MaxNap \in Nat /\ MaxGap = Longest + MaxNap
        BY <3>2
      <4>5. gap' + nap' <= Longest + MaxNap
        BY <4>2, <4>3, <4>4, Sums, Zenon
      <4>6. QED
        BY <4>4, <4>5, Zenon
    <3>7. QED
      BY <2>2, <3>2, <3>5, <3>6
  <2>3. CASE stage' = "panicked"
    BY <2>3
  <2>4. QED
    BY <1>5, <2>2, <2>3 DEF ReceiveInterval
<1>6. CASE Wake
  BY <1>6, Received DEF Wake, emit
<1>7. CASE EmitTick
  BY <1>7, Received DEF EmitTick, emit
<1>8. CASE Stop
  BY <1>8 DEF Stop
<1>9. CASE handleExternalServiceStart
  BY <1>9 DEF handleExternalServiceStart
<1>10. CASE Tick
  BY <1>10 DEF Tick, Heard
<1>11. CASE EmitExternal
  BY <1>11 DEF EmitExternal
<1>12. CASE Emitted
  BY <1>12 DEF Emitted
<1>13. CASE RouterAnswers
  BY <1>13 DEF RouterAnswers, Deliver
<1>14. CASE RouterRestarts
  BY <1>14 DEF RouterRestarts, Deliver
<1>15. CASE Signal
  BY <1>15 DEF Signal
<1>16. CASE UNCHANGED vars
  BY <1>16 DEF vars
<1>17. QED
  BY <1>1, <1>2, <1>3, <1>4, <1>5, <1>6, <1>7, <1>8, <1>9, <1>10, <1>11, <1>12,
     <1>13, <1>14, <1>15, <1>16 DEF Next, Run

(* Every step leaves room for the next greeting. *)
LEMMA GreetStep ==
    ASSUME IInv, [Next]_vars
    PROVE  GreetInv'
<1> USE SchedulerAssumption DEF IInv, TypeOK, GreetInv, world, greeting, timing, history
<1>1. CASE greetExternalService
  BY <1>1 DEF greetExternalService
<1>2. CASE GreetFails
  BY <1>2 DEF GreetFails
<1>3. CASE RetryGreeting
  BY <1>3 DEF RetryGreeting
<1>4. CASE ReceiveFirstInterval
  BY <1>4 DEF ReceiveFirstInterval, Heard
<1>5. CASE ReceiveInterval
  BY <1>5 DEF ReceiveInterval, Heard
<1>6. CASE Wake
  BY <1>6 DEF Wake, emit
<1>7. CASE EmitTick
  BY <1>7 DEF EmitTick, emit
<1>8. CASE Stop
  BY <1>8 DEF Stop
<1>9. CASE handleExternalServiceStart
  BY <1>9 DEF handleExternalServiceStart
<1>10. CASE Tick
  BY <1>10 DEF Tick, Heard
<1>11. CASE EmitExternal
  BY <1>11 DEF EmitExternal
<1>12. CASE Emitted
  BY <1>12 DEF Emitted
<1>13. CASE RouterAnswers
  BY <1>13 DEF RouterAnswers, Deliver
<1>14. CASE RouterRestarts
  BY <1>14 DEF RouterRestarts, Deliver
<1>15. CASE Signal
  BY <1>15 DEF Signal
<1>16. CASE UNCHANGED vars
  BY <1>16 DEF vars
<1>17. QED
  BY <1>1, <1>2, <1>3, <1>4, <1>5, <1>6, <1>7, <1>8, <1>9, <1>10, <1>11, <1>12,
     <1>13, <1>14, <1>15, <1>16 DEF Next, Run

(* Every step keeps the request for the routers' routes. *)
LEMMA RequestStep ==
    ASSUME IInv, [Next]_vars
    PROVE  NoRequestLost'
<1> USE DEF IInv, TypeOK, NoRequestLost, world, greeting, timing, history
<1>1. CASE greetExternalService
  BY <1>1 DEF greetExternalService
<1>2. CASE GreetFails
  BY <1>2 DEF GreetFails
<1>3. CASE RetryGreeting
  BY <1>3 DEF RetryGreeting
<1>4. CASE ReceiveFirstInterval
  BY <1>4 DEF ReceiveFirstInterval, Heard
<1>5. CASE ReceiveInterval
  BY <1>5 DEF ReceiveInterval, Heard
<1>6. CASE Wake
  BY <1>6 DEF Wake, emit
<1>7. CASE EmitTick
  BY <1>7 DEF EmitTick, emit
<1>8. CASE Stop
  BY <1>8 DEF Stop
<1>9. CASE handleExternalServiceStart
  BY <1>9 DEF handleExternalServiceStart
<1>10. CASE Tick
  BY <1>10 DEF Tick, Heard
<1>11. CASE EmitExternal
  BY <1>11 DEF EmitExternal
<1>12. CASE Emitted
  BY <1>12 DEF Emitted
<1>13. CASE RouterAnswers
  BY <1>13 DEF RouterAnswers, Deliver
<1>14. CASE RouterRestarts
  BY <1>14 DEF RouterRestarts, Deliver
<1>15. CASE Signal
  BY <1>15 DEF Signal
<1>16. CASE UNCHANGED vars
  BY <1>16 DEF vars
<1>17. QED
  BY <1>1, <1>2, <1>3, <1>4, <1>5, <1>6, <1>7, <1>8, <1>9, <1>10, <1>11, <1>12,
     <1>13, <1>14, <1>15, <1>16 DEF Next, Run

(* The inductive invariant holds initially and every step of the           *)
(* scheduler, the router, the watcher and the clock keeps it.              *)
THEOREM Invariance == Spec => []IInv
<1>1. Init => IInv
  <2> SUFFICES ASSUME Init PROVE IInv
    OBVIOUS
  <2>1. replySub \in BOOLEAN /\ signalled \in BOOLEAN /\ asked \in BOOLEAN
    BY Zenon DEF Init
  <2>2. TypeOK
    BY <2>1, SchedulerAssumption, Jitter DEF Init, TypeOK
  <2>3. GapInv /\ GreetInv /\ NoRequestLost
    BY SchedulerAssumption DEF Init, GapInv, GreetInv, NoRequestLost
  <2>4. QED
    BY <2>2, <2>3 DEF IInv
<1>2. IInv /\ [Next]_vars => IInv'
  BY TypeStep, GapStep, GreetStep, RequestStep DEF IInv
<1>3. QED
  BY <1>1, <1>2, PTL DEF Spec

(* Every variable keeps its type: emitCh holds one request at most and the *)
(* greeting never exceeds its attempts.                                    *)
THEOREM TypeCorrect == Spec => []TypeOK
<1>1. IInv => TypeOK
  BY DEF IInv
<1>2. QED
  BY <1>1, Invariance, PTL

(* Between two requests to emit lie at most the longest interval and its   *)
(* jitter (routebroadcastscheduler.go:108-125).                            *)
THEOREM GapBounded == Spec => []EmissionGap
<1>1. IInv => EmissionGap
  <2> SUFFICES ASSUME IInv, stage \in {"run", "sleep"} PROVE gap <= MaxGap
    BY DEF EmissionGap
  <2>1. /\ gap \in Nat /\ left \in Nat /\ nap \in Nat /\ Longest \in Nat
        /\ MaxNap \in Nat /\ MaxGap = Longest + MaxNap
    <3>1. /\ Longest \in Nat /\ MaxNap \in Nat /\ MaxGap = Longest + MaxNap
      BY Jitter
    <3>2. QED
      BY <3>1 DEF IInv, TypeOK
  <2>2. CASE stage = "run"
    BY <2>1, <2>2 DEF IInv, GapInv
  <2>3. CASE stage = "sleep"
    BY <2>1, <2>3 DEF IInv, GapInv
  <2>4. QED
    BY <2>2, <2>3
<1>2. QED
  BY <1>1, Invariance, PTL

(* A request that emit drops is one that waits already, and the emission   *)
(* it stands for starts after it (routebroadcastscheduler.go:129).         *)
THEOREM RequestsKept == Spec => []NoRequestLost
<1>1. IInv => NoRequestLost
  BY DEF IInv
<1>2. QED
  BY <1>1, Invariance, PTL

--------------------------------------------------------------------------------
(* The process group. *)

(* The order of the members, in each of the four configurations. *)
LEMMA MembersOrder ==
    /\ Len(Members) \in 6..8
    /\ DOMAIN Members = 1..Len(Members)
    /\ Members[1] = "nats-client" /\ Members[2] = "healthcheck"
    /\ Members[3] = "unregistration"
    /\ IF LocalMode
       THEN /\ Members[4] = "watcher" /\ Members[5] = "external-scheduler"
            /\ Members[6] = "syncer"
            /\ IF EnableInternalEmitter
               THEN Len(Members) = 7 /\ Members[7] = "internal-scheduler"
               ELSE Len(Members) = 6
       ELSE /\ Members[4] = "lock" /\ Members[5] = "watcher"
            /\ Members[6] = "external-scheduler" /\ Members[7] = "syncer"
            /\ IF EnableInternalEmitter
               THEN Len(Members) = 8 /\ Members[8] = "internal-scheduler"
               ELSE Len(Members) = 7
<1>1. CASE LocalMode /\ EnableInternalEmitter
  <2>1. Members = <<"nats-client", "healthcheck", "unregistration">> \o <<>>
                  \o <<"watcher", "external-scheduler", "syncer">> \o <<"internal-scheduler">>
    BY <1>1 DEF Members
  <2>2. QED
    BY <1>1, <2>1
<1>2. CASE LocalMode /\ ~EnableInternalEmitter
  <2>1. Members = <<"nats-client", "healthcheck", "unregistration">> \o <<>>
                  \o <<"watcher", "external-scheduler", "syncer">> \o <<>>
    BY <1>2 DEF Members
  <2>2. QED
    BY <1>2, <2>1
<1>3. CASE ~LocalMode /\ EnableInternalEmitter
  <2>1. Members = <<"nats-client", "healthcheck", "unregistration">> \o <<"lock">>
                  \o <<"watcher", "external-scheduler", "syncer">> \o <<"internal-scheduler">>
    BY <1>3 DEF Members
  <2>2. QED
    BY <1>3, <2>1
<1>4. CASE ~LocalMode /\ ~EnableInternalEmitter
  <2>1. Members = <<"nats-client", "healthcheck", "unregistration">> \o <<"lock">>
                  \o <<"watcher", "external-scheduler", "syncer">> \o <<>>
    BY <1>4 DEF Members
  <2>2. QED
    BY <1>4, <2>1
<1>5. QED
  BY <1>1, <1>2, <1>3, <1>4

(* The NATS client is the first member, and the lock comes before the watcher. *)
LEMMA MemberOrder ==
    /\ \A n \in Names : \E i \in DOMAIN Members : n = Members[i]
    /\ \A i \in DOMAIN Members : Members[i] \in Names
    /\ {"nats-client", "watcher", "syncer", "healthcheck", "unregistration",
        "external-scheduler"} \subseteq Names
    /\ ~LocalMode => "lock" \in Names
    /\ \A i, j \in DOMAIN Members :
          Members[i] = "nats-client" /\ Members[j] # "nats-client" => i < j
    /\ \A i, j \in DOMAIN Members :
          Members[i] = "lock" /\ Members[j] = "watcher" => i < j
<1>1. Names = {Members[i] : i \in DOMAIN Members}
  BY DEF Names, Range
<1>2. /\ 1..6 \subseteq DOMAIN Members
      /\ ~LocalMode => 7 \in DOMAIN Members
  BY MembersOrder
<1>3. {"nats-client", "watcher", "syncer", "healthcheck", "unregistration",
       "external-scheduler"} \subseteq Names
  <2>1. CASE LocalMode
    BY <1>1, <1>2, <2>1, MembersOrder
  <2>2. CASE ~LocalMode
    BY <1>1, <1>2, <2>2, MembersOrder
  <2>3. QED
    BY <2>1, <2>2
<1>4. ~LocalMode => "lock" \in Names
  BY <1>1, <1>2, MembersOrder
<1>5. \A i \in DOMAIN Members :
          \/ i = 1 \/ i = 2 \/ i = 3 \/ i = 4 \/ i = 5 \/ i = 6
          \/ i = 7 /\ (~LocalMode \/ EnableInternalEmitter)
          \/ i = 8 /\ ~LocalMode /\ EnableInternalEmitter
  BY MembersOrder
<1>6. \A i \in DOMAIN Members :
          i \in Nat /\ i >= 1 /\ (Members[i] = "nats-client" <=> i = 1)
  BY <1>5, MembersOrder
<1>7. \A i \in DOMAIN Members : Members[i] = "lock" => ~LocalMode /\ i = 4
  BY <1>5, MembersOrder
<1>8. \A i \in DOMAIN Members : ~LocalMode /\ Members[i] = "watcher" => i = 5
  BY <1>5, MembersOrder
<1>9. /\ \A i, j \in DOMAIN Members :
             Members[i] = "nats-client" /\ Members[j] # "nats-client" => i < j
      /\ \A i, j \in DOMAIN Members :
             Members[i] = "lock" /\ Members[j] = "watcher" => i < j
  BY <1>6, <1>7, <1>8
<1>10. QED
  BY <1>1, <1>3, <1>4, <1>9

--------------------------------------------------------------------------------
(* The inductive invariant. *)

GroupTypes ==
    /\ proc \in [Names -> {"off", "starting", "up", "exited"}]
    /\ group \in {"starting", "running", "stopping"}
    /\ told \subseteq Names
    /\ conn \in {"nil", "open", "closed", "dropped"}
    /\ lock \in {"free", "other", "mine", "lost"}

Others == Names \ {"nats-client"}

(* The connection is set when the NATS client is up, and no other member   *)
(* has started before; it is closed when the client is told to stop, and   *)
(* no other member is alive then.                                          *)
NatsInv ==
    /\ conn = "nil" => /\ proc["nats-client"] # "up"
                       /\ \A n \in Others : proc[n] = "off"
    /\ conn # "nil" => proc["nats-client"] \in {"up", "exited"}
    /\ conn = "closed" => "nats-client" \in told
    /\ "nats-client" \in told => group = "stopping" /\ \A n \in Others : ~Alive(n)

(* The same for the lock and the watcher, save for a lock that was lost. *)
LockInv ==
    ~LocalMode =>
        /\ proc["lock"] \in {"off", "starting"} =>
               lock \in {"free", "other"} /\ proc["watcher"] = "off"
        /\ proc["lock"] = "up" => lock \in {"mine", "lost"}
        /\ proc["lock"] = "exited" /\ Alive("watcher") => lock = "lost"
        /\ "lock" \in told => group = "stopping" /\ ~Alive("watcher")

GroupInv == GroupTypes /\ NatsInv /\ LockInv

(* The invariant holds when the process begins. *)
LEMMA GroupInitially == GroupInit => GroupInv
<1> SUFFICES ASSUME GroupInit PROVE GroupInv
  OBVIOUS
<1>1. GroupTypes
  BY DEF GroupInit, GroupTypes
<1>2. NatsInv
  BY MemberOrder DEF GroupInit, NatsInv, Others
<1>3. LockInv
  BY MemberOrder DEF GroupInit, LockInv, Alive
<1>4. QED
  BY <1>1, <1>2, <1>3 DEF GroupInv

(* A member is started when those before it are up. *)
LEMMA StartInv ==
    ASSUME GroupInv, NEW i \in DOMAIN Members, Start(i)
    PROVE  GroupInv'
<1> DEFINE n == Members[i]
<1>1. /\ n \in Names /\ proc[n] = "off" /\ group = "starting"
      /\ proc' = [proc EXCEPT ![n] = "starting"]
      /\ UNCHANGED <<group, told, conn, lock>>
  BY MemberOrder DEF Start
<1>2. \A j \in DOMAIN Members : j < i => proc[Members[j]] = "up"
  BY MembersOrder DEF Start
<1>3. n # "nats-client" => proc["nats-client"] = "up"
  <2>1. PICK j \in DOMAIN Members : Members[j] = "nats-client"
    BY MemberOrder
  <2>2. QED
    BY <1>2, <2>1, MemberOrder
<1>4. ~LocalMode /\ n = "watcher" => proc["lock"] = "up"
  <2>1. SUFFICES ASSUME ~LocalMode, n = "watcher" PROVE proc["lock"] = "up"
    OBVIOUS
  <2>2. PICK j \in DOMAIN Members : Members[j] = "lock"
    BY <2>1, MemberOrder
  <2>3. QED
    BY <1>2, <2>1, <2>2, MemberOrder
<1> HIDE DEF n
<1>5. GroupTypes'
  BY <1>1 DEF GroupInv, GroupTypes
<1>6. NatsInv'
  BY <1>1, <1>3, MemberOrder DEF GroupInv, GroupTypes, NatsInv, Others, Alive
<1>7. LockInv'
  BY <1>1, <1>4, MemberOrder DEF GroupInv, GroupTypes, LockInv, Alive
<1>8. QED
  BY <1>5, <1>6, <1>7 DEF GroupInv

(* A member is told to stop when those after it have exited. *)
LEMMA SignalInv ==
    ASSUME GroupInv, NEW i \in DOMAIN Members, SignalMember(i)
    PROVE  GroupInv'
<1> DEFINE n == Members[i]
<1>1. /\ n \in Names /\ group = "stopping" /\ told' = told \cup {n}
      /\ UNCHANGED <<proc, group, conn, lock>>
  BY MemberOrder DEF SignalMember
<1>2. \A j \in DOMAIN Members : i < j => ~Alive(Members[j])
  BY MembersOrder DEF SignalMember, MayStop
<1>3. n = "nats-client" => \A m \in Others : ~Alive(m)
  <2>1. SUFFICES ASSUME n = "nats-client", NEW m \in Others PROVE ~Alive(m)
    OBVIOUS
  <2>2. PICK j \in DOMAIN Members : m = Members[j]
    BY MemberOrder DEF Others
  <2>3. QED
    BY <1>2, <2>1, <2>2, MemberOrder DEF Others
<1>4. n = "lock" => ~Alive("watcher")
  <2>1. PICK j \in DOMAIN Members : "watcher" = Members[j]
    BY MemberOrder
  <2>2. QED
    BY <1>2, <2>1, MemberOrder
<1> HIDE DEF n
<1>5. GroupTypes'
  BY <1>1 DEF GroupInv, GroupTypes
<1>6. NatsInv'
  BY <1>1, <1>3 DEF GroupInv, NatsInv, Alive, Others
<1>7. LockInv'
  BY <1>1, <1>4 DEF GroupInv, LockInv, Alive
<1>8. QED
  BY <1>5, <1>6, <1>7 DEF GroupInv

(* A member other than the NATS client and the lock becomes ready or exits. *)
LEMMA MemberInv ==
    ASSUME GroupInv, NEW n \in Names \ {"nats-client", "lock"},
           Ready(n) \/ Exit(n),
           UNCHANGED <<group, told, conn, lock>>
    PROVE  GroupInv'
<1>1. PICK s \in {"up", "exited"} : proc' = [proc EXCEPT ![n] = s]
  BY DEF Ready, Exit
<1>2. Alive(n)
  BY DEF Ready, Exit, Alive
<1>3. GroupTypes'
  BY <1>1 DEF GroupInv, GroupTypes
<1>4. NatsInv'
  BY <1>1, <1>2, MemberOrder DEF GroupInv, GroupTypes, NatsInv, Others, Alive
<1>5. LockInv'
  BY <1>1, <1>2, MemberOrder DEF GroupInv, GroupTypes, LockInv, Alive
<1>6. QED
  BY <1>3, <1>4, <1>5 DEF GroupInv

(* The steps of the NATS client and the loss of its connection. *)
LEMMA NatsStepInv ==
    ASSUME GroupInv, NatsStep \/ ConnDrops
    PROVE  GroupInv'
<1>1. UNCHANGED <<group, told, lock>> /\ GroupTypes'
  BY MemberOrder DEF NatsStep, Connect, ConnectFails, StopNats, ConnDrops,
         Ready, Exit, GroupInv, GroupTypes
<1>2. \A n \in Others : proc'[n] = proc[n]
  BY MemberOrder DEF NatsStep, Connect, ConnectFails, StopNats, ConnDrops,
         Ready, Exit, GroupInv, GroupTypes, Others
<1>3. NatsInv'
  <2>1. CASE Connect
    BY <1>1, <1>2, <2>1, MemberOrder DEF Connect, Ready, GroupInv, GroupTypes,
           NatsInv, Alive, Others
  <2>2. CASE ConnectFails
    BY <1>1, <1>2, <2>2, MemberOrder DEF ConnectFails, Exit, GroupInv,
           GroupTypes, NatsInv, Alive, Others
  <2>3. CASE StopNats
    BY <1>1, <1>2, <2>3, MemberOrder DEF StopNats, Exit, GroupInv, GroupTypes,
           NatsInv, Alive, Others
  <2>4. CASE ConnDrops
    BY <1>1, <1>2, <2>4 DEF ConnDrops, GroupInv, NatsInv, Alive, Others
  <2>5. QED
    BY <2>1, <2>2, <2>3, <2>4 DEF NatsStep
<1>4. LockInv'
  BY <1>1, <1>2, MemberOrder DEF GroupInv, LockInv, Alive, Others
<1>5. QED
  BY <1>1, <1>3, <1>4 DEF GroupInv

(* The steps of the lock runner, the loss of the lock, and the lock in the *)
(* hands of another instance.                                              *)
LEMMA LockStepInv ==
    ASSUME GroupInv, LockStep \/ (~LocalMode /\ (LockLost \/ OtherInstance))
    PROVE  GroupInv'
<1>1. UNCHANGED <<group, told, conn>> /\ GroupTypes'
  BY DEF LockStep, LockAcquired, StopLock, LockLost, OtherInstance,
         Ready, Exit, GroupInv, GroupTypes
<1>2. \A n \in Names : n # "lock" => proc'[n] = proc[n]
  BY DEF LockStep, LockAcquired, StopLock, LockLost, OtherInstance,
         Ready, Exit, GroupInv, GroupTypes
<1>3. "lock" \in Names /\ proc'["lock"] # proc["lock"] =>
          Alive("lock") /\ proc'["lock"] # "off"
  BY DEF LockStep, LockAcquired, StopLock, LockLost, OtherInstance,
         Ready, Exit, GroupInv, GroupTypes, Alive
<1>4. NatsInv'
  BY <1>1, <1>2, <1>3, MemberOrder DEF GroupInv, GroupTypes, NatsInv, Alive, Others
<1>5. LockInv'
  <2>1. CASE LockStep /\ LockAcquired
    BY <1>1, <1>2, <2>1, MemberOrder DEF LockStep, LockAcquired, Ready,
           GroupInv, GroupTypes, LockInv, Alive
  <2>2. CASE LockStep /\ StopLock
    BY <1>1, <1>2, <2>2, MemberOrder DEF LockStep, StopLock, Exit, GroupInv,
           GroupTypes, LockInv, Alive
  <2>3. CASE LockLost
    BY <2>3 DEF LockLost, GroupInv, LockInv, Alive
  <2>4. CASE OtherInstance
    BY <2>4, MemberOrder DEF OtherInstance, GroupInv, GroupTypes, LockInv, Alive
  <2>5. QED
    BY <2>1, <2>2, <2>3, <2>4 DEF LockStep
<1>6. QED
  BY <1>1, <1>4, <1>5 DEF GroupInv

(* Every step keeps the invariant. *)
LEMMA GroupStepsKeep == GroupInv /\ [GroupNext]_groupVars => GroupInv'
<1> SUFFICES ASSUME GroupInv, [GroupNext]_groupVars PROVE GroupInv'
  OBVIOUS
<1>1. CASE GroupStep
  <2>1. CASE Started
    BY <2>1 DEF Started, GroupInv, GroupTypes, NatsInv, LockInv, Alive, Others
  <2>2. QED
    BY <1>1, <2>1, StartInv, SignalInv DEF GroupStep
<1>2. CASE BeginStop
  BY <1>2 DEF BeginStop, GroupInv, GroupTypes, NatsInv, LockInv, Alive, Others
<1>3. CASE NatsStep \/ ConnDrops
  BY <1>3, NatsStepInv
<1>4. CASE LockStep \/ (~LocalMode /\ (LockLost \/ OtherInstance))
  BY <1>4, LockStepInv
<1>5. ASSUME NEW n \in Names, MemberStep(n)
      PROVE  GroupInv'
  <2>1. n \notin {"nats-client", "lock"}
    BY <1>5 DEF MemberStep, ReadyAtOnce, Greeted, FailsToStart, StopMember
  <2>2. (Ready(n) \/ Exit(n)) /\ UNCHANGED <<group, told, conn, lock>>
    BY <1>5 DEF MemberStep, ReadyAtOnce, Greeted, FailsToStart, StopMember
  <2>3. QED
    BY <2>1, <2>2, MemberInv
<1>6. CASE SyncerReady
  <2>1. "syncer" \in Names \ {"nats-client", "lock"}
    BY MemberOrder
  <2>2. Ready("syncer") /\ UNCHANGED <<group, told, conn, lock>>
    BY <1>6 DEF SyncerReady
  <2>3. QED
    BY <2>1, <2>2, MemberInv
<1>7. CASE UNCHANGED <<proc, group, told, conn, lock>>
  BY <1>7 DEF GroupInv, GroupTypes, NatsInv, LockInv, Alive, Others
<1>8. CASE \/ Sync \/ SyncTick \/ WatcherTakes \/ WatcherReturns
           \/ UNCHANGED groupVars
  BY <1>7, <1>8 DEF Sync, SyncTick, WatcherTakes, WatcherReturns, groupVars
<1>9. QED
  BY <1>1, <1>2, <1>3, <1>4, <1>5, <1>6, <1>8 DEF GroupNext, NoticeExit,
         SyncerStep, Environment

--------------------------------------------------------------------------------

(* In each of the four configurations the order of the group ties the      *)
(* connection to the life of the other members and the lock to the life of *)
(* the watcher, whatever fails and whenever the process is told to stop.   *)
THEOREM GroupInvariance == GroupSpec => []GroupInv
  BY GroupInitially, GroupStepsKeep, PTL DEF GroupSpec

(* In every configuration, no member that calls the NATS client is alive   *)
(* before the client is connected or after the runner has closed it.       *)
THEOREM ConnectionSafe == GroupSpec => []ConnectionOutlivesUsers
<1>1. GroupInv => ConnectionOutlivesUsers
  <2> SUFFICES ASSUME GroupInv, NEW n \in NatsUsers, Alive(n)
               PROVE  conn \in {"open", "dropped"}
    BY DEF ConnectionOutlivesUsers
  <2>1. n \in Others
    BY DEF NatsUsers, Others
  <2>2. QED
    BY <2>1 DEF GroupInv, GroupTypes, NatsInv, Alive
<1>2. QED
  BY <1>1, GroupInvariance, PTL

(* In every configuration with a lock, the process has it while its        *)
(* watcher is alive, or has lost it.                                       *)
THEOREM LockSafe == GroupSpec => []LockOutlivesWatcher
<1>1. GroupInv => LockOutlivesWatcher
  BY MemberOrder DEF GroupInv, GroupTypes, LockInv, LockOutlivesWatcher, Alive
<1>2. QED
  BY <1>1, GroupInvariance, PTL
================================================================================
