-------------------------------- MODULE Scheduler --------------------------------
(***************************************************************************)
(* RouteBroadcastScheduler (scheduler/routebroadcastscheduler.go), with    *)
(* the router it greets and the watcher it wakes.                          *)
(*                                                                         *)
(* A message of the router holds its MinimumRegisterInterval, or is Bad    *)
(* when it cannot be parsed.  The NATS callback of a message blocks on the *)
(* unbuffered channel externalServiceStart, which serves its senders in    *)
(* order, so the first valid message of "answers" is the one a receive     *)
(* gets.  The router, NATS and the clock are external; Sleep, the tickers  *)
(* and select are modelled by what they do: select takes any case that is  *)
(* ready.                                                                  *)
(***************************************************************************)
EXTENDS Naturals, Sequences

CONSTANTS
    Intervals,          \* intervals a router may ask for, in ticks
    Bad,                \* a message that is not JSON
    JitterNumerator,    \* JitterFactor is a fraction; it is 0 when not configured
    JitterDenominator,
    MaxGreetAttempts,
    MaxRestarts,        \* bound: restarts of the router
    MaxAnswers          \* bound: messages waiting for the scheduler

ASSUME SchedulerAssumption ==
    /\ Intervals \subseteq Nat
    /\ \E i \in Intervals : \A j \in Intervals : j <= i
    /\ Bad \notin Nat
    /\ JitterNumerator \in Nat /\ JitterDenominator \in Nat \ {0}
    /\ MaxGreetAttempts \in Nat \ {0}
    /\ MaxRestarts \in Nat /\ MaxAnswers \in Nat \ {0}

VARIABLES
    stage,      \* where Run is
    attempts,   \* greetAttempt
    greetings,  \* greetings the router has not answered
    replySub,   \* the reply subscription, removed after one message
    answers,    \* messages of the router, a valid first one in a blocked callback
    interval,   \* registerInterval
    left,       \* ticks until emitTicker fires, 0 when it has
    nap,        \* ticks of the Sleep that are left
    emitCh,     \* messages in emitCh
    emission,   \* the watcher's: "none", "current", or "overtaken" by a restart
    router,     \* "empty" or "full" of the table's routes
    restarts,
    signalled,
    gap,        \* history: ticks since emit was last called
    asked       \* history: emit was called since the router's last restart

vars == <<stage, attempts, greetings, replySub, answers, interval, left, nap,
          emitCh, emission, router, restarts, signalled, gap, asked>>

world == <<emission, router, restarts, signalled>>
greeting == <<attempts, greetings, replySub>>
timing == <<interval, left, nap>>
history == <<gap, asked>>

Terminal == {"stopped", "failed", "panicked"}

Longest == CHOOSE i \in Intervals : \A j \in Intervals : j <= i

(* The argument of Int63n: JitterFactor of the interval. *)
JitterRange(i) == (i * JitterNumerator) \div JitterDenominator

MaxNap == IF JitterRange(Longest) = 0 THEN 0 ELSE JitterRange(Longest) - 1
MaxGap == Longest + MaxNap

TypeOK ==
    /\ stage \in {"greet", "wait", "run", "sleep"} \cup Terminal
    /\ attempts \in 0..MaxGreetAttempts
    /\ greetings \in 0..MaxGreetAttempts
    /\ replySub \in BOOLEAN
    /\ answers \in Seq(Intervals \cup {Bad}) /\ Len(answers) <= MaxAnswers
    /\ interval \in Intervals \cup {0}
    /\ left \in 0..Longest /\ nap \in 0..MaxNap
    /\ emitCh \in 0..1
    /\ emission \in {"none", "current", "overtaken"}
    /\ router \in {"empty", "full"}
    /\ restarts \in 0..MaxRestarts
    /\ signalled \in BOOLEAN
    /\ gap \in Nat /\ asked \in BOOLEAN

Init ==
    /\ stage = "greet" /\ attempts = 0 /\ greetings = 0
    /\ replySub = TRUE
    /\ answers = <<>>
    /\ interval = 0 /\ left = 0 /\ nap = 0
    /\ emitCh = 0
    /\ emission = "none" /\ router = "empty"
    /\ restarts = 0 /\ signalled = FALSE
    /\ gap = 0 /\ asked = FALSE

--------------------------------------------------------------------------------
(* The NATS callback. *)

(* Mutant of handleExternalServiceStart: the message is asked for again. *)
handleRedelivered ==
    /\ answers # <<>>
    /\ Head(answers) = Bad
    /\ answers' = Append(Tail(answers), Bad)
    /\ UNCHANGED <<stage, greeting, timing, emitCh, world, history>>

(* A message that cannot be parsed is dropped by its callback. *)
handleExternalServiceStart ==
    /\ answers # <<>>
    /\ Head(answers) = Bad
    /\ answers' = Tail(answers)
    /\ UNCHANGED <<stage, greeting, timing, emitCh, world, history>>

(* externalServiceStart has a sender. *)
Heard == answers # <<>> /\ Head(answers) # Bad

--------------------------------------------------------------------------------
(* Run. *)

(* Mutants of emit: requests pile up; one made while the watcher emits is  *)
(* dropped.                                                                *)
emitQueued ==
    /\ emitCh' = emitCh + 1
    /\ gap' = 0 /\ asked' = TRUE

emitUnlessBusy ==
    /\ emitCh' = IF emission = "none" THEN 1 ELSE emitCh
    /\ gap' = 0 /\ asked' = TRUE

(* A request to emit, dropped when one waits already. *)
emit ==
    /\ emitCh' = 1
    /\ gap' = 0 /\ asked' = TRUE

(* Mutant of greetExternalService: attempts are not counted. *)
greetForEver ==
    /\ stage = "greet"
    /\ stage' = "wait"
    /\ UNCHANGED <<greeting, answers, timing, emitCh, world, history>>

greetExternalService ==
    /\ stage = "greet"
    /\ attempts' = attempts + 1
    /\ greetings' = greetings + 1
    /\ stage' = IF attempts' = MaxGreetAttempts THEN "failed" ELSE "wait"
    /\ UNCHANGED <<replySub, answers, timing, emitCh, world, history>>

(* A subscription or PublishRequest fails: Run returns. *)
GreetFails ==
    /\ stage = "greet"
    /\ stage' = "failed"
    /\ UNCHANGED <<greeting, answers, timing, emitCh, world, history>>

RetryGreeting ==
    /\ stage = "wait"
    /\ stage' = "greet"
    /\ UNCHANGED <<greeting, answers, timing, emitCh, world, history>>

(* NewTicker panics when the interval is not positive. *)
ReceiveFirstInterval ==
    /\ stage = "wait"
    /\ Heard
    /\ answers' = Tail(answers)
    /\ interval' = Head(answers)
    /\ left' = interval'
    /\ stage' = IF interval' = 0 THEN "panicked" ELSE "run"
    /\ gap' = 0
    /\ UNCHANGED <<greeting, nap, emitCh, world, asked>>

(* Int63n panics when its argument is not positive: for the interval zero, *)
(* and for every interval when JitterFactor is zero.                       *)
ReceiveInterval ==
    /\ stage = "run"
    /\ Heard
    /\ answers' = Tail(answers)
    /\ interval' = Head(answers)
    /\ IF JitterRange(interval') = 0
       THEN stage' = "panicked" /\ UNCHANGED nap
       ELSE stage' = "sleep" /\ nap' \in 0..(JitterRange(interval') - 1)
    /\ UNCHANGED <<greeting, left, emitCh, world, history>>

(* Mutant of Wake: without the emission. *)
WakeSilently ==
    /\ stage = "sleep"
    /\ nap = 0
    /\ left' = interval
    /\ stage' = "run"
    /\ UNCHANGED <<greeting, answers, interval, nap, emitCh, world, history>>

Wake ==
    /\ stage = "sleep"
    /\ nap = 0
    /\ left' = interval
    /\ emit
    /\ stage' = "run"
    /\ UNCHANGED <<greeting, answers, interval, nap, world>>

EmitTick ==
    /\ stage = "run"
    /\ left = 0
    /\ left' = interval
    /\ emit
    /\ UNCHANGED <<stage, greeting, answers, interval, nap, world>>

(* Mutant of Stop: only the greeting watches for signals. *)
StopGreeting ==
    /\ signalled
    /\ stage = "wait"
    /\ stage' = "stopped"
    /\ UNCHANGED <<greeting, answers, timing, emitCh, world, history>>

Stop ==
    /\ signalled
    /\ stage \in {"wait", "run"}
    /\ stage' = "stopped"
    /\ UNCHANGED <<greeting, answers, timing, emitCh, world, history>>

Run ==
    \/ greetExternalService \/ GreetFails \/ RetryGreeting \/ ReceiveFirstInterval
    \/ ReceiveInterval \/ Wake \/ EmitTick \/ Stop

--------------------------------------------------------------------------------
(* The clock, the watcher, the router and the operator. *)

(* Time does not pass a scheduler that has something to do. *)
Tick ==
    /\ \/ stage = "run" /\ left > 0 /\ ~Heard /\ ~signalled
       \/ stage = "sleep" /\ nap > 0
    /\ left' = IF left = 0 THEN 0 ELSE left - 1
    /\ nap' = IF stage = "sleep" THEN nap - 1 ELSE nap
    /\ gap' = gap + 1
    /\ UNCHANGED <<stage, greeting, answers, interval, emitCh, world, asked>>

EmitExternal ==
    /\ emitCh = 1
    /\ emission = "none"
    /\ emitCh' = 0
    /\ emission' = "current"
    /\ UNCHANGED <<stage, greeting, answers, timing, router, restarts, signalled, history>>

Emitted ==
    /\ emission # "none"
    /\ emission' = "none"
    /\ router' = IF emission = "current" THEN "full" ELSE router
    /\ UNCHANGED <<stage, greeting, answers, timing, emitCh, restarts, signalled, history>>

Deliver(m) ==
    /\ Len(answers) < MaxAnswers
    /\ answers' = Append(answers, m)

(* The router answers a greeting; the answer may be lost, and only the     *)
(* first one finds the subscription.                                       *)
RouterAnswers ==
    /\ greetings > 0
    /\ greetings' = greetings - 1
    /\ \/ replySub /\ replySub' = FALSE /\ \E m \in Intervals \cup {Bad} : Deliver(m)
       \/ UNCHANGED <<replySub, answers>>
    /\ UNCHANGED <<stage, attempts, timing, emitCh, world, history>>

(* A router starts with an empty table; its start message may be lost. *)
RouterRestarts ==
    /\ restarts < MaxRestarts
    /\ restarts' = restarts + 1
    /\ router' = "empty" /\ asked' = FALSE
    /\ emission' = IF emission = "none" THEN "none" ELSE "overtaken"
    /\ (\E m \in Intervals \cup {Bad} : Deliver(m)) \/ UNCHANGED answers
    /\ UNCHANGED <<stage, greeting, timing, emitCh, signalled, gap>>

Signal ==
    /\ ~signalled
    /\ signalled' = TRUE
    /\ UNCHANGED <<stage, greeting, answers, timing, emitCh, emission, router, restarts, history>>

Next ==
    \/ Run \/ handleExternalServiceStart \/ Tick
    \/ EmitExternal \/ Emitted
    \/ RouterAnswers \/ RouterRestarts \/ Signal

Spec == Init /\ [][Next]_vars

(* Goroutines run, time passes and the watcher keeps serving emitCh.       *)
FairSpec ==
    /\ Spec
    /\ WF_vars(Run \/ Tick)
    /\ WF_vars(handleExternalServiceStart)
    /\ WF_vars(EmitExternal) /\ WF_vars(Emitted)

--------------------------------------------------------------------------------
(* Properties. *)

(* While the scheduler runs it asks for an emission at least once per      *)
(* interval and jitter, however start messages interleave with ticks and   *)
(* sleeps (routebroadcastscheduler.go:108-125).                            *)
EmissionGap == stage \in {"run", "sleep"} => gap <= MaxGap

(* No request to emit is lost: one made after a router's restart is still  *)
(* in emitCh, or in an emission that began after the restart, until the    *)
(* router has its routes, although emit drops requests and an emission may *)
(* have begun too early (routebroadcastscheduler.go:129).                  *)
NoRequestLost ==
    asked /\ router = "empty" => emitCh = 1 \/ emission = "current"

(* A router that (re)starts gets all routes again, although its start      *)
(* message may be lost, requests to emit are dropped while one waits and   *)
(* the emission of the moment began before the restart.                    *)
RestartedRouterRefilled ==
    router = "empty" ~> (router = "full" \/ stage \in Terminal)

(* No callback stays blocked on the unbuffered channel: Run, which greets, *)
(* sleeps and emits in between, receives every message that waits there,   *)
(* and one that cannot be parsed holds up none behind it, unless Run has   *)
(* returned and nothing reads the channel (routebroadcastscheduler.go:174).*)
CallbacksReturn ==
    answers # <<>> ~> (answers = <<>> \/ stage \in Terminal)

(* A signal ends Run in every stage, the greeting and the sleep included.  *)
StopsWhenTold == signalled ~> stage \in Terminal
================================================================================
