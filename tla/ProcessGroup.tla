------------------------------ MODULE ProcessGroup ------------------------------
(***************************************************************************)
(* The process of cmd/route-emitter/main.go: an ordered group of members   *)
(* that are started one after the other, each when the one before it is    *)
(* ready, and stopped in the reverse order.  The members are seen through  *)
(* what their Run does to readiness, to the NATS connection, to the lock   *)
(* and to the channel from the syncer to the watcher.                      *)
(*                                                                         *)
(* The ordered group (ifrit), the lock runner (locket) and the health      *)
(* check server are external.                                              *)
(***************************************************************************)
EXTENDS Naturals, Sequences, Functions

CONSTANTS
    LocalMode,              \* cfg.CellID is set: no lock
    EnableInternalEmitter

ASSUME ModesAssumption == LocalMode \in BOOLEAN /\ EnableInternalEmitter \in BOOLEAN

VARIABLES
    proc,       \* a member is "off", "starting", "up" or "exited"
    group,      \* the group is "starting", "running" or "stopping"
    told,       \* members that have been sent a signal
    conn,       \* natsClient.Conn: "nil", "open", "closed" by Close, or "dropped"
    lock,       \* the lock is "free", held by an "other" or as "mine", or "lost"
    syncCh,     \* messages in syncCh, at most one
    sending,    \* the syncer is in sync()
    handling    \* the watcher is in a case of its select

groupVars == <<proc, group, told, conn, lock, syncCh, sending, handling>>
work == <<syncCh, sending, handling>>

(* Mutants of Members: the watcher ahead of the lock; NATS after its users. *)
MembersLockLast ==
    <<"nats-client", "healthcheck", "unregistration", "watcher">>
    \o (IF LocalMode THEN <<>> ELSE <<"lock">>)
    \o <<"external-scheduler", "syncer">>
    \o (IF EnableInternalEmitter THEN <<"internal-scheduler">> ELSE <<>>)

MembersNatsLate ==
    <<"healthcheck", "unregistration", "nats-client">>
    \o (IF LocalMode THEN <<>> ELSE <<"lock">>)
    \o <<"watcher", "external-scheduler", "syncer">>
    \o (IF EnableInternalEmitter THEN <<"internal-scheduler">> ELSE <<>>)

Members ==
    <<"nats-client", "healthcheck", "unregistration">>
    \o (IF LocalMode THEN <<>> ELSE <<"lock">>)
    \o <<"watcher", "external-scheduler", "syncer">>
    \o (IF EnableInternalEmitter THEN <<"internal-scheduler">> ELSE <<>>)

Names == Range(Members)

(* Members that call the NATS client: the sender and the watcher through   *)
(* the emitter, the schedulers themselves.                                 *)
NatsUsers ==
    Names \cap {"unregistration", "watcher", "external-scheduler", "internal-scheduler"}

Alive(n) == proc[n] \in {"starting", "up"}

GroupInit ==
    /\ proc = [n \in Names |-> "off"]
    /\ group = "starting"
    /\ told = {}
    /\ conn = "nil"
    /\ lock \in {"free", "other"}
    /\ syncCh = 0 /\ sending = FALSE /\ handling = FALSE

--------------------------------------------------------------------------------
(* The ordered group. *)

Start(i) ==
    /\ group = "starting"
    /\ proc[Members[i]] = "off"
    /\ \A j \in 1..(i - 1) : proc[Members[j]] = "up"
    /\ proc' = [proc EXCEPT ![Members[i]] = "starting"]
    /\ UNCHANGED <<group, told, conn, lock, work>>

Started ==
    /\ group = "starting"
    /\ \A n \in Names : proc[n] = "up"
    /\ group' = "running"
    /\ UNCHANGED <<proc, told, conn, lock, work>>

(* A member exited, or the process was told to stop. *)
BeginStop ==
    /\ group # "stopping"
    /\ group' = "stopping"
    /\ UNCHANGED <<proc, told, conn, lock, work>>

(* Mutant of MayStop: members are stopped in the order of their start. *)
MayStopForward(i) == \A j \in 1..(i - 1) : ~Alive(Members[j])

MayStop(i) == \A j \in (i + 1)..Len(Members) : ~Alive(Members[j])

SignalMember(i) ==
    /\ group = "stopping"
    /\ Alive(Members[i])
    /\ Members[i] \notin told
    /\ MayStop(i)
    /\ told' = told \cup {Members[i]}
    /\ UNCHANGED <<proc, group, conn, lock, work>>

--------------------------------------------------------------------------------
(* The members. *)

Ready(n) ==
    /\ proc[n] = "starting"
    /\ proc' = [proc EXCEPT ![n] = "up"]

Exit(n) ==
    /\ Alive(n)
    /\ proc' = [proc EXCEPT ![n] = "exited"]

(* NATSClientRunner. *)

(* Mutant of StopNats: an unexpected close goes unnoticed. *)
StopNatsWhenTold ==
    /\ proc["nats-client"] = "up"
    /\ Exit("nats-client")
    /\ "nats-client" \in told
    /\ conn' = "closed"
    /\ UNCHANGED <<group, told, lock, work>>

Connect ==
    /\ Ready("nats-client")
    /\ conn' = "open"
    /\ UNCHANGED <<group, told, lock, work>>

ConnectFails ==
    /\ proc["nats-client"] = "starting"
    /\ Exit("nats-client")
    /\ UNCHANGED <<group, told, conn, lock, work>>

ConnDrops ==
    /\ conn = "open"
    /\ conn' = "dropped"
    /\ UNCHANGED <<proc, group, told, lock, work>>

StopNats ==
    /\ proc["nats-client"] = "up"
    /\ Exit("nats-client")
    /\ \/ "nats-client" \in told /\ conn' = "closed"
       \/ conn = "dropped" /\ UNCHANGED conn
    /\ UNCHANGED <<group, told, lock, work>>

(* The lock runner waits for the lock and fails when it loses it.          *)
(* Another instance of the process takes a lock that is free.              *)
LockAcquired ==
    /\ lock = "free"
    /\ Ready("lock")
    /\ lock' = "mine"
    /\ UNCHANGED <<group, told, conn, work>>

LockLost ==
    /\ lock = "mine"
    /\ lock' = "lost"
    /\ UNCHANGED <<proc, group, told, conn, work>>

OtherInstance ==
    /\ lock \in {"free", "other"}
    /\ lock' = IF lock = "free" THEN "other" ELSE "free"
    /\ UNCHANGED <<proc, group, told, conn, work>>

StopLock ==
    /\ "lock" \in told \/ lock = "lost"
    /\ Exit("lock")
    /\ lock' = IF lock = "mine" THEN "free" ELSE lock
    /\ UNCHANGED <<group, told, conn, work>>

(* Members that are ready at once. *)
ReadyAtOnce(n) ==
    /\ n \in {"healthcheck", "unregistration", "watcher"}
    /\ Ready(n)
    /\ UNCHANGED <<group, told, conn, lock, work>>

(* The schedulers are ready when their external service has answered. *)
Greeted(n) ==
    /\ n \in {"external-scheduler", "internal-scheduler"}
    /\ Ready(n)
    /\ UNCHANGED <<group, told, conn, lock, work>>

(* The port is taken, or the external service never answers. *)
FailsToStart(n) ==
    /\ n \in {"healthcheck", "external-scheduler", "internal-scheduler"}
    /\ proc[n] = "starting"
    /\ Exit(n)
    /\ UNCHANGED <<group, told, conn, lock, work>>

(* The syncer is ready, then in its first sync().  A sync() blocks while   *)
(* syncCh is full.                                                         *)
SyncerReady ==
    /\ Ready("syncer")
    /\ sending' = TRUE
    /\ UNCHANGED <<group, told, conn, lock, syncCh, handling>>

SyncTick ==
    /\ proc["syncer"] = "up"
    /\ ~sending
    /\ sending' = TRUE
    /\ UNCHANGED <<proc, group, told, conn, lock, syncCh, handling>>

Sync ==
    /\ proc["syncer"] = "up"
    /\ sending
    /\ syncCh = 0
    /\ syncCh' = 1
    /\ sending' = FALSE
    /\ UNCHANGED <<proc, group, told, conn, lock, handling>>

(* The watcher takes a message of syncCh, or an event or a request to      *)
(* emit, and is back in its select when the handler returns.               *)
WatcherTakes ==
    /\ proc["watcher"] = "up"
    /\ ~handling
    /\ handling' = TRUE
    /\ syncCh' \in {0, syncCh}
    /\ UNCHANGED <<proc, group, told, conn, lock, sending>>

WatcherReturns ==
    /\ handling
    /\ handling' = FALSE
    /\ UNCHANGED <<proc, group, told, conn, lock, syncCh, sending>>

(* A signal is seen in the member's select. *)
StopMember(n) ==
    /\ n \in told \ {"nats-client", "lock"}
    /\ n = "watcher" => proc[n] = "up" /\ ~handling
    /\ n = "syncer" => proc[n] = "up" /\ ~sending
    /\ n = "unregistration" => proc[n] = "up"
    /\ Exit(n)
    /\ UNCHANGED <<group, told, conn, lock, work>>

--------------------------------------------------------------------------------

GroupStep ==
    \/ \E i \in DOMAIN Members : Start(i) \/ SignalMember(i)
    \/ Started

(* A member that exited before the group stops makes it stop. *)
NoticeExit == (\E n \in Names : proc[n] = "exited") /\ BeginStop

NatsStep == Connect \/ ConnectFails \/ StopNats

LockStep == "lock" \in Names /\ (LockAcquired \/ StopLock)

MemberStep(n) == ReadyAtOnce(n) \/ Greeted(n) \/ FailsToStart(n) \/ StopMember(n)

SyncerStep == SyncerReady \/ Sync

Environment ==
    \/ ConnDrops
    \/ ~LocalMode /\ (LockLost \/ OtherInstance)
    \/ SyncTick

GroupNext ==
    \/ GroupStep \/ NoticeExit \/ BeginStop
    \/ NatsStep \/ LockStep
    \/ \E n \in Names : MemberStep(n)
    \/ SyncerStep \/ WatcherTakes \/ WatcherReturns
    \/ Environment

GroupSpec == GroupInit /\ [][GroupNext]_groupVars

(* Each member is a goroutine; a select that a signal and other work       *)
(* compete for takes the signal in the end (strong fairness), and the      *)
(* watcher likewise takes a message of syncCh.                             *)
FairGroupSpec ==
    /\ GroupSpec
    /\ WF_groupVars(GroupStep) /\ WF_groupVars(NoticeExit)
    /\ WF_groupVars(NatsStep) /\ WF_groupVars(LockStep)
    /\ \A n \in Names : SF_groupVars(MemberStep(n))
    /\ WF_groupVars(SyncerStep) /\ WF_groupVars(WatcherReturns)
    /\ SF_groupVars(WatcherTakes /\ syncCh' = 0)

--------------------------------------------------------------------------------
(* Properties. *)

(* No member uses the NATS client before Connect has set its connection,   *)
(* when it is nil, or after the runner closed it: the client starts before *)
(* its users and stops after them (main.go:146-192).                       *)
ConnectionOutlivesUsers ==
    (\E n \in NatsUsers : Alive(n)) => conn \in {"open", "dropped"}

(* A process that is not local watches and emits only under the lock: the  *)
(* lock is acquired before the watcher starts and given back after it has  *)
(* exited.  Only losing the lock leaves a window.                          *)
LockOutlivesWatcher ==
    ~LocalMode /\ Alive("watcher") => lock \in {"mine", "lost"}

(* Stopping ends: every member exits, also a syncer that blocks in sync()  *)
(* while the watcher handles an event (syncer.go:62), and also when the    *)
(* group was stopped while it was starting.                                *)
ShutdownCompletes == group = "stopping" ~> \A n \in Names : ~Alive(n)

(* A process that lost the lock or its NATS connection exits, and so does  *)
(* one with a member that returned: a scheduler that gave up its greeting  *)
(* (routebroadcastscheduler.go:81) does not leave the others running.      *)
FailureEndsProcess ==
    (lock = "lost" \/ conn = "dropped" \/ \E n \in Names : proc[n] = "exited")
        ~> \A n \in Names : ~Alive(n)
================================================================================
