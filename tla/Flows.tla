------------------------------- MODULE Flows -------------------------------
(***************************************************************************)
(* FlowManager (api/src/flows.ts) in several processes, with its JobQueue, *)
(* the reload messages of FlowsService and OperationsService, and the      *)
(* synchronized clock (api/src/synchronization.ts) of one scheduled flow.  *)
(*                                                                         *)
(* The active flows are a version number of the tables directus_flows and  *)
(* directus_operations.  They are one event flow and one scheduled flow;   *)
(* the handlers of a version are registered in one go by load() and        *)
(* removed by unload(), which awaits the reset of the clock on its way.    *)
(***************************************************************************)
EXTENDS JobQueue

CONSTANTS
    Processes,
    SyncStore,    \* SYNCHRONIZATION_STORE: "redis", or "memory", each process its own
    Redis,
    MaxChanges,   \* bound: changes to the flows
    MaxTime,      \* bound: ticks of the scheduled flow's cron rule
    MaxFaults     \* bound: processes that stop, loads and unloads that reject

ASSUME StoreAssumption == SyncStore \in {"redis", "memory"} /\ Redis \notin Processes
ASSUME BoundAssumption ==
    MaxChanges \in Nat /\ MaxTime \in Nat \ {0} /\ MaxFaults \in Nat

VARIABLES
    table,      \* the version of the flows that is committed
    pending,    \* per process: changes it committed and has to announce
    unlinked,   \* per process: deleteMany calls that have unlinked the operations
    inbox,      \* per process: reload messages under way to it
    sub,        \* whether Redis knows of the process' subscription
    boot,       \* where initialize() stands
    job,        \* where the reload job stands
    queue,      \* reloadQueue
    loaded,     \* isLoaded
    got,        \* what each of the two loads has read
    handlers,   \* triggerHandlers: the versions they are of
    listeners,  \* the event handlers registered with the emitter
    timers,     \* the scheduled jobs: the tick each is due at
    calls,      \* callbacks of fired jobs that await clock.set()
    clock,      \* per store: the value of the clock's key, 0 when there is none
    now,        \* the tick it is
    faults,
    missed,     \* history: whether a change passed the process by
    taken       \* history: how often a tick was taken since the clock was reset

tickVars == <<timers, calls, clock, now, taken>>
handlerVars == <<loaded, handlers, listeners>>
loadVars == <<boot, job, queue, got>>
changeVars == <<table, pending, unlinked>>
vars == <<changeVars, inbox, sub, loadVars, handlerVars, tickVars, faults, missed>>

Loads == {"boot", "job"}

Alive(p) == boot[p] # "down"
HasRead(p) == boot[p] \in {"read", "up"}
Store(p) == IF SyncStore = "redis" THEN Redis ELSE p
Stores == {Store(p) : p \in Processes}
Ticks == 1..MaxTime
NoTicks == [t \in Ticks |-> 0]

TypeOK ==
    /\ table \in Nat
    /\ pending \in [Processes -> Nat]
    /\ unlinked \in [Processes -> Nat]
    /\ inbox \in [Processes -> Nat]
    /\ sub \in [Processes -> BOOLEAN]
    /\ boot \in [Processes -> {"down", "reading", "read", "up"}]
    /\ job \in [Processes -> {"none", "resetting", "clearing", "reading", "read", "ended", "rejected"}]
    /\ queue \in [Processes -> Queues({"reload"})]
    /\ loaded \in [Processes -> BOOLEAN]
    /\ got \in [Processes -> [Loads -> Nat]]
    /\ handlers \in [Processes -> Seq(Nat)]
    /\ listeners \in [Processes -> Seq(Nat)]
    /\ timers \in [Processes -> Seq(Nat \ {0})]
    /\ calls \subseteq [process : Processes, tick : Ticks]
    /\ clock \in [Stores -> Nat]
    /\ now \in Ticks
    /\ faults \in Nat
    /\ missed \in [Processes -> BOOLEAN]
    /\ taken \in [Stores -> [Ticks -> Nat]]

Init ==
    /\ table = 0
    /\ pending = [p \in Processes |-> 0]
    /\ unlinked = [p \in Processes |-> 0]
    /\ inbox = [p \in Processes |-> 0]
    /\ sub = [p \in Processes |-> FALSE]
    /\ boot = [p \in Processes |-> "down"]
    /\ job = [p \in Processes |-> "none"]
    /\ queue = [p \in Processes |-> Quiet]
    /\ loaded = [p \in Processes |-> FALSE]
    /\ got = [p \in Processes |-> [l \in Loads |-> 0]]
    /\ handlers = [p \in Processes |-> <<>>]
    /\ listeners = [p \in Processes |-> <<>>]
    /\ timers = [p \in Processes |-> <<>>]
    /\ calls = {}
    /\ clock = [s \in Stores |-> 0]
    /\ now = 1
    /\ faults = 0
    /\ missed = [p \in Processes |-> FALSE]
    /\ taken = [s \in Stores |-> NoTicks]

-----------------------------------------------------------------------------
(* Starting: the constructor subscribes to 'flows' without waiting for it, *)
(* and initialize() loads.                                                 *)

Start(p) ==
    /\ ~Alive(p)
    /\ boot' = [boot EXCEPT ![p] = "reading"]
    /\ UNCHANGED <<changeVars, inbox, sub, job, queue, got, handlerVars, tickVars,
                   faults, missed>>

Subscribe(p) ==
    /\ Alive(p) /\ ~sub[p]
    /\ sub' = [sub EXCEPT ![p] = TRUE]
    /\ UNCHANGED <<changeVars, inbox, loadVars, handlerVars, tickVars, faults, missed>>

-----------------------------------------------------------------------------
(* load(): getSchema(), then readByQuery(), then, without an await, the    *)
(* handlers of what was read.                                              *)

\* The query of a load reads the committed flows, so nothing is missed so far.
Reads(p, l) ==
    /\ got' = [got EXCEPT ![p][l] = table]
    /\ missed' = [missed EXCEPT ![p] = FALSE]
    /\ UNCHANGED <<changeVars, inbox, sub, queue, handlerVars, tickVars, faults>>

Registers(p, l) ==
    /\ handlers' = [handlers EXCEPT ![p] = Append(@, got[p][l])]
    /\ listeners' = [listeners EXCEPT ![p] = Append(@, got[p][l])]
    /\ timers' = [timers EXCEPT ![p] = Append(@, now + 1)]
    /\ loaded' = [loaded EXCEPT ![p] = TRUE]
    /\ UNCHANGED <<changeVars, inbox, sub, queue, got, calls, clock, now, taken,
                   faults, missed>>

BootRead(p) ==
    /\ boot[p] = "reading"
    /\ boot' = [boot EXCEPT ![p] = "read"]
    /\ Reads(p, "boot")
    /\ UNCHANGED job

BootRegister(p) ==
    /\ boot[p] = "read"
    /\ boot' = [boot EXCEPT ![p] = "up"]
    /\ Registers(p, "boot")
    /\ UNCHANGED job

JobRead(p) ==
    /\ job[p] = "reading"
    /\ job' = [job EXCEPT ![p] = "read"]
    /\ Reads(p, "job")
    /\ UNCHANGED boot

JobRegister(p) ==
    /\ job[p] = "read"
    /\ job' = [job EXCEPT ![p] = "ended"]
    /\ Registers(p, "job")
    /\ UNCHANGED boot

-----------------------------------------------------------------------------
(* unload(): the loop over triggerHandlers removes event handlers and      *)
(* stops jobs in the order of the flows, awaiting the reset of each clock. *)

\* job.cancel() is synchronous.  The event flow comes before the scheduled one
\* in triggerHandlers, or after it.
BeginUnload(p) ==
    /\ job' = [job EXCEPT ![p] = "resetting"]
    /\ timers' = [timers EXCEPT ![p] = <<>>]
    /\ \/ listeners' = [listeners EXCEPT ![p] = <<>>]
       \/ UNCHANGED listeners

\* clock.reset() deletes the key, whoever else keeps time by it.
ResetClock(p) ==
    /\ job[p] = "resetting"
    /\ job' = [job EXCEPT ![p] = "clearing"]
    /\ clock' = [clock EXCEPT ![Store(p)] = 0]
    /\ taken' = [taken EXCEPT ![Store(p)] = NoTicks]
    /\ UNCHANGED <<changeVars, inbox, sub, boot, queue, got, handlerVars, timers, calls,
                   now, faults, missed>>

EndUnload(p) ==
    /\ job[p] = "clearing"
    /\ job' = [job EXCEPT ![p] = "reading"]
    /\ handlers' = [handlers EXCEPT ![p] = <<>>]
    /\ listeners' = [listeners EXCEPT ![p] = <<>>]
    /\ loaded' = [loaded EXCEPT ![p] = FALSE]
    /\ UNCHANGED <<changeVars, inbox, sub, boot, queue, got, tickVars, faults, missed>>

-----------------------------------------------------------------------------
(* The reload messages.                                                    *)

\* Mutant of Deliver: the job does not ask whether the flows are loaded.
DeliverUnchecked(p) ==
    /\ Alive(p) /\ inbox[p] > 0
    /\ inbox' = [inbox EXCEPT ![p] = @ - 1]
    /\ queue' = [queue EXCEPT ![p] = Enqueue(@, "reload")]
    /\ \/ /\ RunsAtOnce(queue[p])
          /\ BeginUnload(p)
          /\ UNCHANGED missed
       \/ /\ ~RunsAtOnce(queue[p])
          /\ UNCHANGED <<job, listeners, timers, missed>>
    /\ UNCHANGED <<changeVars, sub, boot, got, loaded, handlers, calls, clock, now, taken,
                   faults>>

\* The message handler enqueues a reload, which runs at once when none runs.
\* One that finds the flows not loaded only warns, and has ended.
Deliver(p) ==
    /\ Alive(p) /\ inbox[p] > 0
    /\ inbox' = [inbox EXCEPT ![p] = @ - 1]
    /\ \/ /\ ~RunsAtOnce(queue[p])
          /\ queue' = [queue EXCEPT ![p] = Enqueue(@, "reload")]
          /\ UNCHANGED <<job, listeners, timers, missed>>
       \/ /\ RunsAtOnce(queue[p]) /\ loaded[p]
          /\ queue' = [queue EXCEPT ![p] = Enqueue(@, "reload")]
          /\ BeginUnload(p)
          /\ UNCHANGED missed
       \/ /\ RunsAtOnce(queue[p]) /\ ~loaded[p]
          /\ missed' = [missed EXCEPT ![p] = @ \/ HasRead(p)]
          /\ UNCHANGED <<queue, job, listeners, timers>>
    /\ UNCHANGED <<changeVars, sub, boot, got, loaded, handlers, calls, clock, now, taken,
                   faults>>

\* run() goes on after the job: flows are loaded now, so the next one unloads.
NextJob(p) ==
    /\ job[p] = "ended"
    /\ queue' = [queue EXCEPT ![p] = Continue(@)]
    /\ \/ /\ queue'[p].running
          /\ BeginUnload(p)
       \/ /\ ~queue'[p].running
          /\ job' = [job EXCEPT ![p] = "none"]
          /\ UNCHANGED <<listeners, timers>>
    /\ UNCHANGED <<changeVars, inbox, sub, boot, got, loaded, handlers, calls, clock, now,
                   taken, faults, missed>>

-----------------------------------------------------------------------------
(* FlowsService and OperationsService: super's mutation commits, then      *)
(* reload() publishes to every process that is subscribed.                 *)

\* What is committed and not announced passes by who has read the flows before.
PassesBy == missed' = [q \in Processes |-> missed[q] \/ HasRead(q)]

\* Mutant of Commit: a method that does not call reload().
CommitSilently(p) ==
    /\ boot[p] = "up" /\ table < MaxChanges
    /\ table' = table + 1
    /\ UNCHANGED <<pending, unlinked, inbox, sub, loadVars, handlerVars, tickVars, faults,
                   missed>>

Commit(p) ==
    /\ boot[p] = "up" /\ table < MaxChanges
    /\ table' = table + 1
    /\ pending' = [pending EXCEPT ![p] = @ + 1]
    /\ UNCHANGED <<unlinked, inbox, sub, loadVars, handlerVars, tickVars, faults, missed>>

\* A committed change that no reload() follows: this.cache.clear() rejects after
\* the transaction, or the rows were written by a plain ItemsService.
CommitUnannounced(p) ==
    /\ boot[p] = "up" /\ table < MaxChanges
    /\ table' = table + 1
    /\ PassesBy
    /\ UNCHANGED <<pending, unlinked, inbox, sub, loadVars, handlerVars, tickVars, faults>>

\* deleteMany of FlowsService first unlinks the operations of the flows, in a
\* statement of its own, which is committed and announced by nobody as yet.
Unlink(p) ==
    /\ boot[p] = "up" /\ table < MaxChanges
    /\ table' = table + 1
    /\ unlinked' = [unlinked EXCEPT ![p] = @ + 1]
    /\ PassesBy
    /\ UNCHANGED <<pending, inbox, sub, loadVars, handlerVars, tickVars, faults>>

\* super.deleteMany then commits the deletion, and the reload follows.
Delete(p) ==
    /\ unlinked[p] > 0 /\ table < MaxChanges
    /\ unlinked' = [unlinked EXCEPT ![p] = @ - 1]
    /\ table' = table + 1
    /\ pending' = [pending EXCEPT ![p] = @ + 1]
    /\ UNCHANGED <<inbox, sub, loadVars, handlerVars, tickVars, faults, missed>>

\* Or it throws: no access to one of the flows, a filter hook, the database.
DeleteThrows(p) ==
    /\ unlinked[p] > 0
    /\ unlinked' = [unlinked EXCEPT ![p] = @ - 1]
    /\ UNCHANGED <<table, pending, inbox, sub, loadVars, handlerVars, tickVars, faults,
                   missed>>

\* Mutant of Publish: a reload is announced that no change asked for.
PublishUnasked(p) ==
    /\ boot[p] = "up"
    /\ pending' = [pending EXCEPT ![p] = @ - 1]
    /\ inbox' = [q \in Processes |-> inbox[q] + (IF Alive(q) /\ sub[q] THEN 1 ELSE 0)]
    /\ missed' = [q \in Processes |-> missed[q] \/ (HasRead(q) /\ ~sub[q])]
    /\ UNCHANGED <<table, unlinked, sub, loadVars, handlerVars, tickVars, faults>>

Publish(p) ==
    /\ pending[p] > 0
    /\ pending' = [pending EXCEPT ![p] = @ - 1]
    /\ inbox' = [q \in Processes |-> inbox[q] + (IF Alive(q) /\ sub[q] THEN 1 ELSE 0)]
    /\ missed' = [q \in Processes |-> missed[q] \/ (HasRead(q) /\ ~sub[q])]
    /\ UNCHANGED <<table, unlinked, sub, loadVars, handlerVars, tickVars, faults>>

-----------------------------------------------------------------------------
(* scheduleSynchronizedJob().                                              *)

Tick ==
    /\ now < MaxTime
    /\ now' = now + 1
    /\ UNCHANGED <<changeVars, inbox, sub, loadVars, handlerVars, timers, calls, clock,
                   taken, faults, missed>>

\* A job fires, on time or late, and is scheduled for the tick after.
Fire(p) ==
    \E i \in DOMAIN timers[p] :
        /\ timers[p][i] <= now
        /\ timers' = [timers EXCEPT ![p][i] = @ + 1]
        /\ calls' = calls \cup {[process |-> p, tick |-> timers[p][i]]}
        /\ UNCHANGED <<changeVars, inbox, sub, loadVars, handlerVars, clock, now, taken,
                       faults, missed>>

\* Mutant of SetGreaterThan: < for <=.
SetGreaterOrEqual(s, value) == value >= clock[s]

\* setGreaterThan: whether the key is set, atomically, in Redis or in memory.
SetGreaterThan(s, value) == value > clock[s]

\* nextInvocation() is the tick after the one that fired.  The flow runs only
\* when the clock was set to it.
SetClock(c) ==
    LET s == Store(c.process) IN
    /\ c \in calls
    /\ calls' = calls \ {c}
    /\ \/ /\ SetGreaterThan(s, c.tick + 1)
          /\ clock' = [clock EXCEPT ![s] = c.tick + 1]
          /\ taken' = [taken EXCEPT ![s][c.tick] = @ + 1]
       \/ /\ ~SetGreaterThan(s, c.tick + 1)
          /\ UNCHANGED <<clock, taken>>
    /\ UNCHANGED <<changeVars, inbox, sub, loadVars, handlerVars, timers, now, faults,
                   missed>>

-----------------------------------------------------------------------------
(* Failures.                                                               *)

InMemoryOf(p, s) == SyncStore = "memory" /\ s = p

\* The process ends: what it holds in memory is gone, with a clock kept there,
\* and what it committed and had to announce is never announced.
Stops(p) ==
    /\ boot' = [boot EXCEPT ![p] = "down"]
    /\ job' = [job EXCEPT ![p] = "none"]
    /\ queue' = [queue EXCEPT ![p] = Quiet]
    /\ got' = [got EXCEPT ![p] = [l \in Loads |-> 0]]
    /\ loaded' = [loaded EXCEPT ![p] = FALSE]
    /\ handlers' = [handlers EXCEPT ![p] = <<>>]
    /\ listeners' = [listeners EXCEPT ![p] = <<>>]
    /\ timers' = [timers EXCEPT ![p] = <<>>]
    /\ calls' = {c \in calls : c.process # p}
    /\ sub' = [sub EXCEPT ![p] = FALSE]
    /\ inbox' = [inbox EXCEPT ![p] = 0]
    /\ pending' = [pending EXCEPT ![p] = 0]
    /\ unlinked' = [unlinked EXCEPT ![p] = 0]
    /\ missed' = [q \in Processes |-> missed[q] \/ (q # p /\ HasRead(q) /\ pending[p] > 0)]
    /\ clock' = [s \in Stores |-> IF InMemoryOf(p, s) THEN 0 ELSE clock[s]]
    /\ taken' = [s \in Stores |-> IF InMemoryOf(p, s) THEN NoTicks ELSE taken[s]]
    /\ UNCHANGED <<table, now>>

Crash(p) ==
    /\ Alive(p) /\ faults < MaxFaults
    /\ faults' = faults + 1
    /\ Stops(p)

\* The database rejects the query of initialize(): createApp() rejects.
BootFails(p) ==
    /\ boot[p] = "reading" /\ faults < MaxFaults
    /\ faults' = faults + 1
    /\ Stops(p)

\* Redis rejects the reset, or the database the query: the job rejects, and with
\* it run(), whose promise nobody holds.  Node ends the process, unless what
\* hosts it handles unhandled rejections: then no later job is ever run.
JobFails(p) ==
    /\ job[p] \in {"resetting", "reading"} /\ faults < MaxFaults
    /\ faults' = faults + 1
    /\ \/ Stops(p)
       \/ /\ job' = [job EXCEPT ![p] = "rejected"]
          /\ UNCHANGED <<changeVars, inbox, sub, boot, queue, got, handlerVars, tickVars, missed>>

-----------------------------------------------------------------------------

Works(p) ==
    \/ Subscribe(p) \/ BootRead(p) \/ BootRegister(p)
    \/ Deliver(p) \/ NextJob(p) \/ ResetClock(p) \/ EndUnload(p)
    \/ JobRead(p) \/ JobRegister(p) \/ Publish(p)

Changes(p) ==
    \/ Commit(p) \/ CommitUnannounced(p) \/ Unlink(p) \/ Delete(p) \/ DeleteThrows(p)

Fails(p) == Crash(p) \/ BootFails(p) \/ JobFails(p)

Next ==
    \/ \E p \in Processes : Start(p) \/ Works(p) \/ Changes(p) \/ Fire(p) \/ Fails(p)
    \/ \E c \in calls : SetClock(c)
    \/ Tick

Fairness == \A p \in Processes :
    /\ WF_vars(Subscribe(p)) /\ WF_vars(BootRead(p)) /\ WF_vars(BootRegister(p))
    /\ WF_vars(Deliver(p)) /\ WF_vars(NextJob(p)) /\ WF_vars(Publish(p))
    /\ WF_vars(ResetClock(p)) /\ WF_vars(EndUnload(p))
    /\ WF_vars(JobRead(p)) /\ WF_vars(JobRegister(p))

Spec == Init /\ [][Next]_vars /\ Fairness

-----------------------------------------------------------------------------
(* Properties.                                                             *)

\* A process handles an event, and a tick, by one generation of flows: neither
\* a reload that overtakes initialize() nor two reloads register a second one.
OneGeneration == \A p \in Processes :
    Len(listeners[p]) <= 1 /\ Len(timers[p]) <= 1 /\ Len(handlers[p]) <= 1

\* No reload of p is under way or about to come.
Settled(p) ==
    /\ boot[p] = "up" /\ job[p] = "none" /\ inbox[p] = 0
    /\ \A q \in Processes : pending[q] = 0

\* A process without a reload to do runs the committed flows, whatever was
\* changed while it started, reloaded or unlinked operations.  Passed by, until it
\* reads again, are only changes announced between the query of its first load
\* and its registration or subscription, those whose process ended before it
\* announced them, and those the service announces to nobody: PassesBy.
HandlersCurrent == \A p \in Processes :
    Settled(p) /\ ~missed[p] =>
        handlers[p] = <<table>> /\ listeners[p] = <<table>> /\ Len(timers[p]) = 1

\* Between two resets of the clock no tick of the flow is taken twice by the
\* processes that share the store, however late their timers fire.
Once == INSTANCE OncePerTick WITH Ticks <- Ticks, Stores <- Stores, taken <- taken
TickOnce == Once!Spec

\* Every reload message leads to a reload that ends, unless one rejects or the
\* process stops: no job is left waiting in the queue.
Drained(p) == inbox[p] = 0 /\ ~Waiting(queue[p]) /\ job[p] = "none"
ReloadsEnd == \A p \in Processes :
    inbox[p] > 0 ~> (Drained(p) \/ job[p] = "rejected" \/ ~Alive(p))
=============================================================================
