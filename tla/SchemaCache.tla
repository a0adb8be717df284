----------------------------- MODULE SchemaCache -----------------------------
(***************************************************************************)
(* getSchema() of the API (api/src/utils/get-schema.ts) with the two-level *)
(* schema cache (api/src/cache.ts), the shared lock counter               *)
(* (api/src/lock, packages/memory kv on Redis) and the message bus         *)
(* (api/src/bus, packages/memory bus on Redis), run by several processes.  *)
(*                                                                         *)
(* A schema is read by several queries, one after the other and in no      *)
(* transaction, so it may mix versions of the database.  It is abstracted  *)
(* to the versions its first and its last query saw; its hash is the same  *)
(* record, and Absent stands for `undefined`.                              *)
(*                                                                         *)
(* One invocation of getSchema is a FRAME.  The callback of a waiting      *)
(* frame invokes getSchema again with attempt + 1, so frames form trees: a *)
(* frame is named by its path, <<call>> for the caller's own invocation    *)
(* and Append(f, i) for the one started by the i-th callback of f.         *)
(***************************************************************************)
EXTENDS Integers, Sequences, FiniteSets

CONSTANTS
    Procs,          \* the node processes that share Redis and the database
    Calls,          \* the callers' invocations of getSchema, each made once
    Home,           \* the process each call is made in
    Bypass,         \* the calls made with bypassCache
    Migrator,       \* the process that changes the database schema
    MaxAttempts,    \* MAX_ATTEMPTS of getSchema
    MaxIterations,  \* CACHE_SCHEMA_MAX_ITERATIONS
    MaxVersion,     \* bound: the database schema changes MaxVersion - 1 times
    MaxFaults       \* bound: how many faults of each kind happen

ASSUME HomeAssumption == Home \in [Calls -> Procs]
ASSUME MigratorAssumption == Migrator \in Procs
ASSUME BypassAssumption == Bypass \subseteq Calls
Faults == {"crash",    \* a process dies (and restarts at once)
           "failure",  \* reading the database throws
           "slow"}     \* a timer of 10 s goes off while others still work

ASSUME BoundAssumption ==
    /\ MaxAttempts \in Nat \ {0}
    /\ MaxIterations \in Nat \ {0}
    /\ MaxVersion \in Nat \ {0}
    /\ MaxFaults \in [Faults -> Nat]

VARIABLES
    db,          \* version of the database's schema
    sharedHash,  \* 'hash' in sharedSchemaCache
    localSchema, \* 'schema' in each process's localSchemaCache
    localHash,   \* 'hash' in each process's localSchemaCache
    lock,        \* the counter 'schemaCache--preparing'; 0 when deleted
    frame,       \* the live invocations: a function from paths to records
    channel,     \* each process's Redis subscription to 'schemaCache--done'
    inbox,       \* messages on their way to each process
    status,      \* what became of each call
    migration,   \* where the schema change in progress stands
    faults,      \* how many faults of each kind happened so far
    taken        \* history: the schema each process last took into use

vars == <<db, sharedHash, localSchema, localHash, lock, frame, channel, inbox,
          status, migration, faults, taken>>
store == <<sharedHash, localSchema, localHash, taken>>
bus == <<channel, inbox>>
env == <<db, migration, faults>>

Version == 0 .. MaxVersion
Schema == [from : Version, upto : Version]
Stretch(v, w) == [from |-> v, upto |-> w]
Absent == Stretch(0, 0)

Pcs == {"loop", "bypass", "bypassRest", "sharedHash", "localHash", "localSchema",
        "increment", "reset", "subscribe", "waiting", "read", "readRest",
        "setSharedHash", "setLocalSchema", "setLocalHash", "release", "publish"}

Outcomes == {"ok", "failed", "loop"}

(* call: the caller's invocation this frame works for; pid: the processId  *)
(* it drew from the lock; seen: the hash or schema it holds; fired: how    *)
(* often its callback ran; out: how it ends.                               *)
Path == Seq(Calls \cup Nat)
Frame == [call : Calls, attempt : Nat, pc : Pcs, pid : Nat, seen : Schema,
          fired : Nat, out : Outcomes]

\* getSchema(options, attempt): the attempt limit, the bypass, the cache.
Entry(c, attempt) ==
    CASE attempt >= MaxAttempts -> "loop"
      [] attempt < MaxAttempts /\ c \in Bypass -> "bypass"
      [] attempt < MaxAttempts /\ c \notin Bypass -> "sharedHash"

NewFrame(c, attempt) ==
    [call |-> c, attempt |-> attempt, pc |-> Entry(c, attempt),
     pid |-> 0, seen |-> Absent, fired |-> 0, out |-> "ok"]

Live == DOMAIN frame
At(f, pc) == f \in Live /\ frame[f].pc = pc
Proc(f) == Home[frame[f].call]
Waiting(p) == {f \in Live : frame[f].pc = "waiting" /\ Proc(f) = p}

Fault(kind) ==
    /\ faults[kind] < MaxFaults[kind]
    /\ faults' = [faults EXCEPT ![kind] = @ + 1]

Goto(f, pc) == frame' = [frame EXCEPT ![f].pc = pc]
GotoWith(f, pc, v) == frame' = [frame EXCEPT ![f].pc = pc, ![f].seen = v]

Init ==
    /\ db = 1
    /\ sharedHash = Absent
    /\ localSchema = [p \in Procs |-> Absent]
    /\ localHash = [p \in Procs |-> Absent]
    /\ lock = 0
    /\ frame = [f \in {} |-> NewFrame(f, 0)]
    /\ channel = [p \in Procs |-> "off"]
    /\ inbox = [p \in Procs |-> 0]
    /\ status = [c \in Calls |-> "idle"]
    /\ migration = "none"
    /\ faults = [k \in Faults |-> 0]
    /\ taken = [p \in Procs |-> Absent]

-----------------------------------------------------------------------------
(* How a frame ends.  Its promise settles: the callback that awaits it     *)
(* settles the waiting frame above and, in its finally, unsubscribes that  *)
(* frame's handler, and so on up to the caller.  Between two of these      *)
(* there is no I/O, so they are one step.  A frame that settled before     *)
(* is not live any more, and neither is any frame above it.                *)

Above(f) ==
    {g \in Live : /\ frame[g].pc = "waiting"
                  /\ \E n \in 1 .. Len(f) - 1 : g = SubSeq(f, 1, n)}

\* Mutant of Settle: the callback forgets to resolve the promise above.
SettleAlone(f, out) ==
    /\ frame' = [g \in Live \ {f} |-> frame[g]]
    /\ status' = IF <<frame[f].call>> = f
                 THEN [status EXCEPT ![frame[f].call] = out]
                 ELSE status

Settle(f, out) ==
    LET ended == {f} \cup Above(f) IN
    /\ frame' = [g \in Live \ ended |-> frame[g]]
    /\ status' = IF <<frame[f].call>> \in ended
                 THEN [status EXCEPT ![frame[f].call] = out]
                 ELSE status

\* BusRedis.unsubscribe: the last handler of a process drops its subscription.
Unsubscribe(f) ==
    channel' = IF Above(f) # {} /\ Waiting(Proc(f)) \subseteq Above(f)
               THEN [channel EXCEPT ![Proc(f)] = "off"]
               ELSE channel

Return(f, out) == Settle(f, out) /\ Unsubscribe(f)

-----------------------------------------------------------------------------
(* The steps of getSchema.                                                 *)

\* A caller invokes getSchema(options).
Call(c) ==
    /\ status[c] = "idle"
    /\ status' = [status EXCEPT ![c] = "running"]
    /\ frame' = [g \in Live \cup {<<c>>} |->
                    IF g \in Live THEN frame[g] ELSE NewFrame(c, 0)]
    /\ UNCHANGED <<store, lock, bus, env>>

\* attempt >= MAX_ATTEMPTS: "hit infinite loop".
GiveUp(f) ==
    /\ At(f, "loop")
    /\ Return(f, "loop")
    /\ UNCHANGED <<store, lock, inbox, env>>

\* bypassCache or CACHE_SCHEMA=false: getDatabaseSchema at once, from its
\* first query to its last, and nothing is stored.
ReadBypass(f) ==
    /\ At(f, "bypass")
    /\ \/ Goto(f, "bypassRest") /\ UNCHANGED <<status, channel, faults>>
       \/ Fault("failure") /\ Return(f, "failed")
    /\ UNCHANGED <<store, lock, inbox, db, migration>>

ReadBypassRest(f) ==
    /\ At(f, "bypassRest")
    /\ \/ Return(f, "ok") /\ UNCHANGED faults
       \/ Fault("failure") /\ Return(f, "failed")
    /\ UNCHANGED <<store, lock, inbox, db, migration>>

\* getSchemaCache: the shared hash ...
GetSharedHash(f) ==
    /\ At(f, "sharedHash")
    /\ IF sharedHash = Absent
       THEN Goto(f, "increment")
       ELSE GotoWith(f, "localHash", sharedHash)
    /\ UNCHANGED <<store, lock, bus, status, env>>

\* ... the process's own hash, which must agree ...
GetLocalHash(f) ==
    /\ At(f, "localHash")
    /\ Goto(f, IF localHash[Proc(f)] = frame[f].seen THEN "localSchema" ELSE "increment")
    /\ UNCHANGED <<store, lock, bus, status, env>>

\* ... and the process's own schema.
GetLocalSchema(f) ==
    LET schema == localSchema[Proc(f)] IN
    /\ At(f, "localSchema")
    /\ \/ /\ schema = Absent
          /\ Goto(f, "increment")
          /\ UNCHANGED <<bus, status, taken>>
       \/ /\ schema # Absent
          /\ Return(f, "ok")
          /\ taken' = [taken EXCEPT ![Proc(f)] = schema]
          /\ UNCHANGED inbox
    /\ UNCHANGED <<sharedHash, localSchema, localHash, lock, env>>

\* Mutant of Role: off by one.
RoleOffByOne(pid) == IF pid <= 2 THEN "read" ELSE "subscribe"

\* What a processId drawn from the lock counter leads to.
Role(pid) == IF pid = 1 THEN "read" ELSE "subscribe"

\* lock.increment: KvRedis increments atomically.
Increment(f) ==
    /\ At(f, "increment")
    /\ lock' = lock + 1
    /\ frame' = [frame EXCEPT
                    ![f].pid = lock + 1,
                    ![f].pc = IF lock + 1 >= MaxIterations
                              THEN "reset" ELSE Role(lock + 1)]
    /\ UNCHANGED <<store, bus, status, env>>

\* lock.delete by a process that drew MaxIterations or more.
Reset(f) ==
    /\ At(f, "reset")
    /\ lock' = 0
    /\ Goto(f, Role(frame[f].pid))
    /\ UNCHANGED <<store, bus, status, env>>

\* Another process prepares the cache: arm the timer, subscribe.  The first
\* handler of a process sends SUBSCRIBE to Redis.
Subscribe(f) ==
    /\ At(f, "subscribe")
    /\ Goto(f, "waiting")
    /\ channel' = IF channel[Proc(f)] = "off"
                  THEN [channel EXCEPT ![Proc(f)] = "pending"] ELSE channel
    /\ UNCHANGED <<store, lock, inbox, status, env>>

\* The callback of every frame in F runs: it clears the timer and invokes
\* getSchema(options, attempt + 1).  The handler stays registered.
Child(f) == Append(f, frame[f].fired + 1)

RunCallbacks(F) ==
    frame' = [g \in Live \cup {Child(f) : f \in F} |->
                IF g \in F THEN [frame[g] EXCEPT !.fired = @ + 1]
                ELSE IF g \in Live THEN frame[g]
                ELSE LET f == CHOOSE f \in F : g = Child(f)
                     IN NewFrame(frame[f].call, frame[f].attempt + 1)]

\* The timer of a waiting frame fires; it is armed until the first callback.
\* Unless something is slow, everything that can happen before does.
Quiet ==
    /\ \A f \in Live : frame[f].pc = "waiting"
    /\ \A p \in Procs : inbox[p] = 0 /\ channel[p] # "pending"

\* Mutant of Timeout: the timer is armed by the first callback only.
TimeoutUnarmed(f) ==
    /\ At(f, "waiting") /\ frame[f].fired > 0 /\ Quiet
    /\ RunCallbacks({f})
    /\ UNCHANGED <<store, lock, bus, status, env>>

Timeout(f) ==
    /\ At(f, "waiting")
    /\ frame[f].fired = 0
    /\ RunCallbacks({f})
    /\ \/ Quiet /\ UNCHANGED faults
       \/ ~Quiet /\ Fault("slow")
    /\ UNCHANGED <<store, lock, bus, status, db, migration>>

\* Mutant of ReadDatabase: an error leaves without the finally.
ReadDatabaseNoFinally(f) ==
    /\ At(f, "read")
    /\ \/ GotoWith(f, "readRest", Stretch(db, db)) /\ UNCHANGED <<bus, status, faults>>
       \/ Fault("failure") /\ Return(f, "failed") /\ UNCHANGED inbox
    /\ UNCHANGED <<store, lock, db, migration>>

\* getDatabaseSchema by the builder begins with the overview of the tables ...
ReadDatabase(f) ==
    /\ At(f, "read")
    /\ \/ GotoWith(f, "readRest", Stretch(db, db)) /\ UNCHANGED faults
       \/ /\ Fault("failure")
          /\ frame' = [frame EXCEPT ![f].pc = "release", ![f].out = "failed"]
    /\ UNCHANGED <<store, lock, bus, status, db, migration>>

\* ... and ends, some queries later, with the relations.  The database may
\* have changed in between.  An error of any of them goes to the finally.
ReadRest(f) ==
    /\ At(f, "readRest")
    /\ \/ GotoWith(f, "setSharedHash", Stretch(frame[f].seen.from, db)) /\ UNCHANGED faults
       \/ /\ Fault("failure")
          /\ frame' = [frame EXCEPT ![f].pc = "release", ![f].out = "failed"]
    /\ UNCHANGED <<store, lock, bus, status, db, migration>>

\* setSchemaCache: the shared hash, then the process's schema, then its hash.
SetSharedHash(f) ==
    /\ At(f, "setSharedHash")
    /\ sharedHash' = frame[f].seen
    /\ Goto(f, "setLocalSchema")
    /\ UNCHANGED <<localSchema, localHash, taken, lock, bus, status, env>>

SetLocalSchema(f) ==
    /\ At(f, "setLocalSchema")
    /\ localSchema' = [localSchema EXCEPT ![Proc(f)] = frame[f].seen]
    /\ Goto(f, "setLocalHash")
    /\ UNCHANGED <<sharedHash, localHash, taken, lock, bus, status, env>>

SetLocalHash(f) ==
    /\ At(f, "setLocalHash")
    /\ localHash' = [localHash EXCEPT ![Proc(f)] = frame[f].seen]
    /\ taken' = [taken EXCEPT ![Proc(f)] = frame[f].seen]
    /\ Goto(f, "release")
    /\ UNCHANGED <<sharedHash, localSchema, lock, bus, status, env>>

\* finally: lock.delete, whoever the lock belongs to by now ...
Release(f) ==
    /\ At(f, "release")
    /\ lock' = 0
    /\ Goto(f, "publish")
    /\ UNCHANGED <<store, bus, status, env>>

\* ... and bus.publish, which reaches the subscriptions Redis knows of.
Publish(f) ==
    /\ At(f, "publish")
    /\ inbox' = [p \in Procs |-> IF channel[p] = "on" THEN inbox[p] + 1 ELSE inbox[p]]
    /\ Return(f, frame[f].out)
    /\ UNCHANGED <<store, lock, env>>

-----------------------------------------------------------------------------
(* The bus, the schema changes and the crashes.                            *)

\* Redis has processed a SUBSCRIBE.
Subscribed(p) ==
    /\ channel[p] = "pending"
    /\ channel' = [channel EXCEPT ![p] = "on"]
    /\ UNCHANGED <<store, lock, frame, inbox, status, env>>

\* Mutant of Deliver: callbacks run whether or not a message arrived.
DeliverUnasked(p) ==
    /\ inbox' = [inbox EXCEPT ![p] = @ - 1]
    /\ RunCallbacks(Waiting(p))
    /\ UNCHANGED <<store, lock, channel, status, env>>

\* messageBufferHandler runs the callbacks registered when it is delivered.
Deliver(p) ==
    /\ inbox[p] > 0
    /\ inbox' = [inbox EXCEPT ![p] = @ - 1]
    /\ RunCallbacks(Waiting(p))
    /\ UNCHANGED <<store, lock, channel, status, env>>

\* A schema change commits in the database ...
Migrate ==
    /\ migration = "none"
    /\ db < MaxVersion
    /\ db' = db + 1
    /\ migration' = "clearShared"
    /\ UNCHANGED <<store, lock, frame, bus, status, faults>>

\* ... and clearSystemCache then drops the shared hash ...
ClearShared ==
    /\ migration = "clearShared"
    /\ sharedHash' = Absent
    /\ migration' = "clearLocal"
    /\ UNCHANGED <<localSchema, localHash, taken, db, lock, frame, bus, status, faults>>

\* ... and the local cache of the process that made the change.
ClearLocal ==
    /\ migration = "clearLocal"
    /\ localSchema' = [localSchema EXCEPT ![Migrator] = Absent]
    /\ localHash' = [localHash EXCEPT ![Migrator] = Absent]
    /\ migration' = "none"
    /\ UNCHANGED <<sharedHash, taken, db, lock, frame, bus, status, faults>>

\* A process dies with everything in its memory and starts afresh.  What it
\* wrote to Redis, the lock counter included, stays.
Crash(p) ==
    /\ Fault("crash")
    /\ frame' = [f \in {g \in Live : Proc(g) # p} |-> frame[f]]
    /\ status' = [c \in Calls |-> IF Home[c] = p /\ status[c] = "running"
                                  THEN "lost" ELSE status[c]]
    /\ localSchema' = [localSchema EXCEPT ![p] = Absent]
    /\ localHash' = [localHash EXCEPT ![p] = Absent]
    /\ channel' = [channel EXCEPT ![p] = "off"]
    /\ inbox' = [inbox EXCEPT ![p] = 0]
    /\ migration' = IF p = Migrator THEN "none" ELSE migration
    /\ UNCHANGED <<db, sharedHash, lock, taken>>

Step(f) ==
    \/ GiveUp(f) \/ ReadBypass(f) \/ ReadBypassRest(f)
    \/ GetSharedHash(f) \/ GetLocalHash(f) \/ GetLocalSchema(f)
    \/ Increment(f) \/ Reset(f) \/ Subscribe(f) \/ Timeout(f)
    \/ ReadDatabase(f) \/ ReadRest(f) \/ SetSharedHash(f) \/ SetLocalSchema(f) \/ SetLocalHash(f)
    \/ Release(f) \/ Publish(f)

System ==
    \/ \E f \in Live : Step(f)
    \/ \E p \in Procs : Subscribed(p) \/ Deliver(p)
    \/ ClearShared \/ ClearLocal

Next ==
    \/ System
    \/ \E c \in Calls : Call(c)
    \/ Migrate
    \/ \E p \in Procs : Crash(p)

Spec == Init /\ [][Next]_vars

(* Node runs every continuation that is ready, timers fire and Redis       *)
(* answers.  Nothing obliges anyone to call getSchema or change the        *)
(* schema.  A behaviour takes finitely many steps (every call is made      *)
(* once), so fairness of the disjunction is as strong as one per frame.    *)
FairSpec == Spec /\ WF_vars(System)

-----------------------------------------------------------------------------
(* Properties.                                                             *)

TypeOK ==
    /\ db \in Version /\ sharedHash \in Schema
    /\ localSchema \in [Procs -> Schema] /\ localHash \in [Procs -> Schema]
    /\ taken \in [Procs -> Schema]
    /\ lock \in Nat
    /\ Live \subseteq Path /\ frame \in [Live -> Frame]
    /\ channel \in [Procs -> {"off", "pending", "on"}]
    /\ inbox \in [Procs -> Nat]
    /\ status \in [Calls -> {"idle", "running", "lost"} \cup Outcomes]
    /\ migration \in {"none", "clearShared", "clearLocal"}
    /\ faults \in [Faults -> Nat]

BuilderPcs == {"read", "readRest", "setSharedHash", "setLocalSchema", "setLocalHash", "release"}
Builders == {f \in Live : frame[f].pc \in BuilderPcs}

(* While no process crashes, a taken lock belongs to a frame that will     *)
(* still delete it: nobody waits for a build that nobody does, even after  *)
(* the counter was reset under a running builder.                          *)
LockNotOrphaned ==
    faults["crash"] = 0 /\ lock > 0 =>
        \E f \in Live : \/ frame[f].pc \in BuilderPcs
                        \/ (frame[f].pc = "reset" /\ frame[f].pid = 1)

(* While the counter stays below MaxIterations, at most one invocation at  *)
(* a time builds the schema.                                               *)
SingleBuilder == Cardinality(Builders) <= 1

(* A process whose hash agrees with the shared one serves the schema that  *)
(* hash was computed from.                                                 *)
Coherent ==
    \A p \in Procs :
        sharedHash # Absent /\ localHash[p] = sharedHash
            => localSchema[p] \in {Absent, sharedHash}

(* s is t again, or no query of s saw an older database than one of t.     *)
NotOlder(s, t) == s = t \/ t.upto <= s.from

(* No process goes back: whatever versions a schema mixes, no part of it   *)
(* is older than any part of the schema its process used before.           *)
NeverOlder == [][\A p \in Procs : NotOlder(taken'[p], taken[p])]_vars

(* Together with the database's versions: what a process takes into use    *)
(* was read while the database went from one version to another, neither   *)
(* ahead of it nor overlapping what the process used before.               *)
Reads == INSTANCE MonotonicReads WITH Readers <- Procs, newest <- db, used <- taken
Monotonic == Reads!Spec

(* A waiting frame can still be woken: its timer is armed, or its callback *)
(* awaits an invocation that is alive.                                     *)
WaiterHasWakeup ==
    \A f \in Live : frame[f].pc = "waiting" /\ frame[f].fired > 0 =>
        \E g \in Live : f \in Above(g)

(* Every call ends: with a schema, an error or the crash of its process.   *)
CallsEnd == \A c \in Calls : status[c] = "running" ~> status[c] # "running"

(* "hit infinite loop" is thrown only when a loop was hit: it is not when  *)
(* no process crashed, nothing failed and no timer went off.               *)
NoLoopReported == \A c \in Calls : status[c] # "loop"
=============================================================================
