----------------------------- MODULE Extensions -----------------------------
(***************************************************************************)
(* ExtensionManager (api/src/extensions/manager.ts) in the processes of    *)
(* one machine that keeps its extensions in a storage location             *)
(* (EXTENSIONS_LOCATION): its JobQueue, the reload messages, and           *)
(* syncExtensions (api/src/extensions/lib/sync-extensions.ts), which copies*)
(* the location to the machine's disk under a lock in Redis.               *)
(*                                                                         *)
(* The extensions of the location, and what the administrators have set in *)
(* directus_extensions, are version numbers; the rows that a load or an    *)
(* install adds or deletes follow from the extensions, and are no version  *)
(* of their own.  Lock, bus and storage are Redis and a remote service,    *)
(* the disk is shared by the processes.                                    *)
(***************************************************************************)
EXTENDS JobQueue

CONSTANTS
    Processes,
    Partial,      \* what a disk holds that is being cleared and copied to
    MaxInstalls,  \* bound: installs and uninstalls
    MaxToggles,   \* bound: changes to the settings
    MaxFaults,    \* bound: steps that fail and processes that stop
    MaxEvents     \* bound: all of these together

ASSUME PartialAssumption == Partial \notin Nat
ASSUME BoundAssumption ==
    MaxInstalls \in Nat /\ MaxToggles \in Nat /\ MaxFaults \in Nat /\ MaxEvents \in Nat

VARIABLES
    remote,    \* the extensions of the storage location
    settings,  \* the settings in directus_extensions
    disk,      \* the extensions of the machine's disk, and its .status file
    lock,      \* the value of the machine's key, 0 when there is none
    boot,      \* whether the process runs
    step,      \* where the load stands that initialize() or a reload job makes
    job,       \* the job that runs: whether it forces a sync, and has a request wait
    queue,     \* reloadQueue
    listed,    \* what a sync under way read from the location
    exts, conf, \* the maps of the extensions, and extensionsSettings
    channel,   \* whether the process receives reload messages
    waits,     \* whether Redis knows of its subscription to the machine's key
    inbox,     \* per process: the messages under way to it
    faults,
    unsynced,  \* history: whether a forced reload did not copy the location
    resynced,  \* history: whether a sync nobody forced cleared a disk that was in sync
    kept,      \* history: what the process kept when its last load read it in vain
    stranded,  \* history: whether the ready message passed a process by
    missed     \* history: whether a change passed a process by

jobVars == <<job, queue>>
loadVars == <<listed, exts, conf>>
storeVars == <<remote, settings, disk, lock>>
busVars == <<channel, waits, inbox>>
historyVars == <<unsynced, resynced, kept, stranded, missed>>
vars == <<storeVars, boot, step, jobVars, loadVars, busVars, faults, historyVars>>

Jobs == [force : BOOLEAN, request : BOOLEAN]
NoJob == [force |-> FALSE, request |-> FALSE]
Steps == {"none", "check", "lock", "subscribe", "wait", "clear", "list", "copy",
          "publish", "unlock", "read", "settings", "ended"}
Syncing == {"clear", "list", "copy", "publish", "unlock"}
Versions == Nat \cup {Partial}

TypeOK ==
    /\ remote \in Nat /\ settings \in Nat
    /\ disk \in [exts : Versions, done : BOOLEAN]
    /\ lock \in Nat
    /\ boot \in [Processes -> {"down", "loading", "up"}]
    /\ step \in [Processes -> Steps]
    /\ job \in [Processes -> Jobs]
    /\ queue \in [Processes -> Queues(Jobs)]
    /\ \A p \in Processes : Size(queue[p]) <= 1
    /\ listed \in [Processes -> Nat]
    /\ exts \in [Processes -> Versions]
    /\ conf \in [Processes -> Nat]
    /\ channel \in [Processes -> BOOLEAN]
    /\ waits \in [Processes -> BOOLEAN]
    /\ inbox \in [Processes -> Seq({"reload", "ready"})]
    /\ faults \in Nat
    /\ unsynced \in BOOLEAN /\ resynced \in BOOLEAN
    /\ kept \in [Processes -> SUBSET {"exts", "conf"}]
    /\ stranded \in [Processes -> BOOLEAN]
    /\ missed \in [Processes -> BOOLEAN]

Init ==
    /\ remote = 0 /\ settings = 0
    /\ disk = [exts |-> Partial, done |-> FALSE]
    /\ lock = 0
    /\ boot = [p \in Processes |-> "down"]
    /\ step = [p \in Processes |-> "none"]
    /\ job = [p \in Processes |-> NoJob]
    /\ queue = [p \in Processes |-> Quiet]
    /\ listed = [p \in Processes |-> 0]
    /\ exts = [p \in Processes |-> Partial]
    /\ conf = [p \in Processes |-> 0]
    /\ channel = [p \in Processes |-> FALSE]
    /\ waits = [p \in Processes |-> FALSE]
    /\ inbox = [p \in Processes |-> <<>>]
    /\ faults = 0
    /\ unsynced = FALSE /\ resynced = FALSE
    /\ kept = [p \in Processes |-> {}]
    /\ stranded = [p \in Processes |-> FALSE]
    /\ missed = [p \in Processes |-> FALSE]

Goto(p, s) == step' = [step EXCEPT ![p] = s]

Alive(p) == boot[p] # "down"

MayChange == remote + settings + faults < MaxEvents
MayInstall(p) == boot[p] = "up" /\ remote < MaxInstalls /\ MayChange
MayToggle(p) == boot[p] = "up" /\ settings < MaxToggles /\ MayChange
MayFail == faults < MaxFaults /\ MayChange

-----------------------------------------------------------------------------
(* syncExtensions.                                                         *)

\* A process whose disk is in sync does not sync, unless it is forced to.
CheckStatus(p) ==
    /\ step[p] = "check"
    /\ Goto(p, IF disk.done THEN "read" ELSE "lock")
    /\ UNCHANGED <<storeVars, boot, jobVars, loadVars, busVars, faults, historyVars>>

\* Whether the sync under way will still announce that it is ready, and whether
\* it has read the location as it is now.
WillAnnounce == \E q \in Processes : step[q] \in {"clear", "list", "copy", "publish"}
HasListedOther == \E q \in Processes :
    step[q] \in {"copy", "publish", "unlock"} /\ listed[q] # remote

\* lock.increment(): the first one syncs, the others wait for a message.  The
\* status is not asked for again.
Lock(p) ==
    /\ step[p] = "lock"
    /\ lock' = lock + 1
    /\ \/ /\ lock = 0
          /\ Goto(p, "clear")
          /\ resynced' = (resynced \/ (~job[p].force /\ disk.done))
          /\ UNCHANGED <<unsynced, kept, stranded, missed>>
       \/ /\ lock > 0
          /\ Goto(p, IF waits[p] THEN "wait" ELSE "subscribe")
          /\ stranded' = [stranded EXCEPT ![p] = ~WillAnnounce]
          /\ unsynced' = (unsynced \/ (job[p].force /\ HasListedOther))
          /\ UNCHANGED <<resynced, kept, missed>>
    /\ UNCHANGED <<remote, settings, disk, boot, jobVars, loadVars, busVars, faults>>

\* Redis has processed the SUBSCRIBE, which is never undone.
Subscribe(p) ==
    /\ step[p] = "subscribe"
    /\ waits' = [waits EXCEPT ![p] = TRUE]
    /\ Goto(p, "wait")
    /\ UNCHANGED <<storeVars, boot, jobVars, loadVars, channel, inbox, faults, historyVars>>

\* rm and mkdir of the local folder, and the status SYNCING.
Clear(p) ==
    /\ step[p] = "clear"
    /\ disk' = [exts |-> Partial, done |-> FALSE]
    /\ Goto(p, "list")
    /\ UNCHANGED <<remote, settings, lock, boot, jobVars, loadVars, busVars, faults,
                   historyVars>>

List(p) ==
    /\ step[p] = "list"
    /\ listed' = [listed EXCEPT ![p] = remote]
    /\ Goto(p, "copy")
    /\ UNCHANGED <<storeVars, boot, jobVars, exts, conf, busVars, faults, historyVars>>

\* queue.onIdle(): every file is written, and the status is DONE.
Copy(p) ==
    /\ step[p] = "copy"
    /\ disk' = [exts |-> listed[p], done |-> TRUE]
    /\ Goto(p, "publish")
    /\ UNCHANGED <<remote, settings, lock, boot, jobVars, loadVars, busVars, faults,
                   historyVars>>

\* Mutant of PublishReady: the message of the bus is left out.
PublishNothing(p) ==
    /\ step[p] = "publish"
    /\ Goto(p, "unlock")
    /\ UNCHANGED <<storeVars, boot, jobVars, loadVars, busVars, faults, historyVars>>

PublishReady(p) ==
    /\ step[p] = "publish"
    /\ inbox' = [q \in Processes |-> IF waits[q] THEN Append(inbox[q], "ready") ELSE inbox[q]]
    /\ stranded' = [q \in Processes |-> stranded[q] \/ step[q] = "subscribe"]
    /\ Goto(p, "unlock")
    /\ UNCHANGED <<storeVars, boot, jobVars, loadVars, channel, waits, faults,
                   unsynced, resynced, kept, missed>>

Unlock(p) ==
    /\ step[p] = "unlock"
    /\ lock' = 0
    /\ listed' = [listed EXCEPT ![p] = 0]
    /\ Goto(p, "read")
    /\ UNCHANGED <<remote, settings, disk, boot, jobVars, exts, conf, busVars, faults,
                   historyVars>>

-----------------------------------------------------------------------------
(* load(), after the sync.                                                 *)

\* getExtensions() reads the disk, whether or not a process copies to it.
ReadDisk(p) ==
    /\ step[p] = "read"
    /\ exts' = [exts EXCEPT ![p] = disk.exts]
    /\ kept' = [kept EXCEPT ![p] = @ \ {"exts"}]
    /\ Goto(p, "settings")
    /\ UNCHANGED <<storeVars, boot, jobVars, listed, conf, busVars, faults, unsynced, resynced,
                   stranded, missed>>

\* Mutant of Register: the settings of the load before are used.
RegisterOldSettings(p) ==
    /\ step[p] = "settings"
    /\ kept' = [kept EXCEPT ![p] = @ \ {"conf"}]
    /\ Goto(p, "ended")
    /\ UNCHANGED <<storeVars, boot, jobVars, loadVars, busVars, faults, unsynced, resynced,
                   stranded, missed>>

\* getExtensionsSettings(), and the registration of what is enabled.
Register(p) ==
    /\ step[p] = "settings"
    /\ conf' = [conf EXCEPT ![p] = settings]
    /\ kept' = [kept EXCEPT ![p] = @ \ {"conf"}]
    /\ Goto(p, "ended")
    /\ UNCHANGED <<storeVars, boot, jobVars, listed, exts, busVars, faults, unsynced, resynced,
                   stranded, missed>>

\* handleExtensionError() logs, and what an earlier load has read is registered.
RegisterKept(p) ==
    /\ step[p] \in {"read", "settings"} /\ MayFail
    /\ faults' = faults + 1
    /\ kept' = [kept EXCEPT ![p] =
                   IF step[p] = "read" THEN {"exts", "conf"} ELSE @ \cup {"conf"}]
    /\ Goto(p, "ended")
    /\ UNCHANGED <<storeVars, boot, jobVars, loadVars, busVars, unsynced, resynced, stranded,
                   missed>>

-----------------------------------------------------------------------------
(* initialize(): a load, and then the subscription to reload messages.     *)

Start(p) ==
    /\ ~Alive(p)
    /\ boot' = [boot EXCEPT ![p] = "loading"]
    /\ Goto(p, "check")
    /\ UNCHANGED <<storeVars, jobVars, loadVars, busVars, faults, historyVars>>

Initialized(p) ==
    /\ boot[p] = "loading" /\ step[p] = "ended"
    /\ boot' = [boot EXCEPT ![p] = "up"]
    /\ Goto(p, "none")
    /\ UNCHANGED <<storeVars, jobVars, loadVars, busVars, faults, historyVars>>

Listen(p) ==
    /\ boot[p] = "up" /\ ~channel[p]
    /\ channel' = [channel EXCEPT ![p] = TRUE]
    /\ UNCHANGED <<storeVars, boot, step, jobVars, loadVars, waits, inbox, faults, historyVars>>

-----------------------------------------------------------------------------
(* reload().                                                               *)

\* unload(), which keeps the maps, and the start of load(); extensions are loaded
\* whenever a job begins, since initialize() has ended and jobs run in turn.
Begin(p, j) ==
    /\ job' = [job EXCEPT ![p] = j]
    /\ Goto(p, IF j.force THEN "lock" ELSE "check")

\* Mutant of Coalesces: the job that runs is taken for the job that waits.
CoalescesRunning(q) == q.running

\* Mutant of Coalesces: two reloads may wait.
CoalescesLate(q) == Size(q) > 1

\* "The pending job in the queue will already handle the additional changes".
Coalesces(q) == Size(q) > 0

\* A reload that finds one waiting resolves at once, also when it was to force
\* the sync that the one that waits will not make.
Reload(p, j) ==
    \/ /\ Coalesces(queue[p])
       /\ unsynced' = (unsynced \/ (j.force /\ \A i \in DOMAIN queue[p].jobs : ~queue[p].jobs[i].force))
       /\ UNCHANGED <<queue, job, step>>
    \/ /\ ~Coalesces(queue[p])
       /\ queue' = [queue EXCEPT ![p] = Enqueue(@, j)]
       /\ \/ /\ RunsAtOnce(queue[p])
             /\ Begin(p, j)
          \/ /\ ~RunsAtOnce(queue[p])
             /\ UNCHANGED <<job, step>>
       /\ UNCHANGED unsynced

\* What a process reads from now on is as new as a change that was made before;
\* what it has read may not be.
HasRead(q) == boot[q] = "up" \/ step[q] \in {"settings", "ended"}

\* broadcastReloadNotification(); the process that makes it ignores it.
Broadcast(p) ==
    /\ inbox' = [q \in Processes |->
                     IF q # p /\ channel[q] THEN Append(inbox[q], "reload") ELSE inbox[q]]
    /\ missed' = [q \in Processes |-> missed[q] \/ (q # p /\ HasRead(q) /\ ~channel[q])]

\* The job resolves the promise its request awaits, which broadcasts before any
\* other callback runs, and run() goes on.
EndReload(p) ==
    /\ boot[p] = "up" /\ step[p] = "ended"
    /\ queue' = [queue EXCEPT ![p] = Continue(@)]
    /\ \/ job[p].request /\ Broadcast(p)
       \/ ~job[p].request /\ UNCHANGED <<inbox, missed>>
    /\ \/ /\ Waiting(queue[p])
          /\ Begin(p, Head(queue[p].jobs))
       \/ /\ ~Waiting(queue[p])
          /\ job' = [job EXCEPT ![p] = NoJob]
          /\ Goto(p, "none")
    /\ UNCHANGED <<storeVars, boot, loadVars, channel, waits, faults, unsynced, resynced, kept,
                   stranded>>

-----------------------------------------------------------------------------
(* Messages.                                                               *)

\* Mutant of Deliver: who waited deletes the key as who synced does.
DeliverUnlocking(p) ==
    /\ Alive(p) /\ inbox[p] # <<>>
    /\ inbox' = [inbox EXCEPT ![p] = Tail(@)]
    /\ \/ /\ Head(inbox[p]) = "reload"
          /\ Reload(p, NoJob)
          /\ UNCHANGED <<lock, stranded>>
       \/ /\ Head(inbox[p]) = "ready"
          /\ Goto(p, IF step[p] = "wait" THEN "read" ELSE step[p])
          /\ lock' = IF step[p] = "wait" THEN 0 ELSE lock
          /\ stranded' = [stranded EXCEPT ![p] = FALSE]
          /\ UNCHANGED <<jobVars, unsynced>>
    /\ UNCHANGED <<remote, settings, disk, boot, loadVars, channel, waits, faults, resynced,
                   kept, missed>>

\* The message that a sync is ready resolves the promise of whoever waits.
Deliver(p) ==
    /\ Alive(p) /\ inbox[p] # <<>>
    /\ inbox' = [inbox EXCEPT ![p] = Tail(@)]
    /\ \/ /\ Head(inbox[p]) = "reload"
          /\ Reload(p, NoJob)
          /\ UNCHANGED stranded
       \/ /\ Head(inbox[p]) = "ready"
          /\ Goto(p, IF step[p] = "wait" THEN "read" ELSE step[p])
          /\ stranded' = [stranded EXCEPT ![p] = FALSE]
          /\ UNCHANGED <<jobVars, unsynced>>
    /\ UNCHANGED <<storeVars, boot, loadVars, channel, waits, faults, resynced, kept, missed>>

-----------------------------------------------------------------------------
(* Requests.                                                               *)

\* A request reloads, and broadcasts when that has resolved: at once when the
\* reload was coalesced.
Request(p, j) ==
    /\ Reload(p, j)
    /\ \/ Coalesces(queue[p]) /\ Broadcast(p)
       \/ ~Coalesces(queue[p]) /\ UNCHANGED <<inbox, missed>>

\* Mutant of Install: load() is called without the options of the reload.
InstallUnforced(p) ==
    /\ MayInstall(p)
    /\ remote' = remote + 1
    /\ Request(p, [force |-> FALSE, request |-> TRUE])
    /\ UNCHANGED <<settings, disk, lock, boot, loadVars, channel, waits, faults, resynced, kept,
                   stranded>>

\* install() and uninstall(), also of requests that overlap: once the location is
\* written, a forced reload.
Install(p) ==
    /\ MayInstall(p)
    /\ remote' = remote + 1
    /\ Request(p, [force |-> TRUE, request |-> TRUE])
    /\ UNCHANGED <<settings, disk, lock, boot, loadVars, channel, waits, faults, resynced, kept,
                   stranded>>

\* The location is written in part, and the request ends: nobody reloads.
InstallFails(p) ==
    /\ MayInstall(p) /\ MayFail
    /\ remote' = remote + 1
    /\ faults' = faults + 1
    /\ unsynced' = TRUE
    /\ UNCHANGED <<settings, disk, lock, boot, step, jobVars, loadVars, busVars, resynced, kept,
                   stranded, missed>>

\* ExtensionsService.updateOne: once the settings are committed, a reload, which
\* the request does not wait for.
Toggle(p) ==
    /\ MayToggle(p)
    /\ settings' = settings + 1
    /\ Request(p, [force |-> FALSE, request |-> TRUE])
    /\ UNCHANGED <<remote, disk, lock, boot, loadVars, channel, waits, faults, resynced, kept,
                   stranded>>

-----------------------------------------------------------------------------
(* Failures.                                                               *)

\* The jobs of a process, and whether one of its requests has still to broadcast.
JobsOf(p) == {job[p]} \cup {queue[p].jobs[i] : i \in DOMAIN queue[p].jobs}
Owes(p) == \E j \in JobsOf(p) : j.request

\* The process ends.  What it was asked to change is never broadcast, a forced
\* sync it had to make is never made, and those who wait for its sync go on
\* waiting.
Stops(p) ==
    /\ boot' = [boot EXCEPT ![p] = "down"]
    /\ Goto(p, "none")
    /\ job' = [job EXCEPT ![p] = NoJob]
    /\ queue' = [queue EXCEPT ![p] = Quiet]
    /\ listed' = [listed EXCEPT ![p] = 0]
    /\ exts' = [exts EXCEPT ![p] = Partial]
    /\ conf' = [conf EXCEPT ![p] = 0]
    /\ channel' = [channel EXCEPT ![p] = FALSE]
    /\ waits' = [waits EXCEPT ![p] = FALSE]
    /\ inbox' = [inbox EXCEPT ![p] = <<>>]
    /\ unsynced' = (unsynced \/ \E j \in JobsOf(p) : j.force)
    /\ kept' = [kept EXCEPT ![p] = {}]
    /\ stranded' = [q \in Processes |->
                        /\ q # p
                        /\ \/ stranded[q]
                           \/ /\ step[q] \in {"subscribe", "wait"}
                              /\ step[p] \in {"clear", "list", "copy", "publish"}]
    /\ missed' = [q \in Processes |->
                      q # p /\ (missed[q] \/ (Owes(p) /\ HasRead(q)))]
    /\ UNCHANGED <<remote, settings, disk, resynced>>

\* The key of the lock stays behind.
Crash(p) ==
    /\ Alive(p) /\ MayFail
    /\ faults' = faults + 1
    /\ Stops(p)
    /\ UNCHANGED lock

\* The storage or the disk rejects: the key is deleted, nothing is published,
\* and load() has the process exit.
SyncFails(p) ==
    /\ step[p] \in {"clear", "list", "copy"} /\ MayFail
    /\ faults' = faults + 1
    /\ lock' = 0
    /\ Stops(p)

-----------------------------------------------------------------------------

Sync(p) ==
    \/ CheckStatus(p) \/ Lock(p) \/ Subscribe(p) \/ Clear(p) \/ List(p) \/ Copy(p)
    \/ PublishReady(p) \/ Unlock(p)
Load(p) == ReadDisk(p) \/ Register(p) \/ Initialized(p) \/ EndReload(p)
Works(p) == Sync(p) \/ Load(p) \/ Listen(p) \/ Deliver(p)
Fails(p) == Crash(p) \/ SyncFails(p) \/ RegisterKept(p) \/ InstallFails(p)

Next == \E p \in Processes :
    Start(p) \/ Works(p) \/ Install(p) \/ Toggle(p) \/ Fails(p)

Fairness == \A p \in Processes : WF_vars(Works(p))

Spec == Init /\ [][Next]_vars /\ Fairness

-----------------------------------------------------------------------------
(* Properties.                                                             *)

\* The lock lets one process of the machine at a time clear the disk and copy
\* to it, whoever waits, fails or starts anew.
OneSyncer == \A p, q \in Processes : step[p] \in Syncing /\ step[q] \in Syncing => p = q

\* No load or message is under way, and so no request.
Settled ==
    /\ \A p \in Processes : step[p] = "none" /\ inbox[p] = <<>>

\* Reloads that are coalesced lose no change of the settings, however many
\* requests overlap: when all is done, every process whose last load could read
\* the settings has loaded those of the database.
SettingsCurrent == Settled => \A p \in Processes :
    boot[p] = "up" /\ ~missed[p] /\ "conf" \notin kept[p] => conf[p] = settings

\* When all is done every process whose last load could read the disk has loaded
\* the extensions of the location, also one that read the disk while an install
\* cleared it.  Left out is what happens when an install fails half-way, when a
\* forced sync is dropped, or joins one under way that has read the location
\* before, and when a process that found the disk not in sync gets the lock after
\* the disk was synced, and clears it while others read it.
ExtensionsCurrent == Settled => \A p \in Processes :
    boot[p] = "up" /\ ~missed[p] /\ "exts" \notin kept[p] /\ ~unsynced /\ ~resynced =>
        exts[p] = remote

\* Every load ends, unless the message that ends its wait passed it by: it was
\* published before the subscription, or never.  A process comes back, again and
\* again, to have no load under way.
LoadsEnd == \A p \in Processes :
    []<>(step[p] = "none" \/ (step[p] = "wait" /\ stranded[p]))
=============================================================================
