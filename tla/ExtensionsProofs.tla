-------------------------- MODULE ExtensionsProofs --------------------------
(* What holds of Extensions for every number of processes, installs, changes *)
(* of the settings and failures.                                             *)
EXTENDS Extensions, SequenceTheorems, TLAPS

-----------------------------------------------------------------------------
(* Types.                                                                    *)

\* How a load ends, and how a process does.
Registers(p) == Register(p) \/ RegisterKept(p)
Dies(p) == Crash(p) \/ SyncFails(p)

\* A queue whose jobs do not wait takes one more.
LEMMA EnqueueType ==
    ASSUME NEW q \in Queues(Jobs), Size(q) <= 1, ~Coalesces(q), NEW j \in Jobs
    PROVE  /\ Enqueue(q, j) \in Queues(Jobs) /\ Size(Enqueue(q, j)) <= 1
           /\ Enqueue(q, j).running
           /\ Enqueue(q, j).jobs = IF q.running THEN <<j>> ELSE <<>>
<1>1. q.running \in BOOLEAN /\ q.jobs \in Seq(Jobs) /\ Len(q.jobs) = 0
  BY DEF Queues, Size, Coalesces
<1>2. q.jobs = <<>> /\ q = [running |-> q.running, jobs |-> q.jobs]
  BY <1>1 DEF Queues
<1>3. CASE q.running
  <2>1. Enqueue(q, j) = [running |-> TRUE, jobs |-> Append(<<>>, j)]
    BY <1>2, <1>3 DEF Enqueue, RunsAtOnce
  <2>2. Append(<<>>, j) = <<j>> /\ <<j>> \in Seq(Jobs) /\ Len(<<j>>) = 1
    OBVIOUS
  <2> QED
    BY <1>3, <2>1, <2>2 DEF Queues, Size
<1>4. CASE ~q.running
  <2>1. Enqueue(q, j) = [running |-> TRUE, jobs |-> <<>>]
    BY <1>2, <1>4 DEF Enqueue, RunsAtOnce
  <2> QED
    BY <1>4, <2>1 DEF Queues, Size
<1> QED
  BY <1>1, <1>3, <1>4

\* A queue goes on with the job that waits, or is quiet.
LEMMA ContinueType ==
    ASSUME NEW q \in Queues(Jobs), Size(q) <= 1
    PROVE  /\ Continue(q) \in Queues(Jobs) /\ Size(Continue(q)) <= 1
           /\ Continue(q).jobs = <<>>
           /\ Waiting(q) => Continue(q).running = q.running
           /\ Waiting(q) => 1 \in DOMAIN q.jobs /\ Head(q.jobs) = q.jobs[1] /\ Head(q.jobs) \in Jobs
<1>1. q.running \in BOOLEAN /\ q.jobs \in Seq(Jobs) /\ Len(q.jobs) <= 1
  BY DEF Queues, Size
<1>2. CASE Waiting(q)
  <2>1. Len(q.jobs) = 1 /\ Tail(q.jobs) = <<>>
    <3>1. q.jobs # <<>> /\ Len(q.jobs) \in Nat /\ Len(q.jobs) # 0
      BY <1>1, <1>2, EmptySeq DEF Waiting
    <3>2. Tail(q.jobs) \in Seq(Jobs) /\ Len(Tail(q.jobs)) = Len(q.jobs) - 1
      BY <1>1, <3>1, HeadTailProperties
    <3>3. Len(q.jobs) = 1
      <4> DEFINE n == Len(q.jobs)
      <4>1. n \in Nat /\ n # 0 /\ n <= 1
        BY <1>1, <3>1
      <4> HIDE DEF n
      <4>2. n = 1
        BY <4>1
      <4> QED
        BY <4>2 DEF n
    <3>4. Len(Tail(q.jobs)) = 0
      BY <3>2, <3>3
    <3> QED
      BY <3>2, <3>3, <3>4, EmptySeq
  <2>2. Continue(q) = [running |-> q.running, jobs |-> <<>>]
    BY <1>2, <2>1 DEF Continue, Queues
  <2>3. Head(q.jobs) = q.jobs[1] /\ q.jobs[1] \in Jobs
    BY <1>1, <2>1
  <2> QED
    BY <1>1, <2>1, <2>2, <2>3 DEF Queues, Size
<1>3. CASE ~Waiting(q)
  <2>1. Continue(q) = [running |-> FALSE, jobs |-> <<>>]
    BY <1>3 DEF Continue, Quiet
  <2>2. <<>> \in Seq(Jobs) /\ Len(<<>>) = 0
    OBVIOUS
  <2>3. Continue(q) \in Queues(Jobs)
    BY <2>1, <2>2 DEF Queues
  <2>4. Continue(q).jobs = <<>>
    BY <2>1
  <2> QED
    BY <1>3, <2>2, <2>3, <2>4 DEF Size
<1> QED
  BY <1>2, <1>3

\* What a reload leaves in the process.
LEMMA ReloadType ==
    ASSUME TypeOK, NEW p \in Processes, NEW j \in Jobs, Reload(p, j)
    PROVE  /\ step' \in [Processes -> Steps] /\ job' \in [Processes -> Jobs]
           /\ queue' \in [Processes -> Queues(Jobs)]
           /\ \A q \in Processes : Size(queue'[q]) <= 1
           /\ unsynced' \in BOOLEAN
<1>0. /\ step \in [Processes -> Steps] /\ job \in [Processes -> Jobs]
      /\ queue \in [Processes -> Queues(Jobs)] /\ \A q \in Processes : Size(queue[q]) <= 1
      /\ unsynced \in BOOLEAN
  BY DEF TypeOK
<1>1. j.request \in BOOLEAN /\ j.force \in BOOLEAN
  BY DEF Jobs
<1>2. queue' \in [Processes -> Queues(Jobs)] /\ \A q \in Processes : Size(queue'[q]) <= 1
  <2>1. CASE queue' = queue
    BY <1>0, <2>1
  <2>2. CASE ~Coalesces(queue[p]) /\ queue' = [queue EXCEPT ![p] = Enqueue(@, j)]
    <3> DEFINE next == Enqueue(queue[p], j)
    <3>1. next \in Queues(Jobs) /\ Size(next) <= 1 /\ queue' = [queue EXCEPT ![p] = next]
      BY <1>0, <2>2, EnqueueType
    <3> HIDE DEF next
    <3> QED
      BY <1>0, <3>1
  <2> QED
    BY <2>1, <2>2 DEF Reload
<1>3. step' \in [Processes -> Steps] /\ job' \in [Processes -> Jobs]
  <2>1. CASE UNCHANGED <<job, step>>
    BY <1>0, <2>1
  <2>2. CASE Begin(p, j)
    BY <1>0, <1>1, <2>2 DEF Begin, Goto, Steps
  <2> QED
    BY <2>1, <2>2 DEF Reload
<1>4. unsynced' \in BOOLEAN
  BY <1>0, <1>1 DEF Reload
<1> QED
  BY <1>2, <1>3, <1>4

\* A message taken from an inbox, and one put into some of them.
LEMMA InboxType ==
    ASSUME NEW msgs, NEW box \in [Processes -> Seq(msgs)]
    PROVE  /\ \A p \in Processes : box[p] # <<>> =>
                 Head(box[p]) \in msgs /\ [box EXCEPT ![p] = Tail(@)] \in [Processes -> Seq(msgs)]
           /\ \A P \in SUBSET Processes, msg \in msgs :
                 [q \in Processes |-> IF q \in P THEN Append(box[q], msg) ELSE box[q]]
                     \in [Processes -> Seq(msgs)]
<1>1. ASSUME NEW p \in Processes, box[p] # <<>>
      PROVE  Head(box[p]) \in msgs /\ [box EXCEPT ![p] = Tail(@)] \in [Processes -> Seq(msgs)]
  <2>1. box[p] \in Seq(msgs)
    OBVIOUS
  <2>2. Head(box[p]) \in msgs /\ Tail(box[p]) \in Seq(msgs)
    BY <1>1, <2>1
  <2> QED
    BY <2>2
<1>2. ASSUME NEW P \in SUBSET Processes, NEW msg \in msgs
      PROVE  [q \in Processes |-> IF q \in P THEN Append(box[q], msg) ELSE box[q]]
                 \in [Processes -> Seq(msgs)]
  <2>1. ASSUME NEW q \in Processes PROVE Append(box[q], msg) \in Seq(msgs) /\ box[q] \in Seq(msgs)
    OBVIOUS
  <2> QED
    BY <2>1
<1> QED
  BY <1>1, <1>2

\* The parts of the state that several actions leave alone.
StoreType == remote \in Nat /\ settings \in Nat /\ lock \in Nat
             /\ disk \in [exts : Versions, done : BOOLEAN]
JobType == /\ job \in [Processes -> Jobs] /\ queue \in [Processes -> Queues(Jobs)]
           /\ \A p \in Processes : Size(queue[p]) <= 1
LoadType == /\ listed \in [Processes -> Nat]
            /\ exts \in [Processes -> Versions] /\ conf \in [Processes -> Nat]
BusType == /\ channel \in [Processes -> BOOLEAN] /\ waits \in [Processes -> BOOLEAN]
           /\ inbox \in [Processes -> Seq({"reload", "ready"})]
HistoryType == /\ unsynced \in BOOLEAN /\ resynced \in BOOLEAN
               /\ kept \in [Processes -> SUBSET {"exts", "conf"}]
               /\ stranded \in [Processes -> BOOLEAN] /\ missed \in [Processes -> BOOLEAN]
RunType == /\ boot \in [Processes -> {"down", "loading", "up"}] /\ step \in [Processes -> Steps]
           /\ faults \in Nat

LEMMA TypeParts ==
    TypeOK <=> StoreType /\ JobType /\ LoadType /\ BusType /\ HistoryType /\ RunType
  BY DEF TypeOK, StoreType, JobType, LoadType, BusType, HistoryType, RunType

\* A broadcast puts a message into the inboxes of who receives it.
LEMMA BroadcastType ==
    ASSUME BusType, NEW p \in Processes, Broadcast(p)
    PROVE  inbox' \in [Processes -> Seq({"reload", "ready"})]
<1> DEFINE P == {q \in Processes : q # p /\ channel[q]}
<1>1. inbox' = [q \in Processes |-> IF q \in P THEN Append(inbox[q], "reload") ELSE inbox[q]]
  BY DEF Broadcast
<1>2. P \in SUBSET Processes
  OBVIOUS
<1> HIDE DEF P
<1> QED
  BY <1>1, <1>2, InboxType DEF BusType

\* Every step keeps the types.
LEMMA TypeStep ==
    ASSUME TypeOK, [Next]_vars
    PROVE  TypeOK'
<1>0. StoreType /\ JobType /\ LoadType /\ BusType /\ HistoryType /\ RunType
  BY TypeParts
<1>s. UNCHANGED storeVars => StoreType'
  BY <1>0 DEF storeVars, StoreType
<1>j. UNCHANGED jobVars => JobType'
  BY <1>0 DEF jobVars, JobType
<1>l. UNCHANGED loadVars => LoadType'
  BY <1>0 DEF loadVars, LoadType
<1>b. UNCHANGED busVars => BusType'
  BY <1>0 DEF busVars, BusType
<1>h. UNCHANGED historyVars => HistoryType'
  BY <1>0 DEF historyVars, HistoryType
<1>r. ASSUME NEW p \in Processes, NEW s \in Steps, Goto(p, s), UNCHANGED <<boot, faults>>
      PROVE  RunType'
  BY <1>0, <1>r DEF RunType, Goto
<1>t. StoreType' /\ JobType' /\ LoadType' /\ BusType' /\ HistoryType' /\ RunType' => TypeOK'
  BY DEF TypeOK, StoreType, JobType, LoadType, BusType, HistoryType, RunType
<1>1. ASSUME NEW p \in Processes, CheckStatus(p) PROVE TypeOK'
  BY <1>1, <1>s, <1>j, <1>l, <1>b, <1>h, <1>r, <1>t DEF CheckStatus, Steps
<1>2. ASSUME NEW p \in Processes, Lock(p) PROVE TypeOK'
  <2>1. StoreType'
    BY <1>0, <1>2 DEF Lock, StoreType
  <2>2. HistoryType'
    <3>1. WillAnnounce \in BOOLEAN /\ HasListedOther \in BOOLEAN /\ disk.done \in BOOLEAN
          /\ job[p].force \in BOOLEAN
      BY <1>0 DEF WillAnnounce, HasListedOther, StoreType, JobType, Jobs
    <3> QED
      BY <1>0, <1>2, <3>1 DEF Lock, HistoryType
  <2>3. PICK s \in Steps : Goto(p, s)
    BY <1>2 DEF Lock, Steps
  <2> QED
    BY <1>2, <2>1, <2>2, <2>3, <1>j, <1>l, <1>b, <1>r, <1>t DEF Lock
<1>3. ASSUME NEW p \in Processes, Subscribe(p) PROVE TypeOK'
  <2>1. BusType'
    BY <1>0, <1>3 DEF Subscribe, BusType
  <2> QED
    BY <1>3, <2>1, <1>s, <1>j, <1>l, <1>h, <1>r, <1>t DEF Subscribe, Steps
<1>4. ASSUME NEW p \in Processes, Clear(p) \/ Copy(p) PROVE TypeOK'
  <2>1. StoreType'
    <3>1. listed[p] \in Versions /\ Partial \in Versions
      BY <1>0 DEF LoadType, Versions
    <3>2. remote' = remote /\ settings' = settings /\ lock' = lock
          /\ disk' \in {[exts |-> Partial, done |-> FALSE], [exts |-> listed[p], done |-> TRUE]}
      BY <1>4 DEF Clear, Copy
    <3>3. \A v \in Versions, d \in BOOLEAN :
             [exts |-> v, done |-> d] \in [exts : Versions, done : BOOLEAN]
      OBVIOUS
    <3>4. disk' \in [exts : Versions, done : BOOLEAN]
      BY <3>1, <3>2, <3>3, Zenon
    <3> QED
      BY <1>0, <3>2, <3>4 DEF StoreType
  <2> QED
    BY <1>4, <2>1, <1>j, <1>l, <1>b, <1>h, <1>r, <1>t DEF Clear, Copy, Steps
<1>5. ASSUME NEW p \in Processes, List(p) PROVE TypeOK'
  <2>1. LoadType'
    BY <1>0, <1>5 DEF List, LoadType, StoreType
  <2> QED
    BY <1>5, <2>1, <1>s, <1>j, <1>b, <1>h, <1>r, <1>t DEF List, Steps
<1>6. ASSUME NEW p \in Processes, PublishReady(p) PROVE TypeOK'
  <2> DEFINE P == {q \in Processes : waits[q]}
  <2>1. inbox' = [q \in Processes |-> IF q \in P THEN Append(inbox[q], "ready") ELSE inbox[q]]
    BY <1>6 DEF PublishReady
  <2>2. P \in SUBSET Processes
    OBVIOUS
  <2> HIDE DEF P
  <2>3. inbox' \in [Processes -> Seq({"reload", "ready"})]
    BY <1>0, <2>1, <2>2, InboxType DEF BusType
  <2>4. BusType'
    BY <1>0, <1>6, <2>3 DEF PublishReady, BusType
  <2>5. HistoryType'
    BY <1>0, <1>6 DEF PublishReady, HistoryType
  <2> QED
    BY <1>6, <2>4, <2>5, <1>s, <1>j, <1>l, <1>r, <1>t DEF PublishReady, Steps
<1>7. ASSUME NEW p \in Processes, Unlock(p) PROVE TypeOK'
  <2>1. StoreType' /\ LoadType'
    BY <1>0, <1>7 DEF Unlock, StoreType, LoadType
  <2> QED
    BY <1>7, <2>1, <1>j, <1>b, <1>h, <1>r, <1>t DEF Unlock, Steps
<1>8. ASSUME NEW p \in Processes, ReadDisk(p) \/ Registers(p) PROVE TypeOK'
  <2>1. LoadType'
    BY <1>0, <1>8 DEF ReadDisk, Registers, Register, RegisterKept, StoreType, LoadType, loadVars
  <2>2. HistoryType'
    <3>1. PICK lost \in SUBSET {"exts", "conf"} : kept' = [kept EXCEPT ![p] = lost]
      <4>1. kept[p] \in SUBSET {"exts", "conf"}
        BY <1>0 DEF HistoryType
      <4> QED
        BY <1>8, <4>1 DEF ReadDisk, Registers, Register, RegisterKept
    <3> QED
      BY <1>0, <1>8, <3>1 DEF ReadDisk, Registers, Register, RegisterKept, HistoryType
  <2>3. RunType'
    BY <1>0, <1>8 DEF ReadDisk, Registers, Register, RegisterKept, RunType, Goto, Steps
  <2> QED
    BY <1>8, <2>1, <2>2, <2>3, <1>s, <1>j, <1>b, <1>t DEF ReadDisk, Registers, Register,
       RegisterKept
<1>9. ASSUME NEW p \in Processes, Start(p) \/ Initialized(p) PROVE TypeOK'
  <2>1. RunType'
    BY <1>0, <1>9 DEF Start, Initialized, RunType, Goto, Steps
  <2> QED
    BY <1>9, <2>1, <1>s, <1>j, <1>l, <1>b, <1>h, <1>t DEF Start, Initialized
<1>10. ASSUME NEW p \in Processes, Listen(p) PROVE TypeOK'
  <2>1. BusType' /\ RunType'
    BY <1>0, <1>10 DEF Listen, BusType, RunType
  <2> QED
    BY <1>10, <2>1, <1>s, <1>j, <1>l, <1>h, <1>t DEF Listen
<1>11. ASSUME NEW p \in Processes, EndReload(p) PROVE TypeOK'
  <2> DEFINE next == Continue(queue[p])
  <2>1. /\ next \in Queues(Jobs) /\ Size(next) <= 1
        /\ Waiting(queue[p]) => Head(queue[p].jobs) \in Jobs
    BY <1>0, ContinueType DEF JobType
  <2>2. queue' = [queue EXCEPT ![p] = next]
    BY <1>11 DEF EndReload
  <2> HIDE DEF next
  <2>3. job' \in [Processes -> Jobs] /\ \E s \in Steps : Goto(p, s)
    <3>1. CASE Waiting(queue[p]) /\ Begin(p, Head(queue[p].jobs))
      BY <1>0, <2>1, <3>1 DEF Begin, JobType, Steps, Jobs
    <3>2. CASE job' = [job EXCEPT ![p] = NoJob] /\ Goto(p, "none")
      BY <1>0, <3>2 DEF JobType, Steps, Jobs, NoJob
    <3> QED
      BY <1>11, <3>1, <3>2 DEF EndReload
  <2>4. JobType'
    BY <1>0, <2>1, <2>2, <2>3 DEF JobType
  <2>5. BusType' /\ HistoryType'
    <3>1. CASE Broadcast(p)
      <4>1. missed' \in [Processes -> BOOLEAN]
        BY <1>0, <3>1 DEF Broadcast, HasRead, HistoryType, BusType
      <4> QED
        BY <1>0, <1>11, <3>1, <4>1, BroadcastType DEF EndReload, BusType, HistoryType
    <3>2. CASE UNCHANGED <<inbox, missed>>
      BY <1>0, <1>11, <3>2 DEF EndReload, BusType, HistoryType
    <3> QED
      BY <1>11, <3>1, <3>2 DEF EndReload
  <2> QED
    BY <1>11, <2>3, <2>4, <2>5, <1>s, <1>l, <1>r, <1>t DEF EndReload
<1>12. ASSUME NEW p \in Processes, NEW j \in Jobs, Reload(p, j), boot' = boot, faults' = faults,
              resynced' = resynced, kept' = kept, stranded' \in [Processes -> BOOLEAN],
              missed' \in [Processes -> BOOLEAN]
       PROVE  JobType' /\ HistoryType' /\ RunType'
  BY <1>0, <1>12, ReloadType DEF JobType, HistoryType, RunType
<1>13. ASSUME NEW p \in Processes, Install(p) \/ Toggle(p) PROVE TypeOK'
  <2>1. PICK j \in Jobs : Request(p, j)
    BY <1>13 DEF Install, Toggle, Jobs
  <2>2. StoreType' /\ LoadType'
    BY <1>0, <1>l, <1>13 DEF Install, Toggle, StoreType
  <2>3. BusType' /\ missed' \in [Processes -> BOOLEAN]
    <3>1. CASE Broadcast(p)
      <4>1. missed' \in [Processes -> BOOLEAN]
        BY <1>0, <3>1 DEF Broadcast, HasRead, HistoryType, BusType
      <4> QED
        BY <1>0, <1>13, <3>1, <4>1, BroadcastType DEF Install, Toggle, BusType
    <3>2. CASE UNCHANGED <<inbox, missed>>
      BY <1>0, <1>13, <3>2 DEF Install, Toggle, BusType, HistoryType
    <3> QED
      BY <2>1, <3>1, <3>2 DEF Request
  <2>4. Reload(p, j) /\ boot' = boot /\ faults' = faults /\ resynced' = resynced /\ kept' = kept
        /\ stranded' \in [Processes -> BOOLEAN]
    BY <1>0, <1>13, <2>1 DEF Request, Install, Toggle, HistoryType
  <2>5. JobType' /\ HistoryType' /\ RunType'
    BY <1>12, <2>3, <2>4
  <2> QED
    BY <2>2, <2>3, <2>5, <1>t
<1>14. ASSUME NEW p \in Processes, Deliver(p) PROVE TypeOK'
  <2>1. inbox' \in [Processes -> Seq({"reload", "ready"})]
    BY <1>0, <1>14, InboxType DEF Deliver, BusType
  <2>2. BusType' /\ LoadType'
    BY <1>0, <1>l, <1>14, <2>1 DEF Deliver, BusType
  <2>3. JobType' /\ HistoryType' /\ RunType'
    <3>0. stranded' \in [Processes -> BOOLEAN] /\ missed' \in [Processes -> BOOLEAN]
          /\ boot' = boot /\ faults' = faults /\ resynced' = resynced /\ kept' = kept
      BY <1>0, <1>14 DEF Deliver, HistoryType
    <3>1. CASE Reload(p, NoJob)
      BY <1>12, <3>0, <3>1 DEF NoJob, Jobs
    <3>2. CASE /\ Goto(p, IF step[p] = "wait" THEN "read" ELSE step[p])
               /\ UNCHANGED <<jobVars, unsynced>>
      <4>1. (IF step[p] = "wait" THEN "read" ELSE step[p]) \in Steps
        BY <1>0 DEF RunType, Steps
      <4>2. RunType'
        BY <3>0, <3>2, <4>1, <1>r
      <4>3. HistoryType'
        BY <1>0, <3>0, <3>2 DEF HistoryType
      <4> QED
        BY <3>2, <4>2, <4>3, <1>j
    <3> QED
      BY <1>14, <3>1, <3>2 DEF Deliver
  <2> QED
    BY <1>14, <2>2, <2>3, <1>s, <1>t DEF Deliver
<1>15. ASSUME NEW p \in Processes, InstallFails(p) PROVE TypeOK'
  <2>1. StoreType' /\ HistoryType' /\ RunType'
    BY <1>0, <1>15 DEF InstallFails, StoreType, HistoryType, RunType
  <2> QED
    BY <1>15, <2>1, <1>j, <1>l, <1>b, <1>t DEF InstallFails
<1>16. ASSUME NEW p \in Processes, Crash(p) \/ SyncFails(p) PROVE TypeOK'
  <2>0. Stops(p) /\ faults' \in Nat /\ lock' \in Nat
    BY <1>0, <1>16 DEF Crash, SyncFails, RunType, StoreType
  <2>1. StoreType'
    BY <1>0, <2>0 DEF Stops, StoreType
  <2>2. JobType'
    <3>1. Quiet \in Queues(Jobs) /\ Size(Quiet) <= 1 /\ NoJob \in Jobs
      BY DEF Quiet, Queues, Size, NoJob, Jobs
    <3>2. job' = [job EXCEPT ![p] = NoJob] /\ queue' = [queue EXCEPT ![p] = Quiet]
      BY <2>0 DEF Stops
    <3> QED
      BY <1>0, <3>1, <3>2 DEF JobType
  <2>3. LoadType'
    BY <1>0, <2>0 DEF Stops, LoadType, Versions
  <2>4. BusType'
    BY <1>0, <2>0 DEF Stops, BusType
  <2>5. HistoryType'
    <3>1. stranded' \in [Processes -> BOOLEAN] /\ missed' \in [Processes -> BOOLEAN]
          /\ kept' \in [Processes -> SUBSET {"exts", "conf"}]
      BY <1>0, <2>0 DEF Stops, HistoryType, HasRead, Owes
    <3>2. unsynced' \in BOOLEAN /\ resynced' \in BOOLEAN
      BY <1>0, <2>0 DEF Stops, HistoryType
    <3> QED
      BY <3>1, <3>2 DEF HistoryType
  <2>6. RunType'
    BY <1>0, <2>0 DEF Stops, RunType, Goto, Steps
  <2> QED
    BY <2>1, <2>2, <2>3, <2>4, <2>5, <2>6, <1>t
<1>17. CASE UNCHANGED vars
  <2>1. RunType'
    BY <1>0, <1>17 DEF vars, RunType
  <2> QED
    BY <1>17, <2>1, <1>s, <1>j, <1>l, <1>b, <1>h, <1>t DEF vars
<1> QED
  BY <1>1, <1>2, <1>3, <1>4, <1>5, <1>6, <1>7, <1>8, <1>9, <1>10, <1>11, <1>13, <1>14, <1>15,
     <1>16, <1>17 DEF Next, Works, Sync, Load, Fails, Registers

\* The initial state is of its type.
LEMMA InitType == Init => TypeOK
<1>1. SUFFICES ASSUME Init PROVE TypeOK
  OBVIOUS
<1>2. Quiet \in Queues(Jobs) /\ Size(Quiet) <= 1 /\ NoJob \in Jobs /\ Partial \in Versions
  BY DEF Quiet, Queues, Size, NoJob, Jobs, Versions
<1>3. StoreType
  <2>1. [exts |-> Partial, done |-> FALSE] \in [exts : Versions, done : BOOLEAN]
    BY <1>2
  <2> QED
    BY <1>1, <2>1 DEF Init, StoreType
<1>4. LoadType /\ BusType
  BY <1>1, <1>2 DEF Init, LoadType, BusType
<1>5. HistoryType /\ RunType
  BY <1>1 DEF Init, HistoryType, RunType, Steps
<1>6. JobType
  BY <1>1, <1>2 DEF Init, JobType
<1> QED
  BY <1>3, <1>4, <1>5, <1>6, TypeParts

\* The state is always of its type.
THEOREM TypeCorrect == Spec => []TypeOK
  BY InitType, TypeStep, PTL DEF Spec

-----------------------------------------------------------------------------
(* What a step does to one process.                                          *)

Holds(box, msg) == \E i \in DOMAIN box : box[i] = msg

\* A message that arrives, and one that is taken.
LEMMA BoxOps ==
    ASSUME NEW msgs, NEW box \in Seq(msgs), NEW msg
    PROVE  /\ \A new \in msgs : Holds(Append(box, new), msg) <=> Holds(box, msg) \/ new = msg
           /\ box # <<>> => (Holds(box, msg) <=> Head(box) = msg \/ Holds(Tail(box), msg))
           /\ ~Holds(<<>>, msg)
<1>1. ASSUME NEW new \in msgs
      PROVE  Holds(Append(box, new), msg) <=> Holds(box, msg) \/ new = msg
  <2>1. /\ DOMAIN box = 1 .. Len(box) /\ Len(box) \in Nat
        /\ DOMAIN Append(box, new) = 1 .. Len(box) + 1
        /\ \A i \in 1 .. Len(box) : Append(box, new)[i] = box[i]
        /\ Append(box, new)[Len(box) + 1] = new
    BY AppendProperties, LenProperties
  <2>2. Holds(Append(box, new), msg) => Holds(box, msg) \/ new = msg
    <3>1. SUFFICES ASSUME NEW i \in 1 .. Len(box) + 1, Append(box, new)[i] = msg
                   PROVE  Holds(box, msg) \/ new = msg
      BY <2>1 DEF Holds
    <3>2. CASE i \in 1 .. Len(box)
      BY <2>1, <3>1, <3>2 DEF Holds
    <3>3. CASE i = Len(box) + 1
      BY <2>1, <3>1, <3>3
    <3> QED
      BY <2>1, <3>1, <3>2, <3>3
  <2>3. Holds(box, msg) => Holds(Append(box, new), msg)
    <3>1. SUFFICES ASSUME NEW i \in 1 .. Len(box), box[i] = msg
                   PROVE  Holds(Append(box, new), msg)
      BY <2>1 DEF Holds
    <3>2. i \in 1 .. Len(box) + 1 /\ Append(box, new)[i] = msg
      BY <2>1, <3>1
    <3> QED
      BY <2>1, <3>2 DEF Holds
  <2>4. new = msg => Holds(Append(box, new), msg)
    <3>1. Len(box) + 1 \in 1 .. Len(box) + 1
      BY <2>1
    <3> QED
      BY <2>1, <3>1 DEF Holds
  <2> QED
    BY <2>2, <2>3, <2>4
<1>2. ASSUME box # <<>>
      PROVE  Holds(box, msg) <=> Head(box) = msg \/ Holds(Tail(box), msg)
  <2>1. /\ DOMAIN box = 1 .. Len(box) /\ Len(box) \in Nat /\ Len(box) > 0
        /\ Head(box) = box[1]
    BY <1>2, LenProperties, EmptySeq
  <2>2. /\ DOMAIN Tail(box) = 1 .. Len(box) - 1
        /\ \A i \in 1 .. Len(box) - 1 : Tail(box)[i] = box[i + 1]
    BY <1>2, HeadTailProperties, LenProperties
  <2>3. Holds(box, msg) => Head(box) = msg \/ Holds(Tail(box), msg)
    <3>1. SUFFICES ASSUME NEW i \in 1 .. Len(box), box[i] = msg, i # 1
                   PROVE  Holds(Tail(box), msg)
      BY <2>1 DEF Holds
    <3>2. i - 1 \in 1 .. Len(box) - 1 /\ (i - 1) + 1 = i
      BY <2>1, <3>1
    <3> QED
      BY <2>2, <3>1, <3>2 DEF Holds
  <2>4. Holds(Tail(box), msg) => Holds(box, msg)
    <3>1. SUFFICES ASSUME NEW i \in 1 .. Len(box) - 1, Tail(box)[i] = msg
                   PROVE  Holds(box, msg)
      BY <2>2 DEF Holds
    <3>2. i + 1 \in 1 .. Len(box) /\ box[i + 1] = msg
      BY <2>1, <2>2, <3>1
    <3> QED
      BY <2>1, <3>2 DEF Holds
  <2>5. Head(box) = msg => Holds(box, msg)
    BY <2>1 DEF Holds
  <2> QED
    BY <2>3, <2>4, <2>5
<1>3. ~Holds(<<>>, msg)
  BY DEF Holds
<1> QED
  BY <1>1, <1>2, <1>3

\* What is of one process, its inbox and the history apart.
Same(p) ==
    /\ boot'[p] = boot[p] /\ step'[p] = step[p] /\ job'[p] = job[p] /\ queue'[p] = queue[p]
    /\ listed'[p] = listed[p] /\ exts'[p] = exts[p] /\ conf'[p] = conf[p]
    /\ channel'[p] = channel[p] /\ waits'[p] = waits[p]

ActsOf(p) ==
    \/ Start(p) \/ Sync(p) \/ ReadDisk(p) \/ Registers(p) \/ Initialized(p) \/ EndReload(p)
    \/ Listen(p) \/ Deliver(p) \/ Install(p) \/ Toggle(p) \/ Dies(p)

\* A process acts on itself; others only send it messages.
LEMMA ActsAlone ==
    ASSUME TypeOK, [Next]_vars, NEW q \in Processes
    PROVE  Same(q) \/ ActsOf(q)
<1>0. /\ boot \in [Processes -> {"down", "loading", "up"}] /\ step \in [Processes -> Steps]
      /\ job \in [Processes -> Jobs] /\ queue \in [Processes -> Queues(Jobs)]
      /\ listed \in [Processes -> Nat]
      /\ exts \in [Processes -> Versions] /\ conf \in [Processes -> Nat]
      /\ channel \in [Processes -> BOOLEAN] /\ waits \in [Processes -> BOOLEAN]
  BY DEF TypeOK
<1>1. ASSUME NEW p \in Processes, p # q, Sync(p) PROVE Same(q)
  BY <1>0, <1>1 DEF Same, Sync, CheckStatus, Lock, Subscribe, Clear, List, Copy, PublishReady,
     Unlock, Goto, jobVars, loadVars, busVars
<1>2. ASSUME NEW p \in Processes, NEW j, p # q, Begin(p, j)
      PROVE  job'[q] = job[q] /\ step'[q] = step[q]
  BY <1>0, <1>2 DEF Begin, Goto
<1>3. ASSUME NEW p \in Processes, p # q, Start(p) \/ ReadDisk(p) \/ Registers(p) \/ Initialized(p)
      PROVE  Same(q)
  BY <1>0, <1>3 DEF Same, Start, ReadDisk, Registers, Register, RegisterKept, Initialized, Goto,
     jobVars, loadVars, busVars
<1>4. ASSUME NEW p \in Processes, p # q, EndReload(p) PROVE Same(q)
  <2>1. job'[q] = job[q] /\ step'[q] = step[q]
    BY <1>0, <1>2, <1>4 DEF EndReload, Goto
  <2>2. queue'[q] = queue[q]
    BY <1>0, <1>4 DEF EndReload
  <2> QED
    BY <1>4, <2>1, <2>2 DEF Same, EndReload, loadVars
<1>5. ASSUME NEW p \in Processes, NEW j, p # q, Reload(p, j)
      PROVE  job'[q] = job[q] /\ step'[q] = step[q] /\ queue'[q] = queue[q]
  <2>1. job'[q] = job[q] /\ step'[q] = step[q]
    BY <1>2, <1>5 DEF Reload
  <2>2. queue'[q] = queue[q]
    BY <1>0, <1>5 DEF Reload
  <2> QED
    BY <2>1, <2>2
<1>6. ASSUME NEW p \in Processes, p # q, Deliver(p) PROVE Same(q)
  <2>1. CASE Reload(p, NoJob)
    BY <1>5, <1>6, <2>1 DEF Same, Deliver, loadVars
  <2>2. CASE /\ Goto(p, IF step[p] = "wait" THEN "read" ELSE step[p])
             /\ UNCHANGED <<jobVars, unsynced>>
    BY <1>0, <1>6, <2>2 DEF Same, Deliver, Goto, jobVars, loadVars
  <2> QED
    BY <1>6, <2>1, <2>2 DEF Deliver
<1>7. ASSUME NEW p \in Processes, p # q, Install(p) \/ Toggle(p) PROVE Same(q)
  BY <1>5, <1>7 DEF Same, Install, Toggle, Request, loadVars
<1>8. ASSUME NEW p \in Processes, p # q, Listen(p) PROVE Same(q)
  BY <1>0, <1>8 DEF Same, Listen, jobVars, loadVars
<1>9. ASSUME NEW p \in Processes, p # q, Stops(p) PROVE Same(q)
  <2>1. boot'[q] = boot[q] /\ step'[q] = step[q] /\ job'[q] = job[q] /\ queue'[q] = queue[q]
        /\ listed'[q] = listed[q]
    BY <1>0, <1>9 DEF Stops, Goto
  <2>2. /\ exts'[q] = exts[q] /\ conf'[q] = conf[q]
        /\ channel'[q] = channel[q] /\ waits'[q] = waits[q]
    BY <1>0, <1>9 DEF Stops
  <2> QED
    BY <2>1, <2>2 DEF Same
<1>10. CASE UNCHANGED vars
  BY <1>10 DEF Same, vars, jobVars, loadVars, busVars
<1>11. ASSUME NEW p \in Processes, ActsOf(p) PROVE Same(q) \/ ActsOf(q)
  <2>1. CASE p = q
    BY <1>11, <2>1
  <2>2. CASE p # q
    BY <1>1, <1>3, <1>4, <1>6, <1>7, <1>8, <1>9, <1>11, <2>2 DEF ActsOf, Dies, Crash, SyncFails
  <2> QED
    BY <2>1, <2>2
<1>12. ASSUME NEW p \in Processes, InstallFails(p) PROVE Same(q)
  BY <1>12 DEF Same, InstallFails, jobVars, loadVars, busVars
<1>13. ASSUME NEW p \in Processes, Start(p) \/ Works(p) \/ Install(p) \/ Toggle(p) \/ Fails(p)
       PROVE  ActsOf(p) \/ InstallFails(p)
  BY <1>13 DEF ActsOf, Works, Load, Fails, Registers, Dies
<1> QED
  BY <1>10, <1>11, <1>12, <1>13 DEF Next

\* Messages come from a sync that is ready and from a change, and go one by one.
LEMMA InboxStep ==
    ASSUME TypeOK, [Next]_vars, NEW q \in Processes
    PROVE  \/ inbox'[q] = inbox[q]
           \/ inbox[q] # <<>> /\ inbox'[q] = Tail(inbox[q]) /\ Deliver(q)
           \/ inbox'[q] = Append(inbox[q], "ready") /\ waits[q] /\ \E p \in Processes : PublishReady(p)
           \/ inbox'[q] = Append(inbox[q], "reload") /\ channel[q]
              /\ \E p \in Processes : Broadcast(p) /\ p # q
           \/ inbox'[q] = <<>> /\ Dies(q)
<1>0. inbox \in [Processes -> Seq({"reload", "ready"})]
  BY DEF TypeOK
<1>1. ASSUME NEW p \in Processes, PublishReady(p)
      PROVE  inbox'[q] = inbox[q] \/ (inbox'[q] = Append(inbox[q], "ready") /\ waits[q])
  BY <1>1 DEF PublishReady
<1>2. ASSUME NEW p \in Processes, Broadcast(p)
      PROVE  inbox'[q] = inbox[q] \/ (inbox'[q] = Append(inbox[q], "reload") /\ channel[q] /\ p # q)
  BY <1>2 DEF Broadcast
<1>3. ASSUME NEW p \in Processes, Deliver(p)
      PROVE  /\ p # q => inbox'[q] = inbox[q]
             /\ p = q => inbox[q] # <<>> /\ inbox'[q] = Tail(inbox[q])
  BY <1>0, <1>3 DEF Deliver
<1>4. ASSUME NEW p \in Processes, Dies(p)
      PROVE  /\ p # q => inbox'[q] = inbox[q]
             /\ p = q => inbox'[q] = <<>>
  BY <1>0, <1>4 DEF Dies, Crash, SyncFails, Stops
<1>5. ASSUME NEW p \in Processes,
             \/ Start(p) \/ CheckStatus(p) \/ Lock(p) \/ Subscribe(p) \/ Clear(p) \/ List(p)
             \/ Copy(p) \/ Unlock(p) \/ ReadDisk(p) \/ Registers(p) \/ Initialized(p)
             \/ Listen(p) \/ InstallFails(p)
      PROVE  inbox' = inbox
  BY <1>5 DEF Start, CheckStatus, Lock, Subscribe, Clear, List, Copy, Unlock, ReadDisk,
     Registers,
     Register, RegisterKept, Initialized, Listen, InstallFails, busVars
<1>6. ASSUME NEW p \in Processes, EndReload(p) \/ Install(p) \/ Toggle(p)
      PROVE  inbox' = inbox \/ Broadcast(p)
  BY <1>6 DEF EndReload, Install, Toggle, Request
<1>7. CASE UNCHANGED vars
  BY <1>7 DEF vars, busVars
<1> QED
  BY <1>1, <1>2, <1>3, <1>4, <1>5, <1>6, <1>7 DEF Next, Works, Sync, Load, Fails, Dies,
     Registers

-----------------------------------------------------------------------------
(* The jobs of a process.                                                    *)

\* A process that does not run has nothing, one that starts loads without a
\* job, and one that is up runs a job as long as its queue is running.
BootInv(p) ==
    /\ boot[p] = "down" => step[p] = "none" /\ inbox[p] = <<>> /\ ~waits[p]
    /\ boot[p] # "up" => /\ queue[p] = Quiet /\ job[p] = NoJob
                         /\ ~channel[p] /\ ~Holds(inbox[p], "reload")
    /\ boot[p] = "loading" => step[p] # "none"
    /\ boot[p] = "up" => (queue[p].running <=> step[p] # "none")
    /\ Waiting(queue[p]) => queue[p].running
    /\ step[p] = "none" => job[p] = NoJob

\* A sync is forced for a request.
JobInv(p) ==
    /\ job[p].force => job[p].request /\ step[p] # "check"
    /\ \A i \in DOMAIN queue[p].jobs : queue[p].jobs[i].force => queue[p].jobs[i].request

JobsInv == \A p \in Processes : BootInv(p) /\ JobInv(p)

\* A reload is coalesced, waits, or begins.
LEMMA ReloadCases ==
    ASSUME TypeOK, NEW p \in Processes, BootInv(p), boot[p] = "up", NEW j \in Jobs, Reload(p, j)
    PROVE  \/ /\ Coalesces(queue[p]) /\ Waiting(queue[p])
              /\ queue'[p] = queue[p] /\ step'[p] = step[p] /\ job'[p] = job[p]
              /\ unsynced' = (unsynced \/ (j.force /\ \A i \in DOMAIN queue[p].jobs :
                                                          ~queue[p].jobs[i].force))
           \/ /\ queue[p].running /\ queue'[p].running /\ queue'[p].jobs = <<j>>
              /\ ~Coalesces(queue[p]) /\ ~Waiting(queue[p]) /\ Waiting(queue'[p])
              /\ step'[p] = step[p] /\ job'[p] = job[p] /\ unsynced' = unsynced
           \/ /\ ~queue[p].running /\ queue'[p].running /\ queue'[p].jobs = <<>>
              /\ step[p] = "none" /\ job[p] = NoJob
              /\ ~Coalesces(queue[p]) /\ ~Waiting(queue[p])
              /\ job'[p] = j /\ step'[p] = (IF j.force THEN "lock" ELSE "check")
              /\ unsynced' = unsynced
<1>0. /\ step \in [Processes -> Steps] /\ job \in [Processes -> Jobs]
      /\ queue \in [Processes -> Queues(Jobs)] /\ Size(queue[p]) <= 1
      /\ queue[p] \in Queues(Jobs)
  BY DEF TypeOK
<1>1. Coalesces(queue[p]) <=> Waiting(queue[p])
  <2>1. queue[p].jobs \in Seq(Jobs)
    BY <1>0 DEF Queues
  <2> QED
    BY <2>1, EmptySeq DEF Coalesces, Size, Waiting
<1>2. CASE Coalesces(queue[p])
  <2>1. UNCHANGED <<queue, job, step>>
        /\ unsynced' = (unsynced \/ (j.force /\ \A i \in DOMAIN queue[p].jobs :
                                                    ~queue[p].jobs[i].force))
    BY <1>2 DEF Reload
  <2> QED
    BY <1>0, <1>1, <1>2, <2>1
<1>3. CASE ~Coalesces(queue[p])
  <2> DEFINE next == Enqueue(queue[p], j)
  <2>1. /\ next.running /\ next.jobs = IF queue[p].running THEN <<j>> ELSE <<>>
    BY <1>0, <1>3, EnqueueType
  <2>2. queue' = [queue EXCEPT ![p] = next] /\ unsynced' = unsynced
    BY <1>3 DEF Reload
  <2> HIDE DEF next
  <2>3. queue'[p] = next
    BY <1>0, <2>2
  <2>4. CASE queue[p].running
    <3>1. UNCHANGED <<job, step>>
      BY <1>3, <2>4 DEF Reload, RunsAtOnce
    <3>2. <<j>> # <<>>
      OBVIOUS
    <3> QED
      BY <1>1, <1>3, <2>1, <2>2, <2>3, <2>4, <3>1, <3>2 DEF Waiting
  <2>5. CASE ~queue[p].running
    <3>1. Begin(p, j)
      BY <1>3, <2>5 DEF Reload, RunsAtOnce
    <3>2. job'[p] = j /\ step'[p] = (IF j.force THEN "lock" ELSE "check")
      BY <1>0, <3>1 DEF Begin, Goto
    <3>3. step[p] = "none" /\ job[p] = NoJob
      BY <2>5 DEF BootInv
    <3> QED
      BY <1>1, <1>3, <2>1, <2>2, <2>3, <2>5, <3>2, <3>3
  <2> QED
    BY <2>4, <2>5
<1> QED
  BY <1>2, <1>3

\* A process that takes a message runs a reload that nobody asked it for, or is
\* told that a sync is ready.
LEMMA DeliverCases ==
    ASSUME TypeOK, NEW p \in Processes, BootInv(p), Deliver(p)
    PROVE  \/ boot[p] = "up" /\ NoJob \in Jobs /\ ~NoJob.force /\ Reload(p, NoJob)
           \/ /\ Holds(inbox[p], "ready")
              /\ Goto(p, IF step[p] = "wait" THEN "read" ELSE step[p])
              /\ UNCHANGED <<jobVars, unsynced>>
<1> DEFINE box == inbox[p]
<1>1. box \in Seq({"reload", "ready"}) /\ box # <<>> /\ boot[p] \in {"loading", "up"}
  BY DEF TypeOK, Deliver, Alive
<1>2. Holds(box, Head(box))
  <2> HIDE DEF box
  <2> QED
    BY <1>1, BoxOps
<1>3. CASE Head(box) = "reload"
  <2>1. Reload(p, NoJob) /\ NoJob \in Jobs /\ ~NoJob.force
    BY <1>3 DEF Deliver, NoJob, Jobs
  <2> QED
    BY <1>1, <1>2, <1>3, <2>1 DEF BootInv
<1>4. CASE Head(box) = "ready"
  <2>1. Goto(p, IF step[p] = "wait" THEN "read" ELSE step[p])
        /\ UNCHANGED <<jobVars, unsynced>>
    BY <1>4 DEF Deliver
  <2> QED
    BY <1>2, <1>4, <2>1
<1> QED
  BY <1>3, <1>4 DEF Deliver

\* It keeps what is known of the jobs.
LEMMA ReloadKeepsJobs ==
    ASSUME TypeOK, NEW p \in Processes, BootInv(p), JobInv(p), boot[p] = "up", boot'[p] = "up",
           NEW j \in Jobs, Reload(p, j), j.force => j.request
    PROVE  BootInv(p)' /\ JobInv(p)'
<1>0. job[p] \in Jobs /\ NoJob.force = FALSE /\ NoJob.request = FALSE /\ j.request \in BOOLEAN
  BY DEF TypeOK, NoJob, Jobs
<1>1. CASE /\ Waiting(queue[p]) /\ queue'[p] = queue[p] /\ step'[p] = step[p]
           /\ job'[p] = job[p]
  <2>1. BootInv(p)'
    BY <1>1 DEF BootInv
  <2>2. JobInv(p)'
    BY <1>0, <1>1 DEF JobInv
  <2> QED
    BY <2>1, <2>2
<1>2. CASE /\ queue[p].running /\ queue'[p].running /\ queue'[p].jobs = <<j>>
           /\ step'[p] = step[p] /\ job'[p] = job[p]
  <2>1. BootInv(p)'
    BY <1>2 DEF BootInv
  <2>2. \A i \in DOMAIN <<j>> : <<j>>[i] = j
    OBVIOUS
  <2>3. JobInv(p)'
    BY <1>0, <1>2, <2>2 DEF JobInv
  <2> QED
    BY <2>1, <2>3
<1>3. CASE /\ ~queue[p].running /\ queue'[p].running /\ queue'[p].jobs = <<>>
           /\ step[p] = "none" /\ job[p] = NoJob
           /\ job'[p] = j /\ step'[p] = (IF j.force THEN "lock" ELSE "check")
  <2>1. BootInv(p)'
    BY <1>3 DEF BootInv, Waiting
  <2>2. DOMAIN <<>> = {}
    OBVIOUS
  <2>3. JobInv(p)'
    BY <1>0, <1>3, <2>2 DEF JobInv
  <2> QED
    BY <2>1, <2>3
<1> QED
  BY <1>1, <1>2, <1>3, ReloadCases

\* Every step keeps it.
LEMMA JobsStep ==
    ASSUME TypeOK, JobsInv, [Next]_vars
    PROVE  JobsInv'
<1>1. SUFFICES ASSUME NEW p \in Processes PROVE BootInv(p)' /\ JobInv(p)'
  BY DEF JobsInv
<1>0. /\ boot \in [Processes -> {"down", "loading", "up"}] /\ step \in [Processes -> Steps]
      /\ job \in [Processes -> Jobs] /\ queue \in [Processes -> Queues(Jobs)]
      /\ channel \in [Processes -> BOOLEAN] /\ waits \in [Processes -> BOOLEAN]
      /\ inbox \in [Processes -> Seq({"reload", "ready"})]
      /\ Size(queue[p]) <= 1 /\ BootInv(p) /\ JobInv(p) /\ inbox[p] \in Seq({"reload", "ready"})
  BY DEF TypeOK, JobsInv
<1>n. NoJob.force = FALSE /\ NoJob.request = FALSE /\ ~Quiet.running /\ ~Waiting(Quiet)
      /\ NoJob \in Jobs /\ DOMAIN Quiet.jobs = {}
  BY DEF NoJob, Quiet, Waiting, Jobs
\* Reloads come to who is up, and messages to who listens.
<1>m. /\ Holds(inbox[p], "reload")' => Holds(inbox[p], "reload") \/ channel[p]
      /\ inbox[p] = <<>> /\ ~waits[p] /\ ~channel[p] => inbox'[p] = <<>>
  <2>1. /\ Holds(Append(inbox[p], "ready"), "reload") => Holds(inbox[p], "reload")
        /\ inbox[p] # <<>> /\ Holds(Tail(inbox[p]), "reload") => Holds(inbox[p], "reload")
        /\ ~Holds(<<>>, "reload")
    <3> DEFINE box == inbox[p]
    <3>1. box \in Seq({"reload", "ready"})
      BY <1>0
    <3> HIDE DEF box
    <3>2. /\ \A new \in {"reload", "ready"} :
                Holds(Append(box, new), "reload") <=> Holds(box, "reload") \/ new = "reload"
          /\ box # <<>> => (Holds(box, "reload") <=> Head(box) = "reload"
                                                    \/ Holds(Tail(box), "reload"))
          /\ ~Holds(<<>>, "reload")
      BY <3>1, BoxOps
    <3> QED
      BY <3>2 DEF box
  <2>2. Holds(inbox[p], "reload")' <=> Holds(inbox'[p], "reload")
    BY DEF Holds
  <2> QED
    BY <2>1, <2>2, InboxStep
\* The steps of a load.
<1>2. ASSUME NEW s \in Steps, step' = [step EXCEPT ![p] = s], step[p] # "none", s # "none",
             s = "check" => step[p] = "check", boot'[p] = boot[p], job'[p] = job[p],
             queue'[p] = queue[p], channel'[p] = channel[p]
      PROVE  BootInv(p)' /\ JobInv(p)'
  <2>0. step'[p] = s /\ boot[p] # "down"
    BY <1>0, <1>2 DEF BootInv
  <2>1. BootInv(p)'
    BY <1>0, <1>2, <1>m, <2>0 DEF BootInv
  <2>2. JobInv(p)'
    BY <1>0, <1>2, <2>0 DEF JobInv
  <2> QED
    BY <2>1, <2>2
<1>3. CASE Sync(p)
  <2>1. PICK s \in Steps : /\ step' = [step EXCEPT ![p] = s] /\ s # "none" /\ s # "check"
                           /\ step[p] # "none"
    BY <1>3 DEF Sync, CheckStatus, Lock, Subscribe, Clear, List, Copy, PublishReady, Unlock,
       Goto,
       Steps
  <2>2. UNCHANGED <<boot, job, queue, channel>>
    BY <1>3 DEF Sync, CheckStatus, Lock, Subscribe, Clear, List, Copy, PublishReady, Unlock,
       jobVars, busVars
  <2> QED
    BY <1>2, <2>1, <2>2
<1>4. CASE ReadDisk(p) \/ Registers(p)
  <2>1. PICK s \in Steps : /\ step' = [step EXCEPT ![p] = s] /\ s # "none" /\ s # "check"
                           /\ step[p] # "none"
    BY <1>4 DEF ReadDisk, Registers, Register, RegisterKept, Goto, Steps
  <2>2. UNCHANGED <<boot, job, queue, channel>>
    BY <1>4 DEF ReadDisk, Registers, Register, RegisterKept, jobVars, busVars
  <2> QED
    BY <1>2, <2>1, <2>2
<1>5. CASE Start(p)
  <2>1. /\ boot[p] = "down" /\ boot'[p] = "loading" /\ step'[p] = "check"
        /\ UNCHANGED <<job, queue, channel, waits>>
    BY <1>0, <1>5 DEF Start, Goto, Alive, jobVars, busVars
  <2> QED
    BY <1>0, <1>m, <1>n, <2>1 DEF BootInv, JobInv
<1>6. CASE Initialized(p)
  <2>1. /\ boot[p] = "loading" /\ boot'[p] = "up" /\ step'[p] = "none"
        /\ UNCHANGED <<job, queue, channel, waits>>
    BY <1>0, <1>6 DEF Initialized, Goto, jobVars, busVars
  <2> QED
    BY <1>0, <1>n, <2>1 DEF BootInv, JobInv
<1>7. CASE EndReload(p)
  <2>1. /\ boot[p] = "up" /\ boot'[p] = "up" /\ step[p] = "ended"
        /\ queue'[p] = Continue(queue[p])
    BY <1>0, <1>7 DEF EndReload
  <2>2. CASE Waiting(queue[p])
    <3> DEFINE j == Head(queue[p].jobs)
    <3>1. /\ j \in Jobs /\ 1 \in DOMAIN queue[p].jobs /\ j = queue[p].jobs[1]
          /\ queue'[p].jobs = <<>> /\ queue'[p].running
      <4>1. queue[p] \in Queues(Jobs) /\ queue[p].running
        BY <1>0, <2>2 DEF BootInv
      <4>2. /\ Continue(queue[p]).jobs = <<>> /\ Continue(queue[p]).running = queue[p].running
            /\ 1 \in DOMAIN queue[p].jobs /\ j = queue[p].jobs[1] /\ j \in Jobs
        BY <1>0, <2>2, <4>1, ContinueType
      <4> HIDE DEF j
      <4> QED
        BY <2>1, <4>1, <4>2
    <3>2. j.force => j.request
      BY <1>0, <3>1 DEF JobInv
    <3>3. Begin(p, j)
      BY <1>7, <2>2 DEF EndReload
    <3> HIDE DEF j
    <3>4. job'[p] = j /\ step'[p] = (IF j.force THEN "lock" ELSE "check")
      BY <1>0, <3>3 DEF Begin, Goto
    <3>5. BootInv(p)'
      BY <1>0, <2>1, <3>1, <3>4 DEF BootInv, Waiting
    <3>6. JobInv(p)'
      BY <1>0, <2>1, <3>1, <3>2, <3>4 DEF JobInv
    <3> QED
      BY <3>5, <3>6
  <2>3. CASE ~Waiting(queue[p])
    <3>1. queue'[p] = Quiet /\ job'[p] = NoJob /\ step'[p] = "none"
      BY <1>0, <1>7, <2>1, <2>3 DEF EndReload, Continue, Goto
    <3> QED
      BY <1>n, <2>1, <3>1 DEF BootInv, JobInv
  <2> QED
    BY <2>2, <2>3
<1>8. CASE Listen(p)
  <2>1. /\ boot[p] = "up" /\ UNCHANGED <<boot, step, job, queue>>
    BY <1>8 DEF Listen, jobVars
  <2> QED
    BY <1>0, <2>1 DEF BootInv, JobInv
<1>9. CASE Deliver(p)
  <2>1. /\ boot[p] # "down" /\ boot' = boot /\ channel' = channel /\ waits' = waits
        /\ inbox[p] # <<>>
    BY <1>9 DEF Deliver, Alive
  <2>2. CASE Head(inbox[p]) = "reload" /\ Reload(p, NoJob)
    <3>1. boot[p] = "up"
      BY <1>0, <2>1, <2>2, BoxOps DEF BootInv
    <3> QED
      BY <1>0, <1>n, <2>1, <2>2, <3>1, ReloadKeepsJobs
  <2>3. CASE /\ Goto(p, IF step[p] = "wait" THEN "read" ELSE step[p])
             /\ UNCHANGED <<jobVars, unsynced>>
    <3>1. CASE step[p] = "wait"
      <4>1. step' = [step EXCEPT ![p] = "read"] /\ "read" \in Steps
        BY <2>3, <3>1 DEF Goto, Steps
      <4> QED
        BY <1>2, <2>1, <2>3, <3>1, <4>1 DEF jobVars
    <3>2. CASE step[p] # "wait"
      <4>1. step'[p] = step[p] /\ UNCHANGED <<job, queue>>
        BY <1>0, <2>3, <3>2 DEF Goto, jobVars
      <4> QED
        BY <1>0, <1>m, <2>1, <4>1 DEF BootInv, JobInv
    <3> QED
      BY <3>1, <3>2
  <2> QED
    BY <1>9, <2>2, <2>3 DEF Deliver
<1>11. CASE Install(p) \/ Toggle(p)
  <2>1. PICK j \in Jobs : Reload(p, j) /\ j.request
    <3>1. \A f \in BOOLEAN : [force |-> f, request |-> TRUE] \in Jobs
                             /\ [force |-> f, request |-> TRUE].request
      BY DEF Jobs
    <3> QED
      BY <1>11, <3>1 DEF Install, Toggle, Request
  <2>2. boot[p] = "up" /\ boot'[p] = "up"
    BY <1>11 DEF Install, Toggle, MayInstall, MayToggle
  <2> QED
    BY <1>0, <2>1, <2>2, ReloadKeepsJobs
<1>12. CASE Dies(p)
  <2>1. /\ boot'[p] = "down" /\ step'[p] = "none" /\ job'[p] = NoJob /\ queue'[p] = Quiet
        /\ ~channel'[p] /\ ~waits'[p] /\ inbox'[p] = <<>>
    BY <1>0, <1>12 DEF Dies, Crash, SyncFails, Stops, Goto
  <2>2. ~Holds(inbox'[p], "reload")
    BY <2>1 DEF Holds
  <2> QED
    BY <1>n, <2>1, <2>2 DEF BootInv, JobInv, Holds
<1>13. CASE Same(p)
  BY <1>0, <1>13, <1>m DEF Same, BootInv, JobInv
<1> QED
  BY <1>3, <1>4, <1>5, <1>6, <1>7, <1>8, <1>9, <1>11, <1>12, <1>13, ActsAlone DEF ActsOf

-----------------------------------------------------------------------------
(* No change is lost.                                                        *)

\* The process will load what it has loaded once more.
Later(p) ==
    \/ Waiting(queue[p])
    \/ Holds(inbox[p], "reload")
    \/ \E q \in Processes \ {p} : Owes(q)

\* A process that runs no job, and has none wait, owes nothing.
LEMMA QuietOwes ==
    ASSUME TypeOK, NEW p \in Processes
    PROVE  /\ Owes(p) => job[p].request \/ (Waiting(queue[p]) /\ Head(queue[p].jobs).request)
           /\ job[p].request => Owes(p)
           /\ \A i \in DOMAIN queue[p].jobs : queue[p].jobs[i].request => Owes(p)
<1> DEFINE jobs == queue[p].jobs
<1>1. queue[p] \in Queues(Jobs) /\ Size(queue[p]) <= 1
  BY DEF TypeOK
<1>2. jobs \in Seq(Jobs) /\ Len(jobs) <= 1
  BY <1>1 DEF Queues, Size
<1>3. ASSUME NEW i \in DOMAIN jobs PROVE i = 1 /\ jobs # <<>> /\ Head(jobs) = jobs[1]
  <2> HIDE DEF jobs
  <2>1. Len(jobs) \in Nat /\ DOMAIN jobs = 1 .. Len(jobs)
    BY <1>2, LenProperties
  <2>2. i = 1 /\ jobs # <<>>
    BY <1>2, <1>3, <2>1, EmptySeq
  <2> QED
    BY <1>2, <2>2, HeadTailProperties
<1>4. Owes(p) => job[p].request \/ (Waiting(queue[p]) /\ Head(queue[p].jobs).request)
  BY <1>3 DEF Owes, JobsOf, Waiting
<1> QED
  BY <1>4 DEF Owes, JobsOf

\* A request goes on until it is broadcast.
LEMMA RequestStays ==
    ASSUME TypeOK, JobsInv, [Next]_vars, NEW p \in Processes, Owes(p)
    PROVE  Owes(p)' \/ Broadcast(p) \/ Dies(p)
<1>0. /\ queue \in [Processes -> Queues(Jobs)] /\ job \in [Processes -> Jobs] /\ BootInv(p)
      /\ boot \in [Processes -> {"down", "loading", "up"}] /\ TypeOK'
  BY TypeStep DEF TypeOK, JobsInv
<1>1. boot[p] = "up"
  <2>1. NoJob.request = FALSE /\ ~Waiting(Quiet)
    BY DEF NoJob, Quiet, Waiting
  <2> QED
    BY <1>0, <2>1, QuietOwes DEF BootInv
<1>2. ASSUME job'[p] = job[p], queue'[p] = queue[p] PROVE Owes(p)'
  BY <1>2 DEF Owes, JobsOf
<1>3. job'[p].request => Owes(p)'
  BY DEF Owes, JobsOf
<1>4. ASSUME NEW j \in Jobs, Reload(p, j) PROVE Owes(p)'
  <2>1. NoJob.request = FALSE
    BY DEF NoJob
  <2>2. CASE queue'[p] = queue[p] /\ job'[p] = job[p]
    BY <1>2, <2>2
  <2>3. CASE ~Waiting(queue[p]) /\ job'[p] = job[p]
    BY <1>3, <2>3, QuietOwes
  <2>4. CASE ~Waiting(queue[p]) /\ job[p] = NoJob
    BY <2>1, <2>4, QuietOwes
  <2> QED
    BY <1>0, <1>1, <1>4, <2>2, <2>3, <2>4, ReloadCases
<1>5. CASE Sync(p) \/ Start(p) \/ ReadDisk(p) \/ Registers(p) \/ Initialized(p) \/ Listen(p)
  <2>1. job' = job /\ queue' = queue
    BY <1>5 DEF Sync, CheckStatus, Lock, Subscribe, Clear, List, Copy, PublishReady, Unlock,
       Start,
       ReadDisk, Registers, Register, RegisterKept, Initialized, Listen, jobVars
  <2> QED
    BY <1>2, <2>1
<1>6. CASE EndReload(p)
  <2>1. CASE job[p].request
    BY <1>6, <2>1 DEF EndReload
  <2>2. CASE ~job[p].request
    <3>1. Waiting(queue[p]) /\ Head(queue[p].jobs).request
      BY <2>2, QuietOwes
    <3>2. Begin(p, Head(queue[p].jobs))
      BY <1>6, <3>1 DEF EndReload
    <3>3. job'[p] = Head(queue[p].jobs)
      BY <1>0, <3>2 DEF Begin
    <3> QED
      BY <1>3, <3>1, <3>3
  <2> QED
    BY <2>1, <2>2
<1>7. CASE Deliver(p)
  <2>1. CASE Reload(p, NoJob)
    BY <1>4, <2>1 DEF NoJob, Jobs
  <2>2. CASE UNCHANGED jobVars
    BY <1>2, <2>2 DEF jobVars
  <2> QED
    BY <1>7, <2>1, <2>2 DEF Deliver
<1>8. CASE Install(p) \/ Toggle(p)
  BY <1>4, <1>8 DEF Install, Toggle, Request, Jobs
<1>9. CASE Same(p)
  BY <1>2, <1>9 DEF Same
<1> QED
  BY <1>5, <1>6, <1>7, <1>8, <1>9, ActsAlone DEF ActsOf

\* A job that waits goes on waiting, or begins.
LEMMA WaitingStays ==
    ASSUME TypeOK, JobsInv, [Next]_vars, NEW p \in Processes, Waiting(queue[p])
    PROVE  Waiting(queue'[p]) \/ step'[p] \in {"check", "lock"} \/ Dies(p)
<1>0. /\ step \in [Processes -> Steps] /\ BootInv(p)
      /\ boot \in [Processes -> {"down", "loading", "up"}]
  BY DEF TypeOK, JobsInv
<1>1. boot[p] = "up"
  BY <1>0 DEF BootInv, Quiet, Waiting
<1>2. ASSUME NEW j \in Jobs, Reload(p, j) PROVE Waiting(queue'[p])
  BY <1>0, <1>1, <1>2, ReloadCases
<1>3. CASE Sync(p) \/ Start(p) \/ ReadDisk(p) \/ Registers(p) \/ Initialized(p) \/ Listen(p)
  BY <1>3 DEF Sync, CheckStatus, Lock, Subscribe, Clear, List, Copy, PublishReady, Unlock,
     Start,
     ReadDisk, Registers, Register, RegisterKept, Initialized, Listen, jobVars
<1>4. CASE EndReload(p)
  <2>1. Begin(p, Head(queue[p].jobs))
    BY <1>4 DEF EndReload
  <2> QED
    BY <1>0, <2>1 DEF Begin, Goto
<1>5. CASE Deliver(p)
  <2>1. NoJob \in Jobs
    BY DEF NoJob, Jobs
  <2> QED
    BY <1>2, <1>5, <2>1 DEF Deliver, jobVars
<1>6. CASE Install(p) \/ Toggle(p)
  BY <1>2, <1>6 DEF Install, Toggle, Request, Jobs
<1> QED
  BY <1>3, <1>4, <1>5, <1>6, ActsAlone DEF ActsOf, Same

\* So does a message to reload, until it is delivered.
LEMMA ReloadStays ==
    ASSUME TypeOK, JobsInv, [Next]_vars, NEW p \in Processes, Holds(inbox[p], "reload")
    PROVE  \/ Holds(inbox'[p], "reload") \/ Waiting(queue'[p])
           \/ step'[p] \in {"check", "lock"} \/ Dies(p)
<1> DEFINE box == inbox[p]
<1>0. /\ boot \in [Processes -> {"down", "loading", "up"}] /\ BootInv(p)
      /\ box \in Seq({"reload", "ready"})
  BY DEF TypeOK, JobsInv
<1>1. boot[p] = "up"
  BY <1>0 DEF BootInv
<1>2. CASE box # <<>> /\ inbox'[p] = Tail(box) /\ Deliver(p)
  <2>1. Head(box) = "reload" \/ Holds(Tail(box), "reload")
    <3> HIDE DEF box
    <3> QED
      BY <1>0, <1>2, BoxOps DEF box
  <2>2. CASE Head(box) = "reload"
    <3>1. Reload(p, NoJob) /\ NoJob \in Jobs
      BY <1>2, <2>2 DEF Deliver, NoJob, Jobs
    <3> QED
      BY <1>0, <1>1, <3>1, ReloadCases
  <2> QED
    BY <1>2, <2>1, <2>2
<1>3. CASE inbox'[p] = Append(box, "ready") \/ inbox'[p] = Append(box, "reload")
  <2>1. Holds(Append(box, "ready"), "reload") /\ Holds(Append(box, "reload"), "reload")
    <3>1. Holds(box, "reload")
      OBVIOUS
    <3> HIDE DEF box
    <3> QED
      BY <1>0, <3>1, BoxOps
  <2> QED
    BY <1>3, <2>1
<1> QED
  BY <1>2, <1>3, InboxStep

\* A broadcast comes to every process that receives messages.
LEMMA BroadcastComes ==
    ASSUME TypeOK, NEW q \in Processes, NEW p \in Processes \ {q}, Broadcast(q)
    PROVE  Holds(inbox'[p], "reload") \/ missed'[p] \/ ~HasRead(p)
<1>1. CASE channel[p]
  <2>1. inbox'[p] = Append(inbox[p], "reload")
    BY <1>1 DEF Broadcast
  <2>2. Holds(Append(inbox[p], "reload"), "reload")
    <3> DEFINE box == inbox[p]
    <3>1. box \in Seq({"reload", "ready"})
      BY DEF TypeOK
    <3> HIDE DEF box
    <3>2. Holds(Append(box, "reload"), "reload")
      BY <3>1, BoxOps
    <3> QED
      BY <3>2 DEF box
  <2> QED
    BY <2>1, <2>2
<1>2. CASE ~channel[p]
  <2>1. missed'[p] = (missed[p] \/ (p # q /\ HasRead(p) /\ ~channel[p]))
    BY DEF Broadcast
  <2> QED
    BY <1>2, <2>1
<1> QED
  BY <1>1, <1>2

\* What the process will load once more is not lost, unless it has not read it
\* yet, or the change passes it by.
LEMMA LaterStays ==
    ASSUME TypeOK, JobsInv, [Next]_vars, NEW p \in Processes, Later(p), Alive(p)', ~missed'[p]
    PROVE  Later(p)' \/ step'[p] \in {"check", "lock"} \/ ~HasRead(p)
<1>0. /\ boot \in [Processes -> {"down", "loading", "up"}]
      /\ missed \in [Processes -> BOOLEAN]
  BY DEF TypeOK
<1>1. ~Dies(p)
  <2>1. Dies(p) => boot'[p] = "down"
    BY <1>0 DEF Dies, Crash, SyncFails, Stops
  <2> QED
    BY <2>1 DEF Alive
<1>2. CASE Waiting(queue[p]) \/ Holds(inbox[p], "reload")
  BY <1>1, <1>2, WaitingStays, ReloadStays DEF Later, Holds
<1>3. ASSUME NEW q \in Processes \ {p}, Owes(q)
      PROVE  Later(p)' \/ ~HasRead(p)
  <2>1. CASE Owes(q)'
    BY <2>1 DEF Later
  <2>2. CASE Broadcast(q)
    BY <1>3, <2>2, BroadcastComes DEF Later, Holds
  <2>3. CASE Dies(q)
    <3>1. missed'[p] = (p # q /\ (missed[p] \/ (Owes(q) /\ HasRead(p))))
      BY <2>3 DEF Dies, Crash, SyncFails, Stops
    <3> QED
      BY <1>3, <2>3, <3>1
  <2> QED
    BY <1>3, <2>1, <2>2, <2>3, RequestStays
<1> QED
  BY <1>2, <1>3 DEF Later

\* A process that a change passed by stays such until it ends.
LEMMA MissedStays ==
    ASSUME TypeOK, [Next]_vars, NEW p \in Processes, Alive(p)', ~missed'[p]
    PROVE  ~missed[p]
<1>0. /\ boot \in [Processes -> {"down", "loading", "up"}] /\ missed \in [Processes -> BOOLEAN]
  BY DEF TypeOK
<1>1. ASSUME NEW q \in Processes, Dies(q) PROVE ~missed[p]
  <2>1. missed'[p] = (p # q /\ (missed[p] \/ (Owes(q) /\ HasRead(p)))) /\ boot'[q] = "down"
    BY <1>0, <1>1 DEF Dies, Crash, SyncFails, Stops
  <2> QED
    BY <2>1 DEF Alive
<1>2. ASSUME NEW q \in Processes, Broadcast(q) \/ UNCHANGED missed PROVE ~missed[p]
  BY <1>2 DEF Broadcast
<1>3. ASSUME NEW q \in Processes,
             Sync(q) \/ ReadDisk(q) \/ Registers(q) \/ Initialized(q) \/ Listen(q) \/ Start(q)
      PROVE  ~missed[p]
  BY <1>3 DEF Sync, CheckStatus, Lock, Subscribe, Clear, List, Copy, PublishReady, Unlock,
     ReadDisk, Registers, Register, RegisterKept, Initialized, Listen, Start, historyVars
<1>4. ASSUME NEW q \in Processes, EndReload(q) \/ Deliver(q) \/ InstallFails(q) PROVE ~missed[p]
  BY <1>2, <1>4 DEF EndReload, Deliver, InstallFails
<1>5. ASSUME NEW q \in Processes, Install(q) \/ Toggle(q) PROVE ~missed[p]
  BY <1>2, <1>5 DEF Install, Toggle, Request
<1>6. CASE UNCHANGED vars
  BY <1>6 DEF vars, historyVars
<1> QED
  BY <1>1, <1>3, <1>4, <1>5, <1>6 DEF Next, Works, Load, Fails, Registers, Dies

\* What a process has kept it keeps until it reads it.
LEMMA KeptStays ==
    ASSUME TypeOK, [Next]_vars, NEW p \in Processes, Alive(p)',
           NEW what \in {"exts", "conf"}, what \notin kept'[p]
    PROVE  what \notin kept[p] \/ (what = "exts" /\ ReadDisk(p)) \/ (what = "conf" /\ Register(p))
<1>0. kept \in [Processes -> SUBSET {"exts", "conf"}]
      /\ boot \in [Processes -> {"down", "loading", "up"}]
  BY DEF TypeOK
<1>1. ASSUME NEW q \in Processes, Dies(q) PROVE what \notin kept[p]
  <2>1. kept' = [kept EXCEPT ![q] = {}] /\ boot'[q] = "down"
    BY <1>0, <1>1 DEF Dies, Crash, SyncFails, Stops
  <2> QED
    BY <1>0, <2>1 DEF Alive
<1>2. ASSUME NEW q \in Processes, ReadDisk(q)
      PROVE  what \notin kept[p] \/ (what = "exts" /\ ReadDisk(p))
  <2>1. kept' = [kept EXCEPT ![q] = @ \ {"exts"}]
    BY <1>2 DEF ReadDisk
  <2> QED
    BY <1>0, <1>2, <2>1
<1>3. ASSUME NEW q \in Processes, Register(q)
      PROVE  what \notin kept[p] \/ (what = "conf" /\ Register(p))
  <2>1. kept' = [kept EXCEPT ![q] = @ \ {"conf"}]
    BY <1>3 DEF Register
  <2> QED
    BY <1>0, <1>3, <2>1
<1>4. ASSUME NEW q \in Processes, RegisterKept(q) PROVE what \notin kept[p]
  <2>1. kept' = [kept EXCEPT ![q] =
                     IF step[q] = "read" THEN {"exts", "conf"} ELSE @ \cup {"conf"}]
    BY <1>4 DEF RegisterKept
  <2> QED
    BY <1>0, <2>1
<1>5. ASSUME NEW q \in Processes, Sync(q) \/ Initialized(q) \/ Listen(q) \/ Start(q)
      PROVE  what \notin kept[p]
  BY <1>5 DEF Sync, CheckStatus, Lock, Subscribe, Clear, List, Copy, PublishReady, Unlock,
     Initialized, Listen, Start, historyVars
<1>6. ASSUME NEW q \in Processes,
             EndReload(q) \/ Deliver(q) \/ Install(q) \/ Toggle(q) \/ InstallFails(q)
      PROVE  what \notin kept[p]
  BY <1>6 DEF EndReload, Deliver, Install, Toggle, InstallFails
<1>7. CASE UNCHANGED vars
  BY <1>7 DEF vars, historyVars
<1> QED
  BY <1>1, <1>2, <1>3, <1>4, <1>5, <1>6, <1>7 DEF Next, Works, Load, Fails, Dies

\* To the others a change comes later: its request has still to broadcast, or
\* broadcasts now.
LEMMA ChangeIsLater ==
    ASSUME TypeOK, JobsInv, NEW p \in Processes, NEW q \in Processes, p # q,
           Install(q) \/ Toggle(q), ~missed'[p]
    PROVE  Later(p)' \/ ~HasRead(p)
<1>0. BootInv(q) /\ boot[q] = "up"
  BY DEF JobsInv, Install, Toggle, MayInstall, MayToggle
<1>1. PICK j \in Jobs : j.request /\ Request(q, j)
  <2>1. \A f \in BOOLEAN : [force |-> f, request |-> TRUE] \in Jobs
                           /\ [force |-> f, request |-> TRUE].request
    BY DEF Jobs
  <2> QED
    BY <2>1 DEF Install, Toggle
<1>2. CASE Coalesces(queue[q])
  <2>1. Broadcast(q)
    BY <1>1, <1>2 DEF Request
  <2> QED
    BY <2>1, BroadcastComes DEF Later, Holds
<1>3. CASE ~Coalesces(queue[q])
  <2>1. Reload(q, j)
    BY <1>1 DEF Request
  <2>2. queue'[q].jobs = <<j>> \/ job'[q] = j
    BY <1>0, <1>3, <2>1, ReloadCases
  <2>3. 1 \in DOMAIN <<j>> /\ <<j>>[1] = j
    OBVIOUS
  <2>4. Owes(q)'
    BY <1>1, <2>2, <2>3 DEF Owes, JobsOf
  <2> QED
    BY <2>4 DEF Later
<1> QED
  BY <1>2, <1>3

\* A process that is asked itself runs a job, or has one wait.
LEMMA OwnChangeIsLater ==
    ASSUME TypeOK, JobsInv, NEW p \in Processes, Install(p) \/ Toggle(p)
    PROVE  Later(p)' \/ step'[p] \in {"check", "lock"}
<1>1. PICK j \in Jobs : Reload(p, j)
  BY DEF Install, Toggle, Request, Jobs
<1>2. boot[p] = "up" /\ BootInv(p)
  BY DEF Install, Toggle, MayInstall, MayToggle, JobsInv
<1> QED
  BY <1>1, <1>2, ReloadCases DEF Later

\* How a process comes to have loaded what it has loaded.
LEMMA LoadedStep ==
    ASSUME TypeOK, JobsInv, [Next]_vars, NEW p \in Processes, Alive(p)',
           step'[p] \in {"none", "ended"}
    PROVE  \/ Registers(p)
           \/ Later(p)'
           \/ /\ Alive(p) /\ step[p] \in {"none", "ended"}
              /\ conf'[p] = conf[p] /\ exts'[p] = exts[p]
              /\ ~Install(p) /\ ~Toggle(p)
<1>0. /\ boot \in [Processes -> {"down", "loading", "up"}] /\ step \in [Processes -> Steps]
      /\ BootInv(p)
  BY DEF TypeOK, JobsInv
<1>1. ~Sync(p) /\ ~Start(p) /\ ~ReadDisk(p)
  BY <1>0 DEF Sync, CheckStatus, Lock, Subscribe, Clear, List, Copy, PublishReady, Unlock,
     Start,
     ReadDisk, Goto
<1>2. ~Dies(p)
  <2>1. Dies(p) => boot'[p] = "down"
    BY <1>0 DEF Dies, Crash, SyncFails, Stops
  <2> QED
    BY <2>1 DEF Alive
<1>3. Install(p) \/ Toggle(p) => Later(p)'
  BY OwnChangeIsLater
<1>4. CASE Initialized(p) /\ ~Install(p) /\ ~Toggle(p)
  BY <1>4 DEF Initialized, loadVars, Alive
<1>5. CASE EndReload(p) /\ ~Install(p) /\ ~Toggle(p)
  <2>1. ~Waiting(queue[p])
    BY <1>0, <1>5 DEF EndReload, Begin, Goto
  <2> QED
    BY <1>5, <2>1 DEF EndReload, Alive, loadVars
<1>6. CASE Listen(p) /\ ~Install(p) /\ ~Toggle(p)
  BY <1>6 DEF Listen, loadVars, Alive
<1>7. CASE Deliver(p) /\ ~Install(p) /\ ~Toggle(p)
  <2>1. boot' = boot /\ UNCHANGED <<conf, exts>>
    BY <1>7 DEF Deliver, loadVars
  <2>2. CASE boot[p] = "up" /\ NoJob \in Jobs /\ Reload(p, NoJob)
    <3>1. UNCHANGED step \/ Later(p)' \/ step'[p] \in {"check", "lock"}
      BY <1>0, <2>2, ReloadCases DEF Later, Reload
    <3>2. step'[p] \notin {"check", "lock"}
      OBVIOUS
    <3> QED
      BY <1>7, <2>1, <3>1, <3>2 DEF Alive
  <2>3. CASE Goto(p, IF step[p] = "wait" THEN "read" ELSE step[p])
    BY <1>0, <1>7, <2>1, <2>3 DEF Goto, Alive
  <2> QED
    BY <1>0, <1>7, <2>2, <2>3, DeliverCases
<1>8. CASE Same(p) /\ ~Install(p) /\ ~Toggle(p)
  BY <1>8 DEF Same, Alive
<1> QED
  BY <1>1, <1>2, <1>3, <1>4, <1>5, <1>6, <1>7, <1>8, ActsAlone DEF ActsOf

\* A process has the settings of the database, or will load them, unless its
\* last load could not read them.
SettingsInv == \A p \in Processes :
    Alive(p) /\ ~missed[p] /\ "conf" \notin kept[p] =>
        conf[p] = settings \/ step[p] \notin {"none", "ended"} \/ Later(p)

\* Only who toggles changes the settings.
LEMMA SettingsChange ==
    ASSUME [Next]_vars
    PROVE  settings' = settings \/ \E q \in Processes : Toggle(q)
<1>1. ASSUME NEW q \in Processes, Start(q) \/ Works(q) \/ Install(q) \/ Fails(q)
      PROVE  settings' = settings
  BY <1>1 DEF Start, Works, Sync, CheckStatus, Lock, Subscribe, Clear, List, Copy, PublishReady,
     Unlock, Load, ReadDisk, Register, Initialized, EndReload, Listen, Deliver, Install, Fails,
     Crash, SyncFails, Stops, RegisterKept, InstallFails, storeVars
<1>2. UNCHANGED vars => settings' = settings
  BY DEF vars, storeVars
<1> QED
  BY <1>1, <1>2 DEF Next

\* Every step keeps it.
LEMMA SettingsStep ==
    ASSUME TypeOK, JobsInv, SettingsInv, [Next]_vars
    PROVE  SettingsInv'
<1>1. SUFFICES ASSUME NEW p \in Processes, Alive(p)', ~missed'[p], "conf" \notin kept'[p],
                      step'[p] \in {"none", "ended"}, ~Later(p)'
               PROVE  conf'[p] = settings'
  BY DEF SettingsInv
<1>2. ~missed[p]
  BY <1>1, MissedStays
<1>3. CASE Register(p)
  BY <1>3 DEF Register, storeVars, TypeOK
<1>4. ASSUME RegisterKept(p) PROVE FALSE
  BY <1>1, <1>4 DEF RegisterKept, TypeOK
<1>5. CASE /\ Alive(p) /\ step[p] \in {"none", "ended"} /\ conf'[p] = conf[p]
           /\ ~Toggle(p)
  <2>1. HasRead(p)
    <3>1. boot[p] \in {"loading", "up"} /\ BootInv(p)
      BY <1>5 DEF TypeOK, Alive, JobsInv
    <3> QED
      BY <1>5, <3>1 DEF BootInv, HasRead
  <2>2. ~Later(p)
    BY <1>1, <2>1, LaterStays
  <2>3. settings' = settings
    BY <1>1, <1>5, <2>1, SettingsChange, ChangeIsLater
  <2>4. "conf" \notin kept[p]
    <3>1. ~Register(p)
      BY <1>5 DEF Register
    <3> QED
      BY <1>1, <3>1, KeptStays
  <2> QED
    BY <1>2, <1>5, <2>2, <2>3, <2>4 DEF SettingsInv
<1> QED
  BY <1>1, <1>3, <1>4, <1>5, LoadedStep DEF Registers

\* When all is done nothing comes later.
LEMMA NothingLater ==
    ASSUME TypeOK, JobsInv, Settled, NEW p \in Processes
    PROVE  ~Later(p)
<1>1. ASSUME NEW q \in Processes PROVE ~Waiting(queue[q]) /\ ~Owes(q)
  <2>1. boot[q] \in {"down", "loading", "up"} /\ BootInv(q) /\ step[q] = "none"
    BY DEF TypeOK, JobsInv, Settled
  <2>2. ~Waiting(Quiet) /\ ~NoJob.request
    BY DEF Quiet, Waiting, NoJob
  <2>3. ~Waiting(queue[q]) /\ job[q] = NoJob
    BY <2>1, <2>2 DEF BootInv, Quiet
  <2> QED
    BY <2>2, <2>3, QuietOwes
<1>2. inbox[p] = <<>>
  BY DEF Settled
<1> QED
  BY <1>1, <1>2 DEF Later, Holds

\* Types and jobs.
LEMMA JobsInductive == Spec => [](TypeOK /\ JobsInv)
<1>1. Init => TypeOK
  BY InitType
<1>2. Init => JobsInv
  <2>1. NoJob.force = FALSE /\ NoJob.request = FALSE /\ ~Waiting(Quiet) /\ DOMAIN Quiet.jobs = {}
        /\ \A msg : ~Holds(<<>>, msg)
    BY DEF NoJob, Quiet, Waiting, Holds
  <2> QED
    BY <2>1 DEF Init, JobsInv, BootInv, JobInv
<1>3. TypeOK /\ JobsInv /\ [Next]_vars => TypeOK' /\ JobsInv'
  BY TypeStep, JobsStep
<1> QED
  BY <1>1, <1>2, <1>3, PTL DEF Spec

\* Reloads that are coalesced, of requests that overlap, lose no change of the
\* settings (SettingsCurrent).
THEOREM SettingsAreCurrent == Spec => []SettingsCurrent
<1>1. Init => SettingsInv
  BY DEF Init, SettingsInv, Alive
<1>2. TypeOK /\ JobsInv /\ SettingsInv /\ [Next]_vars => SettingsInv'
  BY SettingsStep
<1>3. TypeOK /\ JobsInv /\ SettingsInv => SettingsCurrent
  <2>1. SUFFICES ASSUME TypeOK, JobsInv, SettingsInv, Settled, NEW p \in Processes,
                        boot[p] = "up", ~missed[p], "conf" \notin kept[p]
                 PROVE  conf[p] = settings
    BY DEF SettingsCurrent
  <2>2. step[p] = "none" /\ Alive(p)
    BY <2>1 DEF Settled, Alive
  <2> QED
    BY <2>1, <2>2, NothingLater DEF SettingsInv
<1> QED
  BY <1>1, <1>2, <1>3, JobsInductive, PTL DEF Spec

-----------------------------------------------------------------------------
(* The lock of syncExtensions.                                               *)

\* The key of the lock is there as long as a process syncs: it is deleted by the
\* one that syncs, when it ends, and a crash leaves it behind.
SyncInv ==
    /\ lock \in Nat
    /\ step \in [Processes -> Steps]
    /\ \A p \in Processes : step[p] \in Syncing => lock > 0
    /\ OneSyncer

\* A step that starts no sync, and deletes no lock, keeps the invariant.
LEMMA NoneStarts ==
    ASSUME SyncInv, lock' \in Nat, lock' >= lock, NEW p \in Processes, NEW s \in Steps,
           step' = [step EXCEPT ![p] = s], s \in Syncing => step[p] \in Syncing
    PROVE  SyncInv'
<1>1. \A q \in Processes : step'[q] \in Syncing => step[q] \in Syncing
  BY DEF SyncInv
<1>2. lock > 0 => lock' > 0
  BY DEF SyncInv
<1>3. step' \in [Processes -> Steps]
  BY DEF SyncInv
<1>4. OneSyncer'
  BY <1>1 DEF SyncInv, OneSyncer
<1> QED
  BY <1>1, <1>2, <1>3, <1>4 DEF SyncInv

\* So does a process that stops syncing and deletes the lock: no other syncs.
LEMMA SyncerLeaves ==
    ASSUME SyncInv, lock' = 0, NEW p \in Processes, step[p] \in Syncing,
           NEW s \in Steps \ Syncing, step' = [step EXCEPT ![p] = s]
    PROVE  SyncInv'
<1>1. \A q \in Processes : step'[q] \notin Syncing
  BY DEF SyncInv, OneSyncer
<1>2. step' \in [Processes -> Steps]
  BY DEF SyncInv
<1> QED
  BY <1>1, <1>2 DEF SyncInv, OneSyncer

\* Every step keeps the invariant: the sync starts at the increment from 0, when
\* nobody syncs.
LEMMA SyncStep ==
    ASSUME SyncInv, [Next]_vars
    PROVE  SyncInv'
<1>1. ASSUME UNCHANGED <<step, lock>> PROVE SyncInv'
  BY <1>1 DEF SyncInv, OneSyncer
<1>2. ASSUME NEW p \in Processes, NEW s \in Steps, Goto(p, s), lock' = lock,
             s \in Syncing => step[p] \in Syncing
      PROVE  SyncInv'
  <2>1. lock' \in Nat /\ lock' >= lock
    BY <1>2 DEF SyncInv
  <2> QED
    BY <1>2, <2>1, NoneStarts DEF Goto
<1>3. ASSUME NEW p \in Processes, Lock(p) PROVE SyncInv'
  <2>1. CASE lock = 0
    <3>1. lock' = 1 /\ step' = [step EXCEPT ![p] = "clear"]
      BY <1>3, <2>1 DEF Lock, Goto, SyncInv
    <3>2. step' \in [Processes -> Steps]
      BY <3>1 DEF SyncInv, Steps
    <3>3. \A q \in Processes : step'[q] \in Syncing => q = p
      BY <2>1, <3>1 DEF SyncInv
    <3> QED
      BY <3>1, <3>2, <3>3 DEF SyncInv, OneSyncer
  <2>2. CASE lock > 0
    <3>1. PICK s \in {"wait", "subscribe"} : step' = [step EXCEPT ![p] = s]
      BY <1>3, <2>2 DEF Lock, Goto
    <3>2. lock' \in Nat /\ lock' >= lock
      BY <1>3 DEF Lock, SyncInv
    <3> QED
      BY <3>1, <3>2, NoneStarts DEF Steps, Syncing
  <2> QED
    BY <2>1, <2>2 DEF SyncInv
<1>4. ASSUME NEW p \in Processes, Unlock(p) PROVE SyncInv'
  BY <1>4, SyncerLeaves DEF Unlock, Goto, Steps, Syncing
<1>5. ASSUME NEW p \in Processes, Start(p) \/ CheckStatus(p) \/ Subscribe(p) PROVE SyncInv'
  BY <1>2, <1>5 DEF Start, CheckStatus, Subscribe, storeVars, Steps, Syncing
<1>6. ASSUME NEW p \in Processes, Clear(p) \/ List(p) \/ Copy(p) \/ PublishReady(p)
      PROVE  SyncInv'
  BY <1>2, <1>6 DEF Clear, List, Copy, PublishReady, storeVars, Steps, Syncing
<1>7. ASSUME NEW p \in Processes, ReadDisk(p) \/ Registers(p) \/ Initialized(p) PROVE SyncInv'
  BY <1>2, <1>7 DEF ReadDisk, Registers, Register, RegisterKept, Initialized, storeVars,
     Steps, Syncing
<1>8. ASSUME NEW p \in Processes, NEW j, Begin(p, j), lock' = lock PROVE SyncInv'
  BY <1>2, <1>8 DEF Begin, Steps, Syncing
<1>9. ASSUME NEW p \in Processes, NEW j, Reload(p, j), lock' = lock PROVE SyncInv'
  BY <1>1, <1>8, <1>9 DEF Reload
<1>10. ASSUME NEW p \in Processes, EndReload(p) PROVE SyncInv'
  BY <1>2, <1>8, <1>10 DEF EndReload, storeVars, Steps, Syncing
<1>11. ASSUME NEW p \in Processes, Deliver(p) PROVE SyncInv'
  <2>1. lock' = lock
    BY <1>11 DEF Deliver, storeVars
  <2>2. CASE Reload(p, NoJob)
    BY <1>9, <2>1, <2>2
  <2>3. CASE Goto(p, IF step[p] = "wait" THEN "read" ELSE step[p])
    BY <1>2, <2>1, <2>3 DEF SyncInv, Steps, Syncing
  <2> QED
    BY <1>11, <2>2, <2>3 DEF Deliver
<1>12. ASSUME NEW p \in Processes, Install(p) \/ Toggle(p) PROVE SyncInv'
  BY <1>9, <1>12 DEF Install, Toggle, Request
<1>13. ASSUME NEW p \in Processes, Listen(p) \/ InstallFails(p) PROVE SyncInv'
  BY <1>1, <1>13 DEF Listen, InstallFails, storeVars
<1>14. ASSUME NEW p \in Processes, Crash(p) PROVE SyncInv'
  BY <1>2, <1>14 DEF Crash, Stops, Steps, Syncing
<1>15. ASSUME NEW p \in Processes, SyncFails(p) PROVE SyncInv'
  BY <1>15, SyncerLeaves DEF SyncFails, Stops, Goto, Steps, Syncing
<1>16. CASE UNCHANGED vars
  BY <1>1, <1>16 DEF vars, storeVars
<1> QED
  BY <1>3, <1>4, <1>5, <1>6, <1>7, <1>10, <1>11, <1>12, <1>13, <1>14, <1>15, <1>16
     DEF Next, Works, Sync, Load, Fails, Registers

\* Whatever is forced, coalesced, lost or crashes, one process of the machine at
\* a time clears the disk and copies to it.
THEOREM OneProcessSyncs == Spec => []OneSyncer
<1>1. Init => SyncInv
  BY DEF Init, SyncInv, OneSyncer, Steps, Syncing
<1>2. SyncInv => OneSyncer
  BY DEF SyncInv
<1> QED
  BY <1>1, <1>2, SyncStep, PTL DEF Spec

-----------------------------------------------------------------------------
(* What the disk holds while a process syncs.                                *)

\* Whoever copies has cleared the disk, and what it copied is what it listed.
DiskInv ==
    \A p \in Processes :
        /\ step[p] \in {"list", "copy"} => disk = [exts |-> Partial, done |-> FALSE]
        /\ step[p] \in {"publish", "unlock"} => disk = [exts |-> listed[p], done |-> TRUE]
        /\ step[p] \in {"copy", "publish", "unlock"} => listed[p] <= remote

BaseInv == TypeOK /\ JobsInv /\ SyncInv /\ DiskInv

\* What a process keeps while it syncs and does not go on.
Still(p) ==
    /\ step'[p] = step[p] /\ listed'[p] = listed[p] /\ job'[p] = job[p] /\ boot'[p] = boot[p]

\* Who is not at the end of a job does not lose the job to a reload.
LEMMA StillStep ==
    ASSUME TypeOK, JobsInv, [Next]_vars, NEW p \in Processes, step[p] \notin {"none", "ended"},
           ~Sync(p), ~Dies(p), ~ReadDisk(p), ~Registers(p)
    PROVE  Still(p) \/ (Deliver(p) /\ step[p] = "wait" /\ step'[p] = "read" /\ job'[p] = job[p]
                        /\ boot'[p] = boot[p])
<1>0. /\ step \in [Processes -> Steps] /\ BootInv(p)
      /\ boot \in [Processes -> {"down", "loading", "up"}]
  BY DEF TypeOK, JobsInv
<1>1. ~Start(p) /\ ~Initialized(p) /\ ~EndReload(p)
  BY <1>0 DEF BootInv, Start, Alive, Initialized, EndReload
<1>2. ASSUME NEW j \in Jobs, boot[p] = "up", Reload(p, j) PROVE step'[p] = step[p] /\ job'[p] = job[p]
  BY <1>0, <1>2, ReloadCases
<1>3. CASE Listen(p)
  BY <1>3 DEF Still, Listen, jobVars, loadVars
<1>4. CASE Install(p) \/ Toggle(p)
  <2>1. boot[p] = "up" /\ boot' = boot /\ listed' = listed /\ \E j \in Jobs : Reload(p, j)
    BY <1>4 DEF Install, Toggle, Request, MayInstall, MayToggle, Jobs, loadVars
  <2> QED
    BY <1>2, <2>1 DEF Still
<1>5. CASE Deliver(p)
  <2>1. boot' = boot /\ listed' = listed
    BY <1>5 DEF Deliver, loadVars
  <2>2. CASE boot[p] = "up" /\ NoJob \in Jobs /\ Reload(p, NoJob)
    BY <1>2, <2>1, <2>2 DEF Still
  <2>3. CASE /\ Goto(p, IF step[p] = "wait" THEN "read" ELSE step[p])
             /\ UNCHANGED <<jobVars, unsynced>>
    BY <1>0, <1>5, <2>1, <2>3 DEF Still, Goto, jobVars
  <2> QED
    BY <1>0, <1>5, <2>2, <2>3, DeliverCases
<1>6. CASE Same(p)
  BY <1>6 DEF Same, Still
<1> QED
  BY <1>1, <1>3, <1>4, <1>5, <1>6, ActsAlone DEF ActsOf, Works, Load

\* What a process that syncs does next.
LEMMA SyncerSteps ==
    ASSUME TypeOK, JobsInv, [Next]_vars, NEW p \in Processes, step[p] \in Syncing
    PROVE  Clear(p) \/ List(p) \/ Copy(p) \/ PublishReady(p) \/ Unlock(p) \/ Dies(p) \/ Still(p)
<1>1. ~ReadDisk(p) /\ ~Registers(p) /\ step[p] \notin {"none", "ended", "wait"}
  BY DEF ReadDisk, Registers, Register, RegisterKept, Syncing
<1>2. Sync(p) => Clear(p) \/ List(p) \/ Copy(p) \/ PublishReady(p) \/ Unlock(p)
  BY DEF Sync, CheckStatus, Lock, Subscribe, Syncing
<1> QED
  BY <1>1, <1>2, StillStep

\* Where the steps of a sync lead.
LEMMA SyncTypes ==
    ASSUME TypeOK, NEW p \in Processes
    PROVE  /\ Lock(p) => /\ step[p] = "lock" /\ job' = job /\ boot' = boot /\ disk' = disk
                         /\ remote' = remote /\ inbox' = inbox /\ waits' = waits
                         /\ queue' = queue /\ listed' = listed
                         /\ lock = 0 => step'[p] = "clear"
                         /\ lock # 0 => step'[p] = IF waits[p] THEN "wait" ELSE "subscribe"
           /\ Clear(p) => /\ step[p] = "clear" /\ step'[p] = "list" /\ job' = job /\ boot' = boot
                          /\ listed' = listed /\ remote' = remote
                          /\ queue' = queue /\ waits' = waits /\ inbox' = inbox
                          /\ disk' = [exts |-> Partial, done |-> FALSE]
           /\ List(p) => /\ step[p] = "list" /\ step'[p] = "copy" /\ job' = job /\ boot' = boot
                         /\ listed'[p] = remote /\ remote' = remote /\ disk' = disk
                         /\ queue' = queue /\ waits' = waits /\ inbox' = inbox
           /\ Copy(p) => /\ step[p] = "copy" /\ step'[p] = "publish" /\ job' = job /\ boot' = boot
                         /\ listed' = listed /\ remote' = remote
                         /\ queue' = queue /\ waits' = waits /\ inbox' = inbox
                         /\ disk' = [exts |-> listed[p], done |-> TRUE]
           /\ PublishReady(p) => /\ step[p] = "publish" /\ step'[p] = "unlock" /\ job' = job
                                 /\ boot' = boot /\ listed' = listed /\ disk' = disk
                                 /\ remote' = remote
           /\ Unlock(p) => /\ step[p] = "unlock" /\ step'[p] = "read" /\ lock' = 0
                           /\ disk' = disk /\ remote' = remote /\ job' = job /\ boot' = boot
           /\ Dies(p) => step'[p] = "none" /\ boot'[p] = "down" /\ disk' = disk
                          /\ remote' = remote
<1>0. step \in [Processes -> Steps] /\ boot \in [Processes -> {"down", "loading", "up"}]
      /\ listed \in [Processes -> Nat] /\ lock \in Nat
  BY DEF TypeOK
<1>1. Lock(p) => /\ step[p] = "lock" /\ job' = job /\ boot' = boot /\ disk' = disk
                 /\ remote' = remote /\ inbox' = inbox /\ waits' = waits
                 /\ queue' = queue /\ listed' = listed
                 /\ lock = 0 => step'[p] = "clear"
                 /\ lock # 0 => step'[p] = IF waits[p] THEN "wait" ELSE "subscribe"
  BY <1>0 DEF Lock, Goto, jobVars, busVars, loadVars
<1>2. Clear(p) => /\ step[p] = "clear" /\ step'[p] = "list" /\ job' = job /\ boot' = boot
                  /\ listed' = listed /\ remote' = remote
                  /\ queue' = queue /\ waits' = waits /\ inbox' = inbox
                  /\ disk' = [exts |-> Partial, done |-> FALSE]
  BY <1>0 DEF Clear, Goto, jobVars, busVars, loadVars
<1>3. List(p) => /\ step[p] = "list" /\ step'[p] = "copy" /\ job' = job /\ boot' = boot
                 /\ listed'[p] = remote /\ remote' = remote /\ disk' = disk
                 /\ queue' = queue /\ waits' = waits /\ inbox' = inbox
  BY <1>0 DEF List, Goto, jobVars, busVars, storeVars
<1>4. Copy(p) => /\ step[p] = "copy" /\ step'[p] = "publish" /\ job' = job /\ boot' = boot
                 /\ listed' = listed /\ remote' = remote
                 /\ queue' = queue /\ waits' = waits /\ inbox' = inbox
                 /\ disk' = [exts |-> listed[p], done |-> TRUE]
  BY <1>0 DEF Copy, Goto, jobVars, busVars, loadVars
<1>5. PublishReady(p) => /\ step[p] = "publish" /\ step'[p] = "unlock" /\ job' = job
                         /\ boot' = boot /\ listed' = listed /\ disk' = disk
                         /\ remote' = remote
  BY <1>0 DEF PublishReady, Goto, jobVars, loadVars, storeVars
<1>6. Unlock(p) => /\ step[p] = "unlock" /\ step'[p] = "read" /\ lock' = 0
                   /\ disk' = disk /\ remote' = remote /\ job' = job /\ boot' = boot
  BY <1>0 DEF Unlock, Goto, jobVars
<1>7. Dies(p) => step'[p] = "none" /\ boot'[p] = "down" /\ disk' = disk /\ remote' = remote
  BY <1>0 DEF Dies, Crash, SyncFails, Stops, Goto
<1> QED
  BY <1>1, <1>2, <1>3, <1>4, <1>5, <1>6, <1>7

\* How a process comes to sync.
LEMMA SyncingComes ==
    ASSUME TypeOK, JobsInv, [Next]_vars, NEW p \in Processes, step'[p] \in Syncing
    PROVE  step[p] \in Syncing \/ (Lock(p) /\ lock = 0)
<1>0. step \in [Processes -> Steps] /\ lock \in Nat /\ BootInv(p)
  BY DEF TypeOK, JobsInv
<1>1. ASSUME step[p] \notin Syncing, Sync(p) PROVE Lock(p) /\ lock = 0
  BY <1>0, <1>1 DEF Sync, CheckStatus, Lock, Subscribe, Clear, List, Copy, PublishReady, Unlock,
     Goto, Syncing
<1>2. ~ReadDisk(p) /\ ~Registers(p) /\ ~Dies(p)
  BY <1>0 DEF ReadDisk, Registers, Register, RegisterKept, Dies, Crash, SyncFails, Stops,
     Goto, Syncing
<1>3. CASE step[p] \notin {"none", "ended"} /\ ~Sync(p)
  BY <1>2, <1>3, StillStep DEF Still, Syncing
<1>4. ASSUME step[p] \in {"none", "ended"}, ~Sync(p) PROVE step'[p] \notin Syncing
  <2>1. ASSUME NEW j, Begin(p, j) PROVE step'[p] \in {"lock", "check"}
    BY <1>0, <2>1 DEF Begin, Goto
  <2>2. ASSUME NEW j, Reload(p, j) PROVE step'[p] \in {"lock", "check", "none", "ended"}
    BY <1>4, <2>1, <2>2 DEF Reload
  <2>3. Start(p) \/ Initialized(p) \/ EndReload(p) => step'[p] \in {"lock", "check", "none"}
    BY <1>0, <2>1 DEF Start, Initialized, EndReload, Goto
  <2>4. Listen(p) \/ Same(p) => step'[p] = step[p]
    BY DEF Listen, Same
  <2>5. Deliver(p) \/ Install(p) \/ Toggle(p) => step'[p] \in {"lock", "check", "none", "ended"}
    BY <1>0, <1>4, <2>2 DEF Deliver, Install, Toggle, Request, Goto
  <2> QED
    BY <1>2, <1>4, <2>3, <2>4, <2>5, ActsAlone DEF ActsOf, Works, Load, Syncing
<1> QED
  BY <1>1, <1>3, <1>4

\* Only a sync changes the disk, and only an install the location.
LEMMA DiskChanges ==
    ASSUME [Next]_vars
    PROVE  /\ disk' = disk \/ \E s \in Processes : Clear(s) \/ Copy(s)
           /\ remote' = remote
              \/ \E s \in Processes : (Install(s) \/ InstallFails(s)) /\ disk' = disk
<1>1. ASSUME NEW s \in Processes, ~Clear(s), ~Copy(s), ~Install(s), ~InstallFails(s),
             Start(s) \/ Works(s) \/ Toggle(s) \/ Fails(s)
      PROVE  disk' = disk /\ remote' = remote
  BY <1>1 DEF Start, Works, Sync, CheckStatus, Lock, Subscribe, List, PublishReady,
     Unlock, Load, ReadDisk, Register, Initialized, EndReload, Listen, Deliver, Toggle, Fails,
     Crash, SyncFails, Stops, RegisterKept, storeVars
<1>2. \A s \in Processes : Clear(s) \/ Copy(s) => remote' = remote
  BY DEF Clear, Copy
<1>3. \A s \in Processes : Install(s) \/ InstallFails(s) => disk' = disk
  BY DEF Install, InstallFails
<1>4. UNCHANGED vars => disk' = disk /\ remote' = remote
  BY DEF vars, storeVars
<1> QED
  BY <1>1, <1>2, <1>3, <1>4 DEF Next

\* Every step keeps what is known of the disk.
LEMMA DiskStep ==
    ASSUME BaseInv, [Next]_vars
    PROVE  DiskInv'
<1>0. TypeOK /\ JobsInv /\ SyncInv /\ DiskInv /\ remote \in Nat /\ listed \in [Processes -> Nat]
      /\ OneSyncer
  BY DEF BaseInv, TypeOK, SyncInv
<1>1. SUFFICES ASSUME NEW p \in Processes, step'[p] \in {"list", "copy", "publish", "unlock"}
      PROVE  /\ step'[p] \in {"list", "copy"} => disk' = [exts |-> Partial, done |-> FALSE]
             /\ step'[p] \in {"publish", "unlock"} => disk' = [exts |-> listed'[p], done |-> TRUE]
             /\ step'[p] \in {"copy", "publish", "unlock"} => listed'[p] <= remote'
  BY DEF DiskInv
<1>2. remote' \in Nat /\ remote <= remote'
  <2>1. \A s \in Processes : Install(s) \/ InstallFails(s) => remote' = remote + 1
    BY DEF Install, InstallFails
  <2>2. remote' = remote \/ remote' = remote + 1
    BY <2>1, DiskChanges
  <2> QED
    BY <1>0, <2>2
<1>3. step[p] \in Syncing
  <2>1. Lock(p) /\ lock = 0 => step'[p] = "clear"
    BY <1>0, SyncTypes
  <2> QED
    BY <1>0, <1>1, <2>1, SyncingComes DEF Syncing
<1>4. CASE Clear(p) \/ List(p) \/ Copy(p)
  <2>1. CASE Clear(p)
    BY <1>0, <2>1, SyncTypes
  <2>2. CASE List(p)
    <3>1. step[p] = "list" /\ step'[p] = "copy" /\ disk' = disk /\ listed'[p] = remote
          /\ remote' = remote
      BY <1>0, <2>2, SyncTypes
    <3> QED
      BY <1>0, <3>1 DEF DiskInv
  <2>3. CASE Copy(p)
    <3>1. /\ step[p] = "copy" /\ step'[p] = "publish" /\ listed' = listed /\ remote' = remote
          /\ disk' = [exts |-> listed[p], done |-> TRUE]
      BY <1>0, <2>3, SyncTypes
    <3> QED
      BY <1>0, <3>1 DEF DiskInv
  <2> QED
    BY <1>4, <2>1, <2>2, <2>3
<1>5. CASE PublishReady(p)
  <2>1. /\ step[p] = "publish" /\ step'[p] = "unlock" /\ listed' = listed /\ remote' = remote
        /\ disk' = disk
    BY <1>0, <1>5, SyncTypes
  <2> QED
    BY <1>0, <2>1 DEF DiskInv
<1>6. CASE Unlock(p) \/ Dies(p)
  BY <1>0, <1>1, <1>6, SyncTypes
<1>7. CASE Still(p)
  <2>1. disk' = disk
    <3>1. ASSUME NEW s \in Processes, Clear(s) \/ Copy(s) PROVE FALSE
      <4>1. step[s] \in Syncing /\ step'[s] # step[s]
        BY <1>0, <3>1, SyncTypes DEF Syncing
      <4>2. s = p
        BY <1>0, <1>3, <4>1 DEF OneSyncer
      <4> QED
        BY <1>7, <4>1, <4>2 DEF Still
    <3> QED
      BY <3>1, DiskChanges
  <2>2. step'[p] = step[p] /\ listed'[p] = listed[p]
    BY <1>7 DEF Still
  <2>3. step[p] \in {"copy", "publish", "unlock"} => listed'[p] <= remote'
    <3>1. remote' \in Nat /\ listed[p] \in Nat
      BY <1>0, <1>2
    <3> QED
      BY <1>0, <1>2, <2>2, <3>1 DEF DiskInv
  <2> QED
    BY <1>0, <2>1, <2>2, <2>3 DEF DiskInv
<1> QED
  BY <1>0, <1>3, <1>4, <1>5, <1>6, <1>7, SyncerSteps

\* All that holds whatever is forced, dropped, or fails.
LEMMA BaseInductive == Spec => []BaseInv
<1>1. Init => SyncInv /\ DiskInv
  BY DEF Init, SyncInv, OneSyncer, Steps, Syncing, DiskInv
<1>2. BaseInv /\ [Next]_vars => SyncInv' /\ DiskInv'
  BY SyncStep, DiskStep DEF BaseInv
<1>3. BaseInv <=> TypeOK /\ JobsInv /\ SyncInv /\ DiskInv
  BY DEF BaseInv
<1>4. BaseInv /\ [Next]_vars => TypeOK' /\ JobsInv'
  BY TypeStep, JobsStep DEF BaseInv
<1> QED
  BY <1>1, <1>2, <1>3, <1>4, JobsInductive, PTL DEF Spec

-----------------------------------------------------------------------------
(* The extensions that are loaded.  A forced sync that is dropped or joins   *)
(* one that listed the location before (unsynced), and a sync that nobody    *)
(* forced of a disk that is in sync (resynced), are left out.                *)

Ok == ~unsynced /\ ~resynced

\* Nobody has loaded anything yet, and the disk was never in sync.
Fresh ==
    /\ ~disk.done
    /\ \A q \in Processes :
          /\ boot[q] # "up" /\ ~Holds(inbox[q], "ready")
          /\ step[q] \in {"none", "check", "lock", "subscribe", "wait", "clear", "list", "copy"}
          /\ waits[q] => step[q] = "wait"

\* A sync that nobody forced is the first one, of processes that start.
ForcedOnly ==
    \A s \in Processes : step[s] \in {"clear", "list", "copy"} /\ ~job[s].force =>
        Fresh /\ (step[s] = "copy" => listed[s] = remote)

\* A disk that is not in sync is new, or a forced sync has cleared it.
Undone ==
    ~disk.done => Fresh \/ \E s \in Processes : step[s] \in {"list", "copy"} /\ job[s].force

ForceQueued(r) == \E i \in DOMAIN queue[r].jobs : queue[r].jobs[i].force

\* A process will copy what is in the location now.
WillSync(r) ==
    \/ ForceQueued(r)
    \/ /\ job[r].force
       /\ step[r] \in {"lock", "clear", "list"} \/ (step[r] = "copy" /\ listed[r] = remote)

\* It waits for the sync of a process that crashed.
Stuck(r) ==
    /\ lock > 0 /\ \A s \in Processes : step[s] \notin Syncing
    /\ job[r].force /\ step[r] \in {"subscribe", "wait"}

\* The disk has the extensions of the location, or a process is to sync it.
Current == Fresh \/ disk.exts = remote \/ \E r \in Processes : WillSync(r) \/ Stuck(r)

\* The first sync, and the lock that it leaves behind when its process crashes:
\* its message comes to processes that start and wait.
First == lock > 0 /\ \A s \in Processes : ~(step[s] \in Syncing /\ job[s].force)
FirstInv == First => \A q \in Processes : Holds(inbox[q], "ready") =>
    inbox[q] = <<"ready">> /\ step[q] = "wait" /\ boot[q] = "loading"

\* Before it is published: a forced sync that comes now is of what it has not
\* listed.
PublishInv ==
    \A s \in Processes : step[s] = "publish" /\ ~job[s].force =>
        \A q \in Processes :
            /\ ~Holds(inbox[q], "ready")
            /\ waits[q] => step[q] = "wait" /\ boot[q] = "loading"
            /\ job[q].force \/ ForceQueued(q) => listed[s] < remote
            /\ boot[q] = "up" => step[q] \notin {"subscribe", "wait"}
                                 /\ (step[q] = "lock" => job[q].force)

\* What a process has read and loaded is current, or it will load once more,
\* unless it could not read the disk.
LoadInv == \A p \in Processes :
    /\ ~missed[p] /\ "exts" \notin kept[p]
    /\ Alive(p) /\ step[p] \in {"settings", "none", "ended"}
    => exts[p] = remote \/ Later(p)

ExtInv == Ok => ForcedOnly /\ Undone /\ Current /\ FirstInv /\ PublishInv /\ LoadInv

\* What is forced is forced for a request, of a process that is up.
LEMMA ForcedIsUp ==
    ASSUME BaseInv, NEW p \in Processes, job[p].force \/ ForceQueued(p)
    PROVE  boot[p] = "up" /\ Owes(p)
<1>1. /\ boot \in [Processes -> {"down", "loading", "up"}] /\ BootInv(p) /\ JobInv(p) /\ TypeOK
  BY DEF BaseInv, TypeOK, JobsInv
<1>2. NoJob.force = FALSE /\ DOMAIN Quiet.jobs = {}
  BY DEF NoJob, Quiet
<1>3. boot[p] = "up"
  BY <1>1, <1>2 DEF BootInv, ForceQueued
<1>4. Owes(p)
  BY <1>1, QuietOwes DEF JobInv, ForceQueued
<1> QED
  BY <1>3, <1>4

\* What is never undone, and what the history excludes.
LEMMA OkStep ==
    ASSUME BaseInv, [Next]_vars, Ok'
    PROVE  /\ Ok
           /\ \A p \in Processes : Dies(p) => ~job[p].force /\ ~ForceQueued(p)
           /\ \A p \in Processes : ~InstallFails(p)
           /\ \A p \in Processes : Lock(p) /\ lock = 0 => job[p].force \/ ~disk.done
           /\ \A p \in Processes : Lock(p) /\ lock # 0 /\ job[p].force => ~HasListedOther
<1>0. unsynced \in BOOLEAN /\ resynced \in BOOLEAN /\ lock \in Nat
      /\ unsynced' = FALSE /\ resynced' = FALSE
  <2>1. unsynced' \in BOOLEAN /\ resynced' \in BOOLEAN
    BY TypeStep DEF BaseInv, TypeOK
  <2> QED
    BY <2>1 DEF BaseInv, TypeOK, Ok
<1>1. ASSUME NEW p \in Processes, Lock(p)
      PROVE  Ok /\ (lock = 0 => job[p].force \/ ~disk.done)
             /\ (lock # 0 /\ job[p].force => ~HasListedOther)
  <2>1. CASE lock = 0
    <3>1. ~(lock > 0)
      BY <2>1
    <3>2. unsynced' = unsynced /\ resynced' = (resynced \/ (~job[p].force /\ disk.done))
      BY <1>1, <3>1 DEF Lock
    <3> DEFINE idle == ~job[p].force /\ disk.done
    <3>3. resynced' = (resynced \/ idle) /\ (idle = TRUE \/ idle = FALSE)
      BY <3>2
    <3> HIDE DEF idle
    <3>4. ~resynced /\ ~idle
      BY <1>0, <3>3
    <3>5. ~unsynced
      <4>1. unsynced' = unsynced
        BY <3>2
      <4> QED
        BY <1>0, <4>1
    <3> QED
      BY <2>1, <3>4, <3>5, Zenon DEF Ok, idle
  <2>2. CASE lock # 0
    <3>1. resynced' = resynced /\ unsynced' = (unsynced \/ (job[p].force /\ HasListedOther))
      BY <1>1, <2>2 DEF Lock
    <3> DEFINE late == job[p].force /\ HasListedOther
    <3>2. unsynced' = (unsynced \/ late) /\ (late = TRUE \/ late = FALSE)
      BY <3>1
    <3> HIDE DEF late
    <3>3. ~unsynced /\ ~late
      BY <1>0, <3>2
    <3>4. ~resynced
      <4>1. resynced' = resynced
        BY <3>1
      <4> QED
        BY <1>0, <4>1
    <3> QED
      BY <2>2, <3>3, <3>4, Zenon DEF Ok, late
  <2> QED
    BY <2>1, <2>2
<1>2. ASSUME NEW p \in Processes, Dies(p)
      PROVE  Ok /\ ~job[p].force /\ ~ForceQueued(p)
  <2> DEFINE forced == \E j \in JobsOf(p) : j.force
  <2>1. /\ unsynced' = (unsynced \/ forced) /\ (forced = TRUE \/ forced = FALSE)
        /\ resynced' = resynced
    BY <1>2 DEF Dies, Crash, SyncFails, Stops
  <2> HIDE DEF forced
  <2>2. ~unsynced /\ ~forced /\ ~resynced
    <3>1. unsynced' = (unsynced \/ forced) /\ (forced = TRUE \/ forced = FALSE)
      BY <2>1
    <3>2. ~unsynced /\ ~forced
      BY <1>0, <3>1
    <3>3. resynced' = resynced
      BY <2>1
    <3>4. ~resynced
      BY <1>0, <3>3
    <3> QED
      BY <3>2, <3>4
  <2>3. ~job[p].force /\ ~ForceQueued(p)
    BY <2>2 DEF forced, JobsOf, ForceQueued
  <2> QED
    BY <2>2, <2>3 DEF Ok
<1>3. ASSUME NEW p \in Processes, NEW j, Reload(p, j), resynced' = resynced PROVE Ok
  BY <1>0, <1>3 DEF Reload, Ok
<1>4. ASSUME NEW p \in Processes, Deliver(p) \/ Install(p) \/ Toggle(p) PROVE Ok
  <2>1. CASE Deliver(p) /\ ~Reload(p, NoJob)
    BY <1>0, <2>1 DEF Deliver, Ok
  <2> QED
    BY <1>3, <1>4, <2>1 DEF Deliver, Install, Toggle, Request
<1>5. ASSUME NEW p \in Processes,
             \/ CheckStatus(p) \/ Subscribe(p) \/ Clear(p) \/ List(p) \/ Copy(p) \/ PublishReady(p)
             \/ Unlock(p) \/ ReadDisk(p) \/ Registers(p) \/ Initialized(p) \/ EndReload(p)
             \/ Start(p) \/ Listen(p)
      PROVE  Ok
  BY <1>0, <1>5 DEF CheckStatus, Subscribe, Clear, List, Copy, PublishReady, Unlock, Start,
     ReadDisk, Registers, Register, RegisterKept, Initialized, EndReload, Listen,
     historyVars, Ok
<1>8. ASSUME NEW p \in Processes, InstallFails(p) PROVE FALSE
  BY <1>0, <1>8 DEF InstallFails
<1>6. ASSUME UNCHANGED vars PROVE Ok
  <2>1. unsynced' = unsynced /\ resynced' = resynced
    BY <1>6 DEF vars, historyVars
  <2> QED
    BY <1>0, <2>1 DEF Ok
<1>7. Ok
  BY <1>1, <1>2, <1>4, <1>5, <1>6, <1>8 DEF Next, Works, Sync, Load, Fails, Registers, Dies
<1> QED
  BY <1>1, <1>2, <1>7, <1>8

\* The location changes with an install.
LEMMA RemoteChanges ==
    ASSUME BaseInv, [Next]_vars, Ok'
    PROVE  remote' = remote \/ \E s \in Processes : Install(s) /\ disk' = disk
  BY OkStep, DiskChanges

\* Nothing is read before the first sync is through.
LEMMA FreshStays ==
    ASSUME BaseInv, [Next]_vars, Fresh, ~disk'.done
    PROVE  Fresh'
<1>0. /\ TypeOK /\ JobsInv /\ step \in [Processes -> Steps] /\ waits \in [Processes -> BOOLEAN]
      /\ boot \in [Processes -> {"down", "loading", "up"}]
      /\ inbox \in [Processes -> Seq({"reload", "ready"})]
  BY DEF BaseInv, TypeOK
<1>1. SUFFICES ASSUME NEW q \in Processes
               PROVE  /\ boot'[q] # "up" /\ ~Holds(inbox'[q], "ready")
                      /\ step'[q] \in {"none", "check", "lock", "subscribe", "wait", "clear",
                                       "list", "copy"}
                      /\ waits'[q] => step'[q] = "wait"
  BY DEF Fresh, Holds
<1>2. /\ boot[q] # "up" /\ ~Holds(inbox[q], "ready") /\ BootInv(q)
      /\ step[q] \in {"none", "check", "lock", "subscribe", "wait", "clear", "list", "copy"}
      /\ waits[q] => step[q] = "wait"
  BY <1>0 DEF Fresh, JobsInv
<1>3. ~channel[q] /\ ~Holds(inbox[q], "reload") /\ queue[q] = Quiet
  BY <1>2 DEF BootInv
<1>4. inbox[q] = <<>>
  <2> DEFINE box == inbox[q]
  <2>1. box \in Seq({"reload", "ready"}) /\ ~Holds(box, "ready") /\ ~Holds(box, "reload")
    BY <1>0, <1>2, <1>3
  <2> HIDE DEF box
  <2>2. box = <<>>
    <3>1. SUFFICES ASSUME box # <<>> PROVE FALSE
      OBVIOUS
    <3>2. Head(box) \in {"reload", "ready"}
      BY <2>1, <3>1, HeadTailProperties
    <3> QED
      BY <2>1, <3>1, <3>2, BoxOps
  <2> QED
    BY <2>2 DEF box
<1>5. inbox'[q] = <<>>
  <2>1. \A p \in Processes : ~PublishReady(p)
    <3>1. ASSUME NEW p \in Processes, PublishReady(p) PROVE FALSE
      <4>1. step[p] = "publish"
        BY <3>1 DEF PublishReady
      <4> QED
        BY <4>1 DEF Fresh
    <3> QED
      BY <3>1
  <2>2. CASE inbox'[q] = inbox[q] \/ inbox'[q] = <<>>
    BY <1>4, <2>2
  <2>3. CASE inbox[q] # <<>> \/ channel[q] \/ \E p \in Processes : PublishReady(p)
    BY <1>3, <1>4, <2>1, <2>3
  <2> QED
    BY <1>0, <2>2, <2>3, InboxStep
<1>6. ~Holds(inbox'[q], "ready")
  BY <1>5 DEF Holds
<1>7. /\ ~Copy(q) /\ ~PublishReady(q) /\ ~Unlock(q) /\ ~ReadDisk(q) /\ ~Registers(q)
      /\ ~Initialized(q) /\ ~EndReload(q) /\ ~Listen(q) /\ ~Deliver(q) /\ ~Install(q) /\ ~Toggle(q)
  <2>1. ~Copy(q)
    BY DEF Copy
  <2> QED
    BY <1>2, <1>3, <1>4, <2>1 DEF PublishReady, Unlock, ReadDisk, Registers, Register,
       RegisterKept, Initialized, EndReload, Listen, Deliver, Install, Toggle, MayInstall,
       MayToggle
<1>8. CASE Start(q)
  BY <1>0, <1>2, <1>6, <1>8 DEF Start, Alive, BootInv, Goto, busVars
<1>9. CASE CheckStatus(q) \/ Lock(q) \/ Subscribe(q) \/ Clear(q) \/ List(q)
  <2>1. boot' = boot
    BY <1>9 DEF CheckStatus, Lock, Subscribe, Clear, List
  <2>2. CASE CheckStatus(q)
    <3>1. ~disk.done
      BY DEF Fresh
    <3>2. step'[q] = "lock" /\ waits' = waits /\ step[q] = "check"
      BY <1>0, <2>2, <3>1 DEF CheckStatus, Goto, busVars
    <3> QED
      BY <1>2, <1>6, <2>1, <3>2
  <2>3. CASE Lock(q)
    BY <1>0, <1>2, <1>6, <2>1, <2>3, SyncTypes
  <2>4. CASE Subscribe(q)
    BY <1>0, <1>2, <1>6, <2>1, <2>4 DEF Subscribe, Goto
  <2>5. CASE Clear(q) \/ List(q)
    BY <1>0, <1>2, <1>6, <2>1, <2>5, SyncTypes
  <2> QED
    BY <1>9, <2>2, <2>3, <2>4, <2>5
<1>10. CASE Dies(q)
  <2>1. boot'[q] = "down" /\ step'[q] = "none" /\ ~waits'[q]
    BY <1>0, <1>10 DEF Dies, Crash, SyncFails, Stops, Goto
  <2> QED
    BY <1>6, <2>1
<1>11. CASE Same(q)
  BY <1>2, <1>6, <1>11 DEF Same
<1> QED
  BY <1>0, <1>7, <1>8, <1>9, <1>10, <1>11, ActsAlone DEF ActsOf, Works, Sync

\* The disk does not become done behind the back of who syncs.
LEMMA SyncerAlone ==
    ASSUME BaseInv, [Next]_vars, NEW s \in Processes, step[s] \in Syncing, ~Clear(s), ~Copy(s)
    PROVE  disk' = disk
<1>0. TypeOK /\ OneSyncer
  BY DEF BaseInv, SyncInv
<1>1. ASSUME NEW p \in Processes, Clear(p) \/ Copy(p) PROVE FALSE
  <2>1. step[p] \in Syncing
    BY <1>1 DEF Clear, Copy, Syncing
  <2> QED
    BY <1>0, <1>1, <2>1 DEF OneSyncer
<1> QED
  BY <1>1, DiskChanges

\* The first sync is the only one nobody forces.
LEMMA ForcedOnlyStep ==
    ASSUME BaseInv, ExtInv, [Next]_vars, Ok'
    PROVE  ForcedOnly'
<1>0. /\ TypeOK /\ JobsInv /\ SyncInv /\ DiskInv /\ Ok /\ ForcedOnly /\ Undone
  BY OkStep DEF BaseInv, ExtInv
<1>1. SUFFICES ASSUME NEW s \in Processes, step'[s] \in {"clear", "list", "copy"}, ~job'[s].force
               PROVE  Fresh' /\ (step'[s] = "copy" => listed'[s] = remote')
  BY DEF ForcedOnly
<1>2. CASE Lock(s) /\ lock = 0
  <2>1. /\ step'[s] = "clear" /\ job' = job /\ disk' = disk
    BY <1>0, <1>2, SyncTypes
  <2>2. ~disk.done
    BY <1>1, <1>2, <2>1, OkStep
  <2>3. Fresh
    BY <1>0, <1>2, <2>2 DEF Undone, SyncInv, Syncing
  <2> QED
    BY <2>1, <2>2, <2>3, FreshStays
<1>3. CASE Clear(s) \/ List(s)
  <2>1. job' = job /\ step[s] \in {"clear", "list"} /\ ~disk'.done
        /\ (step'[s] = "copy" => listed'[s] = remote')
    BY <1>0, <1>3, SyncTypes DEF DiskInv
  <2>2. Fresh
    BY <1>0, <1>1, <2>1 DEF ForcedOnly
  <2> QED
    BY <2>1, <2>2, FreshStays
<1>4. CASE Still(s)
  <2>1. step[s] \in {"clear", "list", "copy"} /\ ~job[s].force /\ step'[s] = step[s]
        /\ listed'[s] = listed[s]
    BY <1>1, <1>4 DEF Still
  <2>2. Fresh /\ (step[s] = "copy" => listed[s] = remote)
    BY <1>0, <2>1 DEF ForcedOnly
  <2>3. disk' = disk
    <3>1. ~Clear(s) /\ ~Copy(s)
      BY <1>0, <2>1, SyncTypes
    <3> QED
      BY <2>1, <3>1, SyncerAlone DEF Syncing
  <2>4. remote' = remote
    <3>1. \A q \in Processes : ~Install(q)
      BY <2>2 DEF Install, MayInstall, Fresh
    <3> QED
      BY <3>1, RemoteChanges
  <2> QED
    BY <2>1, <2>2, <2>3, <2>4, FreshStays DEF Fresh
<1>5. CASE Copy(s) \/ PublishReady(s) \/ Unlock(s) \/ Dies(s)
  BY <1>0, <1>1, <1>5, SyncTypes
<1> QED
  BY <1>0, <1>1, <1>2, <1>3, <1>4, <1>5, SyncingComes, SyncerSteps DEF Syncing

\* A forced sync copies what it clears.
LEMMA UndoneStep ==
    ASSUME BaseInv, ExtInv, [Next]_vars, Ok'
    PROVE  Undone'
<1>0. /\ TypeOK /\ JobsInv /\ SyncInv /\ DiskInv /\ Ok /\ ForcedOnly /\ Undone
  BY OkStep DEF BaseInv, ExtInv
<1>1. SUFFICES ASSUME ~disk'.done
               PROVE  Fresh' \/ \E s \in Processes : step'[s] \in {"list", "copy"} /\ job'[s].force
  BY DEF Undone
<1>2. CASE Fresh
  BY <1>1, <1>2, FreshStays
<1>3. ASSUME NEW s \in Processes, Clear(s), ~Fresh
      PROVE  step'[s] \in {"list", "copy"} /\ job'[s].force
  <2>1. step[s] = "clear" /\ step'[s] = "list" /\ job' = job
    BY <1>0, <1>3, SyncTypes
  <2> QED
    BY <1>0, <1>3, <2>1 DEF ForcedOnly
<1>4. ASSUME NEW s \in Processes, step[s] \in {"list", "copy"}, job[s].force
      PROVE  step'[s] \in {"list", "copy"} /\ job'[s].force
  <2>1. ~Copy(s)
    <3>1. Copy(s) => disk'.done
      BY <1>0, SyncTypes
    <3> QED
      BY <1>1, <3>1
  <2>2. List(s) \/ Still(s)
    <3>1. ~Dies(s)
      BY <1>4, OkStep
    <3>2. ~Clear(s) /\ ~PublishReady(s) /\ ~Unlock(s)
      BY <1>4 DEF Clear, PublishReady, Unlock
    <3> QED
      BY <1>0, <1>4, <2>1, <3>1, <3>2, SyncerSteps DEF Syncing
  <2>3. CASE List(s)
    <3>1. step'[s] = "copy" /\ job' = job
      BY <1>0, <2>3, SyncTypes
    <3> QED
      BY <1>4, <3>1
  <2>4. CASE Still(s)
    BY <1>4, <2>4 DEF Still
  <2> QED
    BY <2>2, <2>3, <2>4
<1>5. CASE disk.done
  <2>1. \E s \in Processes : Clear(s)
    <3>1. \A s \in Processes : Copy(s) => disk'.done
      BY <1>0, SyncTypes
    <3> QED
      BY <1>1, <1>5, <3>1, DiskChanges
  <2> QED
    BY <1>2, <1>3, <2>1
<1> QED
  BY <1>0, <1>2, <1>4, <1>5 DEF Undone

\* An install has its sync forced, unless the history says otherwise.
LEMMA InstallSyncs ==
    ASSUME BaseInv, NEW s \in Processes, Install(s), Ok'
    PROVE  WillSync(s)'
<1> DEFINE j == [force |-> TRUE, request |-> TRUE]
<1>1. /\ TypeOK /\ BootInv(s) /\ boot[s] = "up" /\ Reload(s, j) /\ j \in Jobs /\ j.force
  BY DEF BaseInv, JobsInv, Install, Request, MayInstall, Jobs
<1> HIDE DEF j
<1>2. CASE /\ queue'[s] = queue[s]
           /\ unsynced' = (unsynced \/ (j.force /\ \A i \in DOMAIN queue[s].jobs :
                                                       ~queue[s].jobs[i].force))
  <2> DEFINE none == j.force /\ \A i \in DOMAIN queue[s].jobs : ~queue[s].jobs[i].force
  <2>1. unsynced' = (unsynced \/ none) /\ (none = TRUE \/ none = FALSE)
    BY <1>2
  <2> HIDE DEF none
  <2>2. ~none
    BY <2>1 DEF Ok
  <2>3. ForceQueued(s)
    BY <1>1, <2>2, Zenon DEF none, ForceQueued
  <2> QED
    BY <1>2, <2>3 DEF WillSync, ForceQueued
<1>3. CASE queue'[s].jobs = <<j>>
  <2>1. DOMAIN <<j>> = 1 .. 1 /\ <<j>>[1] = j
    OBVIOUS
  <2> QED
    BY <1>1, <1>3, <2>1 DEF WillSync, ForceQueued
<1>4. CASE job'[s] = j /\ step'[s] = (IF j.force THEN "lock" ELSE "check")
  BY <1>1, <1>4 DEF WillSync
<1> QED
  BY <1>1, <1>2, <1>3, <1>4, ReloadCases

\* A forced sync that waits goes on waiting, or begins.
LEMMA QueuedStays ==
    ASSUME BaseInv, [Next]_vars, NEW r \in Processes, ForceQueued(r), ~Dies(r)
    PROVE  ForceQueued(r)' \/ (job'[r].force /\ step'[r] = "lock")
<1>0. /\ TypeOK /\ BootInv(r) /\ boot[r] = "up" /\ step \in [Processes -> Steps]
      /\ job \in [Processes -> Jobs] /\ queue[r].jobs \in Seq(Jobs) /\ Len(queue[r].jobs) <= 1
  <2>1. queue[r] \in Queues(Jobs) /\ Size(queue[r]) <= 1
    BY DEF BaseInv, TypeOK
  <2> QED
    BY <2>1, ForcedIsUp DEF BaseInv, TypeOK, JobsInv, Queues, Size
<1>1. PICK i \in DOMAIN queue[r].jobs : queue[r].jobs[i].force
  BY DEF ForceQueued
<1>2. queue[r].jobs # <<>> /\ Head(queue[r].jobs).force
  <2> DEFINE jobs == queue[r].jobs
  <2>1. jobs \in Seq(Jobs) /\ Len(jobs) <= 1 /\ i \in DOMAIN jobs /\ jobs[i].force
    BY <1>0, <1>1
  <2> HIDE DEF jobs
  <2>2. Len(jobs) \in Nat /\ DOMAIN jobs = 1 .. Len(jobs)
    BY <2>1, LenProperties
  <2>3. i = 1 /\ jobs # <<>>
    BY <2>1, <2>2, EmptySeq
  <2> QED
    BY <2>1, <2>3, HeadTailProperties DEF jobs
<1>3. ASSUME queue'[r] = queue[r] PROVE ForceQueued(r)'
  BY <1>1, <1>3 DEF ForceQueued
<1>4. ASSUME NEW j \in Jobs, Reload(r, j) PROVE ForceQueued(r)'
  <2>1. queue'[r] = queue[r]
    <3>1. queue[r].running
      BY <1>0, <1>2 DEF BootInv, Waiting
    <3>2. Waiting(queue[r])
      BY <1>2 DEF Waiting
    <3>3. Coalesces(queue[r])
      BY <1>0, <1>2, EmptySeq, LenProperties DEF Coalesces, Size
    <3> QED
      BY <1>4, <3>3 DEF Reload
  <2> QED
    BY <1>3, <2>1
<1>5. CASE Sync(r) \/ Start(r) \/ ReadDisk(r) \/ Registers(r) \/ Initialized(r) \/ Listen(r)
  <2>1. queue' = queue
    BY <1>5 DEF Sync, CheckStatus, Lock, Subscribe, Clear, List, Copy, PublishReady, Unlock,
       Start,
       ReadDisk, Registers, Register, RegisterKept, Initialized, Listen, jobVars
  <2> QED
    BY <1>3, <2>1
<1>6. CASE EndReload(r)
  <2>1. Begin(r, Head(queue[r].jobs))
    BY <1>2, <1>6 DEF EndReload, Waiting
  <2> QED
    BY <1>0, <1>2, <2>1 DEF Begin, Goto
<1>7. CASE Deliver(r)
  <2>1. NoJob \in Jobs
    BY DEF NoJob, Jobs
  <2>2. queue' = queue => ForceQueued(r)'
    BY <1>3
  <2> QED
    BY <1>4, <1>7, <2>1, <2>2 DEF Deliver, jobVars
<1>8. CASE Install(r) \/ Toggle(r)
  <2>1. \A f \in BOOLEAN : [force |-> f, request |-> TRUE] \in Jobs
    BY DEF Jobs
  <2> QED
    BY <1>4, <1>8, <2>1 DEF Install, Toggle, Request
<1> QED
  BY <1>0, <1>3, <1>5, <1>6, <1>7, <1>8, ActsAlone DEF ActsOf, Works, Load, Same

\* Who finds the lock taken, by nobody or by a sync of what is there now.
LEMMA WaiterIsServed ==
    ASSUME BaseInv, ForcedOnly, NEW r \in Processes, Lock(r), lock # 0, job[r].force,
           ~HasListedOther
    PROVE  Current'
<1>0. /\ TypeOK /\ SyncInv /\ DiskInv /\ step \in [Processes -> Steps] /\ lock \in Nat
      /\ boot[r] = "up" /\ waits[r] \in BOOLEAN
  BY ForcedIsUp DEF BaseInv, TypeOK
<1>1. /\ step[r] = "lock" /\ job' = job /\ boot' = boot /\ disk' = disk /\ remote' = remote
      /\ queue' = queue /\ listed' = listed
      /\ step'[r] = IF waits[r] THEN "wait" ELSE "subscribe"
  BY <1>0, SyncTypes
<1>2. lock' = lock + 1 /\ \A q \in Processes : q # r => step'[q] = step[q]
  BY <1>0 DEF Lock, Goto
<1>3. CASE \A s \in Processes : step[s] \notin Syncing
  <2>1. \A s \in Processes : step'[s] \notin Syncing
    BY <1>1, <1>2, <1>3 DEF Syncing
  <2>2. lock' > 0 /\ job'[r].force /\ step'[r] \in {"subscribe", "wait"}
    BY <1>0, <1>1, <1>2
  <2> QED
    BY <2>1, <2>2 DEF Current, Stuck
<1>4. ASSUME NEW s \in Processes, step[s] \in Syncing PROVE Current'
  <2>1. s # r /\ step'[s] = step[s]
    BY <1>1, <1>2, <1>4 DEF Syncing
  <2>2. CASE step[s] \in {"publish", "unlock"}
    <3>1. listed[s] = remote /\ disk = [exts |-> listed[s], done |-> TRUE]
      BY <1>0, <2>2 DEF HasListedOther, DiskInv
    <3> QED
      BY <1>1, <3>1 DEF Current
  <2>3. CASE step[s] \in {"clear", "list", "copy"}
    <3>1. job[s].force
      BY <1>0, <2>3 DEF ForcedOnly, Fresh
    <3>2. step[s] = "copy" => listed[s] = remote
      BY DEF HasListedOther
    <3>3. WillSync(s)'
      BY <1>1, <2>1, <2>3, <3>1, <3>2 DEF WillSync
    <3> QED
      BY <3>3 DEF Current
  <2> QED
    BY <1>4, <2>2, <2>3 DEF Syncing
<1> QED
  BY <1>3, <1>4

\* A forced sync goes on to copy what is in the location.
LEMMA WillSyncStays ==
    ASSUME BaseInv, ForcedOnly, [Next]_vars, Ok', NEW r \in Processes, WillSync(r)
    PROVE  Current'
<1>0. /\ TypeOK /\ JobsInv /\ SyncInv /\ step \in [Processes -> Steps] /\ ~Dies(r)
      /\ lock \in Nat
  <2>1. job[r].force \/ ForceQueued(r)
    BY DEF WillSync
  <2> QED
    BY <2>1, OkStep DEF BaseInv, TypeOK
<1>1. WillSync(r)' => Current'
  BY DEF Current
<1>2. CASE ForceQueued(r)
  BY <1>0, <1>1, <1>2, QueuedStays DEF WillSync
<1>3. CASE remote' # remote
  <2>1. PICK s \in Processes : Install(s)
    BY <1>3, RemoteChanges
  <2> QED
    BY <2>1, InstallSyncs DEF Current
<1>4. ASSUME remote' = remote, job[r].force,
             step[r] \in {"lock", "clear", "list"} \/ (step[r] = "copy" /\ listed[r] = remote)
      PROVE  Current'
  <2>1. CASE Lock(r)
    <3>1. CASE lock = 0
      <4>1. step'[r] = "clear" /\ job' = job
        BY <1>0, <2>1, <3>1, SyncTypes
      <4> QED
        BY <1>1, <1>4, <4>1 DEF WillSync
    <3> QED
      BY <1>4, <2>1, <3>1, OkStep, WaiterIsServed
  <2>2. CASE Clear(r)
    <3>1. step'[r] = "list" /\ job' = job
      BY <1>0, <2>2, SyncTypes
    <3> QED
      BY <1>1, <1>4, <3>1 DEF WillSync
  <2>3. CASE List(r)
    <3>1. step'[r] = "copy" /\ job' = job /\ listed'[r] = remote
      BY <1>0, <2>3, SyncTypes
    <3> QED
      BY <1>1, <1>4, <3>1 DEF WillSync
  <2>4. CASE Copy(r)
    <3>1. step[r] = "copy" /\ disk' = [exts |-> listed[r], done |-> TRUE]
      BY <1>0, <2>4, SyncTypes
    <3> QED
      BY <1>4, <3>1 DEF Current
  <2>5. CASE Still(r)
    <3>1. step'[r] = step[r] /\ job'[r] = job[r] /\ listed'[r] = listed[r]
      BY <2>5 DEF Still
    <3> QED
      BY <1>1, <1>4, <3>1 DEF WillSync
  <2>6. Lock(r) \/ Clear(r) \/ List(r) \/ Copy(r) \/ Still(r)
    <3>1. /\ ~CheckStatus(r) /\ ~Subscribe(r) /\ ~PublishReady(r) /\ ~Unlock(r) /\ ~ReadDisk(r)
          /\ ~Registers(r)
      BY <1>4 DEF CheckStatus, Subscribe, PublishReady, Unlock, ReadDisk, Registers,
         Register, RegisterKept
    <3> QED
      BY <1>0, <1>4, <3>1, StillStep DEF Sync
  <2> QED
    BY <2>1, <2>2, <2>3, <2>4, <2>5, <2>6
<1> QED
  BY <1>2, <1>3, <1>4 DEF WillSync

\* The key of the lock is incremented, or deleted by who syncs.
LEMMA LockChanges ==
    ASSUME [Next]_vars
    PROVE  \/ lock' = lock
           \/ \E p \in Processes : Lock(p) /\ lock' = lock + 1
           \/ \E p \in Processes : step[p] \in Syncing /\ lock' = 0
<1>1. ASSUME NEW p \in Processes, Sync(p), ~Lock(p), ~Unlock(p) PROVE lock' = lock
  BY <1>1 DEF Sync, CheckStatus, Subscribe, Clear, List, Copy, PublishReady, storeVars
<1>2. ASSUME NEW p \in Processes,
             Load(p) \/ Listen(p) \/ Deliver(p) \/ Start(p) \/ RegisterKept(p)
      PROVE  lock' = lock
  BY <1>2 DEF Load, ReadDisk, Register, RegisterKept, Initialized, EndReload, Listen, Deliver,
     Start, storeVars
<1>3. ASSUME NEW p \in Processes, Install(p) \/ Toggle(p) \/ Crash(p) \/ InstallFails(p)
      PROVE  lock' = lock
  BY <1>3 DEF Install, Toggle, Crash, InstallFails
<1>4. \A p \in Processes : Lock(p) => lock' = lock + 1
  BY DEF Lock
<1>5. \A p \in Processes : Unlock(p) \/ SyncFails(p) => step[p] \in Syncing /\ lock' = 0
  BY DEF Unlock, SyncFails, Syncing
<1>6. UNCHANGED vars => lock' = lock
  BY DEF vars, storeVars
<1> QED
  BY <1>1, <1>2, <1>3, <1>4, <1>5, <1>6 DEF Next, Works, Fails

\* Nobody syncs and the key of the lock is there: so it stays, for ever.
LEMMA LockStays ==
    ASSUME BaseInv, [Next]_vars, lock > 0, \A s \in Processes : step[s] \notin Syncing
    PROVE  lock' > 0 /\ \A s \in Processes : step'[s] \notin Syncing
<1>1. TypeOK /\ JobsInv /\ lock \in Nat
  BY DEF BaseInv, TypeOK
<1>2. \A s \in Processes : step'[s] \notin Syncing
  BY <1>1, SyncingComes
<1> QED
  BY <1>1, <1>2, LockChanges

\* Nothing ends a wait but the message that a sync is ready.
LEMMA WaitEnds ==
    ASSUME TypeOK, NEW p \in Processes, BootInv(p), Deliver(p), step[p] = "wait", step'[p] = "read"
    PROVE  Holds(inbox[p], "ready")
<1>1. step \in [Processes -> Steps]
  BY DEF TypeOK
<1>2. ASSUME ~NoJob.force, Reload(p, NoJob) PROVE FALSE
  <2>1. ASSUME Begin(p, NoJob) PROVE FALSE
    BY <1>1, <1>2, <2>1 DEF Begin, Goto
  <2> QED
    BY <1>2, <2>1 DEF Reload
<1> QED
  BY <1>2, DeliverCases

\* Who waits for the sync of a process that crashed waits for ever.
LEMMA StuckStays ==
    ASSUME BaseInv, FirstInv, [Next]_vars, Ok', NEW r \in Processes, Stuck(r)
    PROVE  Stuck(r)'
<1>0. /\ TypeOK /\ JobsInv /\ step \in [Processes -> Steps] /\ boot[r] = "up"
      /\ job[r].force /\ step[r] \in {"subscribe", "wait"}
  BY ForcedIsUp DEF BaseInv, TypeOK, Stuck
<1>1. lock' > 0 /\ \A s \in Processes : step'[s] \notin Syncing
  BY LockStays DEF Stuck
<1>2. CASE Subscribe(r)
  BY <1>0, <1>1, <1>2 DEF Subscribe, Goto, Stuck, jobVars
<1>3. CASE Still(r)
  BY <1>0, <1>1, <1>3 DEF Still, Stuck
<1>4. ASSUME Deliver(r), step[r] = "wait", step'[r] = "read" PROVE FALSE
  <2>1. Holds(inbox[r], "ready")
    BY <1>0, <1>4, WaitEnds DEF JobsInv
  <2>2. First
    BY DEF First, Stuck
  <2> QED
    BY <1>0, <2>1, <2>2 DEF FirstInv
<1>5. ~Dies(r) /\ ~ReadDisk(r) /\ ~Registers(r) /\ (Sync(r) => Subscribe(r))
  BY <1>0, OkStep DEF ReadDisk, Registers, Register, RegisterKept, Sync, CheckStatus, Lock,
     Clear, List, Copy, PublishReady,
     Unlock
<1> QED
  BY <1>0, <1>2, <1>3, <1>4, <1>5, StillStep

\* The disk is current, or a process syncs it.
LEMMA CurrentStep ==
    ASSUME BaseInv, ExtInv, [Next]_vars, Ok'
    PROVE  Current'
<1>0. /\ TypeOK /\ SyncInv /\ DiskInv /\ Ok /\ ForcedOnly /\ Undone /\ FirstInv /\ Current
      /\ remote \in Nat /\ Partial \notin Nat
  BY OkStep, PartialAssumption DEF BaseInv, ExtInv, TypeOK
<1>1. ASSUME NEW s \in Processes, Install(s) PROVE Current'
  BY <1>1, InstallSyncs DEF Current
<1>2. CASE Fresh
  <2>1. CASE ~disk'.done
    BY <1>2, <2>1, FreshStays DEF Current
  <2>2. CASE disk'.done
    <3>1. PICK s \in Processes : Copy(s)
      <4>1. \A s \in Processes : Clear(s) => ~disk'.done
        BY <1>0, SyncTypes
      <4> QED
        BY <1>2, <2>2, <4>1, DiskChanges DEF Fresh
    <3>2. step[s] = "copy" /\ disk' = [exts |-> listed[s], done |-> TRUE] /\ remote' = remote
      BY <1>0, <3>1, SyncTypes
    <3>3. ~job[s].force
      BY <1>2, ForcedIsUp DEF Fresh
    <3>4. listed[s] = remote
      BY <1>0, <3>2, <3>3 DEF ForcedOnly
    <3> QED
      BY <3>2, <3>4 DEF Current
  <2> QED
    BY <2>1, <2>2
<1>3. CASE disk.exts = remote /\ ~Fresh
  <2>1. CASE disk' = disk /\ remote' = remote
    BY <1>3, <2>1 DEF Current
  <2>2. ASSUME NEW s \in Processes, Clear(s) PROVE Current'
    <3>1. step[s] = "clear" /\ step'[s] = "list" /\ job' = job
      BY <1>0, <2>2, SyncTypes
    <3>2. job[s].force
      BY <1>0, <1>3, <3>1 DEF ForcedOnly
    <3> QED
      BY <3>1, <3>2 DEF Current, WillSync
  <2>3. ASSUME NEW s \in Processes, Copy(s) PROVE FALSE
    <3>1. step[s] = "copy"
      BY <2>3 DEF Copy
    <3> QED
      BY <1>0, <1>3, <3>1 DEF DiskInv
  <2> QED
    BY <1>1, <2>1, <2>2, <2>3, DiskChanges, RemoteChanges
<1>4. ASSUME NEW r \in Processes, WillSync(r) PROVE Current'
  BY <1>0, <1>4, WillSyncStays
<1>5. ASSUME NEW r \in Processes, Stuck(r) PROVE Current'
  BY <1>0, <1>5, StuckStays DEF Current
<1> QED
  BY <1>0, <1>2, <1>3, <1>4, <1>5 DEF Current

\* The message of the first sync comes to processes that start and wait for it.
LEMMA FirstStep ==
    ASSUME BaseInv, ExtInv, [Next]_vars, Ok'
    PROVE  FirstInv'
<1>0. /\ TypeOK /\ JobsInv /\ SyncInv /\ Ok /\ Undone /\ FirstInv /\ PublishInv
      /\ step \in [Processes -> Steps] /\ lock \in Nat
      /\ inbox \in [Processes -> Seq({"reload", "ready"})]
  BY OkStep DEF BaseInv, ExtInv, TypeOK
<1>1. SUFFICES ASSUME First', NEW q \in Processes, Holds(inbox'[q], "ready")
               PROVE  inbox'[q] = <<"ready">> /\ step'[q] = "wait" /\ boot'[q] = "loading"
  BY DEF FirstInv, Holds
<1> DEFINE box == inbox[q]
<1>2. /\ box \in Seq({"reload", "ready"}) /\ BootInv(q) /\ inbox'[q] # <<>>
      /\ Tail(<<"ready">>) = <<>> /\ Append(<<>>, "ready") = <<"ready">>
  BY <1>0, <1>1 DEF JobsInv, Holds
<1>3. ASSUME First, Holds(box, "ready")
      PROVE  box = <<"ready">> /\ step[q] = "wait" /\ boot[q] = "loading" /\ ~channel[q]
  BY <1>0, <1>2, <1>3 DEF FirstInv, BootInv
<1>4. CASE First
  <2>1. CASE inbox'[q] = inbox[q]
    <3>1. box = <<"ready">> /\ step[q] = "wait" /\ boot[q] = "loading"
      BY <1>1, <1>3, <1>4, <2>1
    <3>2. ~Deliver(q) /\ ~Dies(q)
      <4>1. Dies(q) => inbox'[q] = <<>>
        BY <1>0 DEF Dies, Crash, SyncFails, Stops
      <4>2. Deliver(q) => inbox'[q] = Tail(box)
        BY <1>0 DEF Deliver
      <4> QED
        BY <1>2, <3>1, <4>1, <4>2
    <3>3. ~Sync(q) /\ ~ReadDisk(q) /\ ~Registers(q)
      BY <3>1 DEF Sync, CheckStatus, Lock, Subscribe, Clear, List, Copy, PublishReady, Unlock,
         ReadDisk, Registers, Register, RegisterKept
    <3>4. Still(q)
      BY <1>0, <3>1, <3>2, <3>3, StillStep
    <3> QED
      BY <2>1, <3>1, <3>4 DEF Still
  <2>2. CASE box # <<>> /\ inbox'[q] = Tail(box)
    <3>1. Holds(box, "ready")
      <4>1. Holds(Tail(box), "ready")
        BY <1>1, <2>2
      <4> HIDE DEF box
      <4> QED
        BY <1>2, <2>2, <4>1, BoxOps
    <3> QED
      BY <1>2, <1>3, <1>4, <2>2, <3>1
  <2>3. ASSUME NEW p \in Processes, PublishReady(p), inbox'[q] = Append(box, "ready"), waits[q]
        PROVE  inbox'[q] = <<"ready">> /\ step'[q] = "wait" /\ boot'[q] = "loading"
    <3>1. step[p] = "publish" /\ ~job[p].force
      BY <1>4, <2>3 DEF PublishReady, First, Syncing
    <3>2. ~Holds(box, "ready") /\ step[q] = "wait" /\ boot[q] = "loading"
      BY <1>0, <2>3, <3>1 DEF PublishInv
    <3>3. ~Holds(box, "reload")
      BY <1>2, <3>2 DEF BootInv
    <3>4. box = <<>>
      <4>1. SUFFICES ASSUME box # <<>> PROVE FALSE
        OBVIOUS
      <4>2. ~Holds(box, "ready") /\ ~Holds(box, "reload") /\ box # <<>>
        BY <3>2, <3>3, <4>1
      <4> HIDE DEF box
      <4>3. Head(box) \in {"reload", "ready"}
        BY <1>2, <4>1, HeadTailProperties
      <4> QED
        BY <1>2, <4>2, <4>3, BoxOps
    <3>5. step'[q] = step[q] /\ boot' = boot
      BY <1>0, <2>3, <3>1, <3>2 DEF PublishReady, Goto
    <3> QED
      BY <1>2, <2>3, <3>2, <3>4, <3>5
  <2>4. CASE inbox'[q] = Append(box, "reload") /\ channel[q]
    <3>1. Holds(box, "ready")
      <4>1. Holds(Append(box, "reload"), "ready")
        BY <1>1, <2>4
      <4> HIDE DEF box
      <4> QED
        BY <1>2, <4>1, BoxOps
    <3> QED
      BY <1>3, <1>4, <2>4, <3>1
  <2> QED
    BY <1>0, <1>2, <2>1, <2>2, <2>3, <2>4, InboxStep
<1>5. ASSUME NEW s \in Processes, step[s] \in Syncing, job[s].force PROVE FALSE
  <2>1. ~Dies(s)
    BY <1>5, OkStep
  <2>2. CASE Clear(s) \/ List(s) \/ Copy(s) \/ PublishReady(s)
    <3>1. step'[s] \in Syncing /\ job' = job
      BY <1>0, <2>2, SyncTypes DEF Syncing
    <3> QED
      BY <1>1, <1>5, <3>1 DEF First
  <2>3. CASE Unlock(s)
    BY <1>1, <2>3 DEF Unlock, First
  <2>4. CASE Still(s)
    BY <1>1, <1>5, <2>4 DEF Still, First
  <2> QED
    BY <1>0, <1>5, <2>1, <2>2, <2>3, <2>4, SyncerSteps
<1>6. CASE lock = 0
  <2>1. PICK s \in Processes : Lock(s)
    BY <1>0, <1>1, <1>6, LockChanges DEF First
  <2>2. step'[s] = "clear" /\ job' = job /\ inbox' = inbox
    BY <1>0, <1>6, <2>1, SyncTypes
  <2>3. ~job[s].force
    BY <1>1, <2>2 DEF First, Syncing
  <2>4. ~disk.done
    BY <1>6, <2>1, <2>3, OkStep
  <2>5. Fresh
    BY <1>0, <1>6, <2>4 DEF Undone, SyncInv, Syncing
  <2> QED
    BY <1>1, <2>2, <2>5 DEF Fresh
<1> QED
  BY <1>0, <1>4, <1>5, <1>6 DEF First

\* Only an install has a sync forced.
LEMMA ForceComes ==
    ASSUME BaseInv, [Next]_vars, NEW q \in Processes, job'[q].force \/ ForceQueued(q)'
    PROVE  job[q].force \/ ForceQueued(q) \/ Install(q)
<1>0. /\ TypeOK /\ BootInv(q) /\ job \in [Processes -> Jobs]
      /\ queue \in [Processes -> Queues(Jobs)] /\ queue[q].jobs \in Seq(Jobs)
  <2>1. queue[q] \in Queues(Jobs)
    BY DEF BaseInv, TypeOK
  <2> QED
    BY <2>1 DEF BaseInv, TypeOK, JobsInv, Queues
<1>1. ~NoJob.force /\ DOMAIN Quiet.jobs = {}
  BY DEF NoJob, Quiet
<1>2. ASSUME job'[q] = job[q], queue'[q] = queue[q] PROVE job[q].force \/ ForceQueued(q)
  BY <1>2 DEF ForceQueued
<1>3. ASSUME NEW j \in Jobs, ~j.force, boot[q] = "up", Reload(q, j)
      PROVE  job[q].force \/ ForceQueued(q)
  <2>1. CASE queue'[q].jobs = <<j>> /\ job'[q] = job[q]
    <3>1. DOMAIN <<j>> = 1 .. 1 /\ <<j>>[1] = j
      OBVIOUS
    <3> QED
      BY <1>3, <2>1, <3>1 DEF ForceQueued
  <2>2. CASE job'[q] = j /\ queue'[q].jobs = <<>>
    BY <1>3, <2>2 DEF ForceQueued
  <2> QED
    BY <1>0, <1>2, <1>3, <2>1, <2>2, ReloadCases
<1>4. CASE Sync(q) \/ Start(q) \/ ReadDisk(q) \/ Registers(q) \/ Initialized(q) \/ Listen(q)
  <2>1. queue' = queue /\ job' = job
    BY <1>4 DEF Sync, CheckStatus, Lock, Subscribe, Clear, List, Copy, PublishReady, Unlock,
       Start,
       ReadDisk, Registers, Register, RegisterKept, Initialized, Listen, jobVars
  <2> QED
    BY <1>2, <2>1
<1>5. CASE EndReload(q)
  <2> DEFINE jobs == queue[q].jobs
  <2>1. CASE Waiting(queue[q])
    <3>1. /\ job'[q] = Head(jobs) /\ queue'[q].jobs = Tail(jobs) /\ jobs # <<>>
          /\ jobs \in Seq(Jobs)
      <4>1. job'[q] = Head(jobs)
        BY <1>0, <1>5, <2>1 DEF EndReload, Begin
      <4>2. queue'[q] = [queue[q] EXCEPT !.jobs = Tail(@)]
        BY <1>0, <1>5, <2>1 DEF EndReload, Continue
      <4>3. queue'[q].jobs = Tail(jobs)
        BY <1>0, <4>2 DEF Queues
      <4> QED
        BY <1>0, <2>1, <4>1, <4>3 DEF Waiting
    <3>2. \E i \in DOMAIN jobs : jobs[i].force
      <4>1. Head(jobs).force \/ \E i \in DOMAIN Tail(jobs) : Tail(jobs)[i].force
        BY <3>1 DEF ForceQueued
      <4>2. jobs \in Seq(Jobs) /\ jobs # <<>>
        BY <3>1
      <4> HIDE DEF jobs
      <4>3. /\ DOMAIN jobs = 1 .. Len(jobs) /\ Len(jobs) \in Nat /\ Len(jobs) > 0
            /\ Head(jobs) = jobs[1]
        BY <4>2, LenProperties, EmptySeq
      <4>4. /\ DOMAIN Tail(jobs) = 1 .. Len(jobs) - 1
            /\ \A i \in 1 .. Len(jobs) - 1 : Tail(jobs)[i] = jobs[i + 1]
        BY <4>2, HeadTailProperties, LenProperties
      <4>5. CASE Head(jobs).force
        BY <4>3, <4>5
      <4>6. ASSUME NEW i \in DOMAIN Tail(jobs), Tail(jobs)[i].force
            PROVE  \E k \in DOMAIN jobs : jobs[k].force
        <5>1. i + 1 \in DOMAIN jobs /\ jobs[i + 1].force
          BY <4>3, <4>4, <4>6
        <5> QED
          BY <5>1
      <4> QED
        BY <4>1, <4>5, <4>6
    <3> QED
      BY <3>2 DEF ForceQueued
  <2>2. CASE ~Waiting(queue[q])
    <3>1. job'[q] = NoJob /\ queue'[q] = Quiet
      BY <1>0, <1>5, <2>2 DEF EndReload, Continue
    <3> QED
      BY <1>1, <3>1 DEF ForceQueued
  <2> QED
    BY <2>1, <2>2
<1>6. CASE Deliver(q)
  <2>1. queue' = queue /\ job' = job => job[q].force \/ ForceQueued(q)
    BY <1>2
  <2> QED
    BY <1>0, <1>3, <1>6, <2>1, DeliverCases DEF jobVars
<1>7. CASE Toggle(q)
  <2>1. [force |-> FALSE, request |-> TRUE] \in Jobs /\ ~[force |-> FALSE, request |-> TRUE].force
    BY DEF Jobs
  <2> QED
    BY <1>3, <1>7, <2>1 DEF Toggle, Request, MayToggle
<1>8. CASE Dies(q)
  <2>1. job'[q] = NoJob /\ queue'[q] = Quiet
    BY <1>0, <1>8 DEF Dies, Crash, SyncFails, Stops
  <2> QED
    BY <1>1, <2>1 DEF ForceQueued
<1> QED
  BY <1>0, <1>2, <1>4, <1>5, <1>6, <1>7, <1>8, ActsAlone DEF ActsOf, Works, Load, Same

\* A subscription is only made by Subscribe.
LEMMA WaitsComes ==
    ASSUME TypeOK, [Next]_vars, NEW q \in Processes, waits'[q], ~waits[q]
    PROVE  Subscribe(q)
<1>1. ASSUME ActsOf(q), ~Subscribe(q), ~Dies(q) PROVE waits' = waits
  BY <1>1 DEF ActsOf, Works, Sync, CheckStatus, Lock, Clear, List, Copy, PublishReady,
     Unlock, Load,
     ReadDisk, Registers, Register, RegisterKept, Initialized, EndReload, Start, Listen,
     Deliver, Install, Toggle,
     busVars
<1>2. Dies(q) => ~waits'[q]
  BY DEF Dies, Crash, SyncFails, Stops, TypeOK
<1> QED
  BY <1>1, <1>2, ActsAlone DEF Same

\* How a job begins.
LEMMA JobBegins ==
    ASSUME BaseInv, [Next]_vars, NEW q \in Processes, step[q] \in {"none", "ended"}
    PROVE  \/ step'[q] \in {"none", "ended", "check"}
           \/ step'[q] = "lock" /\ job'[q].force
<1>0. step \in [Processes -> Steps] /\ job \in [Processes -> Jobs]
  BY DEF BaseInv, TypeOK
<1>1. TypeOK /\ JobsInv
  BY DEF BaseInv
<1>2. ASSUME NEW j, Begin(q, j)
      PROVE  step'[q] = "check" \/ (step'[q] = "lock" /\ job'[q].force)
  BY <1>0, <1>2 DEF Begin, Goto
<1>3. ASSUME NEW j, Reload(q, j)
      PROVE  step'[q] = step[q] \/ step'[q] = "check" \/ (step'[q] = "lock" /\ job'[q].force)
  BY <1>2, <1>3 DEF Reload
<1>4. ~Sync(q) /\ ~ReadDisk(q) /\ ~Registers(q)
  BY DEF Sync, CheckStatus, Lock, Subscribe, Clear, List, Copy, PublishReady, Unlock, ReadDisk,
     Registers, Register, RegisterKept
<1>5. Start(q) \/ Initialized(q) \/ Dies(q) => step'[q] \in {"none", "check"}
  BY <1>0 DEF Start, Initialized, Dies, Crash, SyncFails, Stops, Goto
<1>6. Listen(q) \/ Same(q) => step'[q] = step[q]
  BY DEF Listen, Same
<1>7. EndReload(q) => step'[q] \in {"none", "check"} \/ (step'[q] = "lock" /\ job'[q].force)
  BY <1>0, <1>2 DEF EndReload, Goto
<1>8. Deliver(q) \/ Install(q) \/ Toggle(q) =>
         step'[q] = step[q] \/ step'[q] = "check" \/ (step'[q] = "lock" /\ job'[q].force)
  BY <1>0, <1>3 DEF Deliver, Install, Toggle, Request, Goto
<1> QED
  BY <1>1, <1>4, <1>5, <1>6, <1>7, <1>8, ActsAlone DEF ActsOf, Works, Load

\* What the first sync copied is current when it is published, or the next sync
\* is forced after it.
LEMMA PublishStep ==
    ASSUME BaseInv, ExtInv, [Next]_vars, Ok'
    PROVE  PublishInv'
<1>0. /\ TypeOK /\ JobsInv /\ SyncInv /\ OneSyncer /\ DiskInv /\ Ok /\ ForcedOnly /\ PublishInv
      /\ step \in [Processes -> Steps] /\ lock \in Nat
      /\ remote \in Nat /\ listed \in [Processes -> Nat]
      /\ boot \in [Processes -> {"down", "loading", "up"}]
      /\ inbox \in [Processes -> Seq({"reload", "ready"})]
  BY OkStep DEF BaseInv, ExtInv, SyncInv, TypeOK
<1>1. SUFFICES ASSUME NEW s \in Processes, step'[s] = "publish", ~job'[s].force,
                      NEW q \in Processes
      PROVE  /\ ~Holds(inbox'[q], "ready")
             /\ waits'[q] => step'[q] = "wait" /\ boot'[q] = "loading"
             /\ job'[q].force \/ ForceQueued(q)' => listed'[s] < remote'
             /\ boot'[q] = "up" => step'[q] \notin {"subscribe", "wait"}
                                   /\ (step'[q] = "lock" => job'[q].force)
  BY DEF PublishInv, Holds
<1>2. BootInv(q) /\ BaseInv
  BY <1>0 DEF JobsInv
<1>3. CASE Copy(s)
  <2>1. /\ step[s] = "copy" /\ job' = job /\ boot' = boot /\ inbox' = inbox /\ waits' = waits
        /\ queue' = queue /\ ~job[s].force
    BY <1>0, <1>1, <1>3, SyncTypes
  <2>2. Fresh
    BY <1>0, <2>1 DEF ForcedOnly
  <2>3. /\ boot[q] # "up" /\ ~Holds(inbox[q], "ready") /\ (waits[q] => step[q] = "wait")
        /\ boot'[q] = boot[q] /\ inbox'[q] = inbox[q] /\ waits'[q] = waits[q]
        /\ job'[q] = job[q] /\ queue'[q] = queue[q]
    BY <2>1, <2>2 DEF Fresh
  <2>4. ~job'[q].force /\ ~ForceQueued(q)'
    BY <1>2, <2>3, ForcedIsUp DEF ForceQueued
  <2>5. ASSUME waits[q] PROVE step'[q] = "wait" /\ boot'[q] = "loading"
    <3>1. q # s /\ step[q] = "wait" /\ boot[q] = "loading"
      BY <1>0, <1>2, <2>1, <2>3, <2>5 DEF BootInv
    <3> QED
      BY <1>0, <1>3, <2>3, <3>1 DEF Copy, Goto
  <2> QED
    BY <2>3, <2>4, <2>5
<1>4. CASE Still(s)
  <2>1. step[s] = "publish" /\ ~job[s].force /\ listed'[s] = listed[s]
    BY <1>1, <1>4 DEF Still
  <2>2. /\ ~Holds(inbox[q], "ready")
        /\ waits[q] => step[q] = "wait" /\ boot[q] = "loading"
        /\ job[q].force \/ ForceQueued(q) => listed[s] < remote
        /\ boot[q] = "up" => step[q] \notin {"subscribe", "wait"}
                             /\ (step[q] = "lock" => job[q].force)
    BY <1>0, <2>1 DEF PublishInv
  <2>3. disk.done /\ listed[s] <= remote /\ lock > 0
    BY <1>0, <2>1 DEF DiskInv, SyncInv, Syncing
  <2>4. ~Holds(inbox'[q], "ready")
    <3> DEFINE box == inbox[q]
    <3>1. \A p \in Processes : ~PublishReady(p)
      <4>1. ASSUME NEW p \in Processes, PublishReady(p) PROVE FALSE
        <5>1. step[p] = "publish" /\ step'[p] = "unlock"
          BY <1>0, <4>1, SyncTypes
        <5>2. p = s
          BY <1>0, <2>1, <5>1 DEF OneSyncer, Syncing
        <5> QED
          BY <1>1, <5>1, <5>2
      <4> QED
        BY <4>1
    <3>2. box # <<>> => ~Holds(Tail(box), "ready")
      <4>1. box \in Seq({"reload", "ready"}) /\ ~Holds(box, "ready")
        BY <1>0, <2>2
      <4> HIDE DEF box
      <4> QED
        BY <4>1, BoxOps
    <3>3. ~Holds(Append(box, "reload"), "ready")
      <4>1. box \in Seq({"reload", "ready"}) /\ ~Holds(box, "ready")
        BY <1>0, <2>2
      <4> HIDE DEF box
      <4> QED
        BY <4>1, BoxOps
    <3>4. ~Holds(<<>>, "ready")
      BY DEF Holds
    <3> QED
      BY <1>0, <2>2, <3>1, <3>2, <3>3, <3>4, InboxStep
  <2>5. ASSUME waits'[q] PROVE step'[q] = "wait" /\ boot'[q] = "loading"
    <3>1. CASE waits[q]
      <4>1. step[q] = "wait" /\ boot[q] = "loading"
        BY <2>2, <3>1
      <4>2. ~Dies(q)
        BY <1>0, <2>5 DEF Dies, Crash, SyncFails, Stops, TypeOK
      <4>3. ~Sync(q) /\ ~ReadDisk(q) /\ ~Registers(q)
        BY <4>1 DEF Sync, CheckStatus, Lock, Subscribe, Clear, List, Copy, PublishReady, Unlock,
           ReadDisk, Registers, Register, RegisterKept
      <4>4. Still(q)
        BY <1>0, <1>2, <2>2, <4>1, <4>2, <4>3, StillStep, WaitEnds
      <4> QED
        BY <4>1, <4>4 DEF Still
    <3>2. CASE Subscribe(q)
      <4>1. step[q] = "subscribe" /\ step'[q] = "wait" /\ boot' = boot
        BY <1>0, <3>2 DEF Subscribe, Goto
      <4>2. boot[q] = "loading"
        BY <1>0, <1>2, <2>2, <4>1 DEF BootInv
      <4> QED
        BY <4>1, <4>2
    <3> QED
      BY <1>0, <2>5, <3>1, <3>2, WaitsComes
  <2>6. ASSUME job'[q].force \/ ForceQueued(q)' PROVE listed'[s] < remote'
    <3>1. CASE Install(q)
      <4>1. remote' = remote + 1
        BY <3>1 DEF Install
      <4> QED
        BY <1>0, <2>1, <2>3, <4>1
    <3>2. CASE job[q].force \/ ForceQueued(q)
      <4>1. remote' = remote \/ remote' = remote + 1
        BY RemoteChanges DEF Install
      <4>2. listed[s] \in Nat /\ listed[s] < remote
        BY <1>0, <2>2, <3>2
      <4> QED
        BY <1>0, <2>1, <4>1, <4>2
    <3> QED
      BY <1>2, <2>6, <3>1, <3>2, ForceComes
  <2>7. ASSUME boot'[q] = "up"
        PROVE  step'[q] \notin {"subscribe", "wait"} /\ (step'[q] = "lock" => job'[q].force)
    <3>1. CASE step[q] \in {"none", "ended"}
      BY <1>2, <3>1, JobBegins
    <3>2. CASE CheckStatus(q)
      BY <1>0, <2>3, <3>2 DEF CheckStatus, Goto
    <3>3. CASE Lock(q)
      <4>1. step[q] = "lock" /\ boot' = boot
        BY <1>0, <3>3, SyncTypes
      <4>2. job[q].force
        BY <2>2, <2>7, <4>1
      <4>3. HasListedOther
        <5>1. listed[s] # remote
          BY <1>0, <2>2, <4>2
        <5> QED
          BY <2>1, <5>1 DEF HasListedOther
      <4>4. lock # 0
        BY <1>0, <2>3
      <4> QED
        BY <1>2, <3>3, <4>2, <4>3, <4>4, OkStep
    <3>4. CASE Subscribe(q)
      BY <2>2, <2>7, <3>4 DEF Subscribe
    <3>5. CASE Clear(q) \/ List(q) \/ Copy(q) \/ PublishReady(q) \/ Unlock(q)
      BY <1>0, <3>5, SyncTypes
    <3>6. CASE ReadDisk(q) \/ Registers(q)
      BY <1>0, <3>6 DEF ReadDisk, Registers, Register, RegisterKept, Goto
    <3>7. CASE Still(q)
      BY <2>2, <2>7, <3>7 DEF Still
    <3>8. CASE step'[q] = "read"
      BY <3>8
    <3>9. ~Dies(q)
      BY <1>0, <2>7 DEF Dies, Crash, SyncFails, Stops
    <3>10. Sync(q) => CheckStatus(q) \/ Lock(q) \/ Subscribe(q) \/ Clear(q) \/ List(q) \/ Copy(q)
                      \/ PublishReady(q) \/ Unlock(q)
      BY DEF Sync
    <3> QED
      BY <1>0, <3>1, <3>2, <3>3, <3>4, <3>5, <3>6, <3>7, <3>8, <3>9, <3>10, StillStep
  <2> QED
    BY <2>4, <2>5, <2>6, <2>7
<1>5. CASE Clear(s) \/ List(s) \/ PublishReady(s) \/ Unlock(s) \/ Dies(s) \/ (Lock(s) /\ lock = 0)
  BY <1>0, <1>1, <1>5, SyncTypes
<1> QED
  BY <1>0, <1>1, <1>3, <1>4, <1>5, SyncingComes, SyncerSteps DEF Syncing

\* What a process reads is current, or it will read it once more.
LEMMA ReadsCurrent ==
    ASSUME BaseInv, Current, NEW p \in Processes, step[p] = "read"
    PROVE  disk.exts = remote \/ Later(p)
<1>1. ~Fresh
  BY DEF Fresh
<1>2. ASSUME NEW r \in Processes, WillSync(r) \/ Stuck(r) PROVE Later(p)
  <2>1. CASE r # p
    <3>1. Owes(r)
      BY <1>2, ForcedIsUp DEF WillSync, Stuck
    <3> QED
      BY <2>1, <3>1 DEF Later
  <2>2. CASE r = p
    <3>1. ForceQueued(p)
      BY <1>2, <2>2 DEF WillSync, Stuck
    <3>2. Waiting(queue[p])
      BY <3>1 DEF ForceQueued, Waiting
    <3> QED
      BY <3>2 DEF Later
  <2> QED
    BY <2>1, <2>2
<1> QED
  BY <1>1, <1>2 DEF Current

\* What a process has read, or loaded, is current, or it will load it once more.
LEMMA LoadStep ==
    ASSUME BaseInv, Current, LoadInv, [Next]_vars, Ok'
    PROVE  LoadInv'
<1>0. /\ TypeOK /\ JobsInv /\ step \in [Processes -> Steps]
      /\ boot \in [Processes -> {"down", "loading", "up"}]
      /\ exts \in [Processes -> Versions] /\ kept \in [Processes -> SUBSET {"exts", "conf"}]
  BY DEF BaseInv, TypeOK
<1>1. SUFFICES ASSUME NEW p \in Processes, ~missed'[p], "exts" \notin kept'[p], ~Later(p)',
                      Alive(p)', step'[p] \in {"settings", "none", "ended"}
               PROVE  exts'[p] = remote'
  BY DEF LoadInv
<1>2. BootInv(p) /\ ~missed[p]
  BY <1>0, <1>1, MissedStays DEF JobsInv
<1>3. CASE ReadDisk(p) \/ Registers(p)
  <2>1. ~Later(p)
    <3>1. UNCHANGED <<job, queue, inbox>>
      BY <1>3 DEF ReadDisk, Registers, Register, RegisterKept, jobVars, busVars
    <3> QED
      BY <1>1, <3>1 DEF Later, Owes, JobsOf
  <2>2. CASE ReadDisk(p)
    <3>1. step[p] = "read" /\ exts'[p] = disk.exts /\ remote' = remote
      BY <1>0, <2>2 DEF ReadDisk, storeVars
    <3> QED
      BY <2>1, <3>1, ReadsCurrent
  <2>3. CASE Registers(p)
    <3>1. exts' = exts /\ remote' = remote
      BY <2>3 DEF Registers, Register, RegisterKept, storeVars, loadVars
    <3>2. step[p] = "settings" /\ "exts" \notin kept[p]
      BY <1>0, <1>1, <2>3 DEF Registers, Register, RegisterKept
    <3>3. Alive(p)
      BY <1>2, <3>2 DEF BootInv, Alive
    <3> QED
      BY <1>2, <2>1, <3>1, <3>2, <3>3 DEF LoadInv
  <2> QED
    BY <1>3, <2>2, <2>3
<1>4. ASSUME Alive(p), step[p] \in {"settings", "none", "ended"}, exts'[p] = exts[p],
             ~Install(p), ~ReadDisk(p)
      PROVE  exts'[p] = remote'
  <2>1. HasRead(p)
    BY <1>0, <1>2, <1>4 DEF BootInv, HasRead, Alive
  <2>2. ~Later(p)
    BY <1>0, <1>1, <2>1, LaterStays
  <2>3. remote' = remote
    BY <1>0, <1>1, <1>4, <2>1, RemoteChanges, ChangeIsLater
  <2>4. "exts" \notin kept[p]
    BY <1>0, <1>1, <1>4, KeptStays
  <2> QED
    BY <1>2, <1>4, <2>2, <2>3, <2>4 DEF LoadInv
<1>5. CASE step'[p] = "settings" /\ ~ReadDisk(p) /\ ~Registers(p)
  <2>1. step[p] \notin {"none", "ended"}
    BY <1>5, JobBegins
  <2>2. ~Dies(p) /\ ~Sync(p)
    BY <1>0, <1>5 DEF Dies, Crash, SyncFails, Stops, Sync, CheckStatus, Lock, Subscribe, Clear,
       List, Copy, PublishReady, Unlock, Goto
  <2>3. step[p] = "settings" /\ Still(p)
    BY <1>0, <1>5, <2>1, <2>2, StillStep DEF Still
  <2>4. exts'[p] = exts[p]
    <3>1. Initialized(p) \/ EndReload(p) \/ Start(p) \/ Listen(p) \/ Deliver(p) \/ Install(p)
          \/ Toggle(p) => exts' = exts
      BY DEF Initialized, EndReload, Start, Listen, Deliver, Install, Toggle, loadVars
    <3> QED
      BY <1>0, <1>5, <2>2, <3>1, ActsAlone DEF ActsOf, Same
  <2>5. ~Install(p)
    BY <1>0, <1>1, <1>5, OwnChangeIsLater
  <2>6. Alive(p)
    BY <1>2, <2>3 DEF BootInv, Alive
  <2> QED
    BY <1>4, <1>5, <2>3, <2>4, <2>5, <2>6
<1>6. CASE step'[p] \in {"none", "ended"} /\ ~Registers(p) /\ ~ReadDisk(p)
  <2>1. /\ Alive(p) /\ step[p] \in {"none", "ended"} /\ exts'[p] = exts[p] /\ ~Install(p)
    BY <1>0, <1>1, <1>6, LoadedStep
  <2> QED
    BY <1>4, <1>6, <2>1
<1> QED
  BY <1>1, <1>3, <1>5, <1>6

\* When all is done every process whose last load could read the disk has the
\* extensions of the location, unless an install failed half-way, a forced sync
\* was dropped or joined one under way, or a sync that nobody forced cleared a
\* disk in sync (ExtensionsCurrent).
THEOREM ExtensionsAreCurrent == Spec => []ExtensionsCurrent
<1>1. Init => ExtInv
  <2>1. SUFFICES ASSUME Init PROVE ExtInv
    OBVIOUS
  <2>k. ~disk.done /\ lock = 0
    BY <2>1 DEF Init
  <2>n. \A q \in Processes : boot[q] = "down" /\ step[q] = "none" /\ inbox[q] = <<>> /\ ~waits[q]
    BY <2>1 DEF Init
  <2>m. ~Holds(<<>>, "ready")
    BY DEF Holds
  <2>2. Fresh
    BY <2>k, <2>n, <2>m DEF Fresh
  <2>3. ForcedOnly /\ PublishInv /\ LoadInv
    BY <2>n DEF ForcedOnly, PublishInv, LoadInv, Alive
  <2>4. FirstInv
    BY <2>k, <2>n DEF FirstInv, First
  <2> QED
    BY <2>2, <2>3, <2>4 DEF ExtInv, Undone, Current
<1>2. BaseInv /\ ExtInv /\ [Next]_vars => ExtInv'
  <2>1. SUFFICES ASSUME BaseInv, ExtInv, [Next]_vars, Ok'
                 PROVE  ForcedOnly' /\ Undone' /\ Current' /\ FirstInv' /\ PublishInv' /\ LoadInv'
    BY DEF ExtInv
  <2>2. Current /\ LoadInv
    BY <2>1, OkStep DEF ExtInv
  <2> QED
    BY <2>1, <2>2, ForcedOnlyStep, UndoneStep, CurrentStep, FirstStep, PublishStep, LoadStep
<1>3. BaseInv /\ ExtInv => ExtensionsCurrent
  <2>1. SUFFICES ASSUME BaseInv, ExtInv, Settled, NEW p \in Processes,
                        boot[p] = "up", ~missed[p], "exts" \notin kept[p],
                        ~unsynced, ~resynced
                 PROVE  exts[p] = remote
    BY DEF ExtensionsCurrent
  <2>2. step[p] = "none" /\ Alive(p) /\ LoadInv /\ TypeOK /\ JobsInv
    BY <2>1 DEF Settled, Alive, ExtInv, Ok, BaseInv
  <2> QED
    BY <2>1, <2>2, NothingLater DEF LoadInv
<1> QED
  BY <1>1, <1>2, <1>3, BaseInductive, PTL DEF Spec
=============================================================================
