----------------------------- MODULE FlowsProofs -----------------------------
(* What holds of Flows for every number of processes, changes, ticks and     *)
(* faults, whether the clock is kept in Redis or in memory.                  *)
EXTENDS Flows, SequenceTheorems, TLAPS

-----------------------------------------------------------------------------
(* Lemmas about the queue.                                                   *)

ReloadQueues == Queues({"reload"})

\* Enqueueing a job and going on after one yield queues.
LEMMA QueueType ==
    ASSUME NEW q \in ReloadQueues
    PROVE  /\ Enqueue(q, "reload") \in ReloadQueues
           /\ Continue(q) \in ReloadQueues
           /\ Quiet \in ReloadQueues
<1>1. q.running \in BOOLEAN /\ q.jobs \in Seq({"reload"})
  BY DEF ReloadQueues, Queues
<1>2. Append(q.jobs, "reload") \in Seq({"reload"})
  BY <1>1
<1>3. q.jobs # <<>> => Tail(q.jobs) \in Seq({"reload"})
  BY <1>1
<1>4. q = [running |-> q.running, jobs |-> q.jobs]
  BY DEF ReloadQueues, Queues
<1>5. Quiet \in ReloadQueues
  BY DEF ReloadQueues, Queues, Quiet
<1>6. Enqueue(q, "reload") \in ReloadQueues
  <2>1. Enqueue(q, "reload") \in {[running |-> TRUE, jobs |-> q.jobs],
                                [running |-> q.running, jobs |-> Append(q.jobs, "reload")]}
    BY <1>4 DEF Enqueue
  <2> QED
    <3>1. {[running |-> TRUE, jobs |-> q.jobs],
           [running |-> q.running, jobs |-> Append(q.jobs, "reload")]}
          \subseteq [running : BOOLEAN, jobs : Seq({"reload"})]
      BY <1>1, <1>2
    <3> QED
      BY <2>1, <3>1 DEF ReloadQueues, Queues
<1>7. Continue(q) \in ReloadQueues
  <2>1. CASE ~Waiting(q)
    BY <1>5, <2>1 DEF Continue
  <2>2. CASE Waiting(q)
    <3>1. Continue(q) = [running |-> q.running, jobs |-> Tail(q.jobs)]
      BY <1>4, <2>2 DEF Continue
    <3> QED
      BY <1>1, <1>3, <2>2, <3>1 DEF ReloadQueues, Queues, Waiting
  <2> QED
    BY <2>1, <2>2
<1> QED
  BY <1>5, <1>6, <1>7

\* What the queue says of itself after either.
LEMMA QueueRuns ==
    ASSUME NEW q \in ReloadQueues
    PROVE  /\ Enqueue(q, "reload").running
           /\ q.running => Enqueue(q, "reload").jobs = Append(q.jobs, "reload")
           /\ q.running => Waiting(Enqueue(q, "reload"))
           /\ Continue(q).running = (Waiting(q) /\ q.running)
           /\ ~Waiting(q) => Continue(q) = Quiet
           /\ ~Quiet.running
<1>1. q = [running |-> q.running, jobs |-> q.jobs] /\ q.jobs \in Seq({"reload"})
      /\ q.running \in BOOLEAN
  BY DEF ReloadQueues, Queues
<1>2. Append(q.jobs, "reload") # <<>>
  BY <1>1
<1> QED
  BY <1>1, <1>2 DEF Enqueue, RunsAtOnce, Continue, Waiting, Quiet

-----------------------------------------------------------------------------
(* Types.                                                                    *)

\* Every variable keeps its type.
LEMMA TypeStep ==
    ASSUME TypeOK, [Next]_vars
    PROVE  TypeOK'
<1> USE DEF TypeOK
<1> USE QueueType DEF ReloadQueues
<1>0. ASSUME NEW p \in Processes, BeginUnload(p)
      PROVE  /\ job' \in [Processes -> {"none", "resetting", "clearing", "reading", "read", "ended", "rejected"}]
             /\ listeners' \in [Processes -> Seq(Nat)]
             /\ timers' \in [Processes -> Seq(Nat \ {0})]
  <2>1. <<>> \in Seq(Nat) /\ <<>> \in Seq(Nat \ {0})
    OBVIOUS
  <2>2. listeners' = listeners \/ listeners' = [listeners EXCEPT ![p] = <<>>]
    BY <1>0 DEF BeginUnload
  <2>3. listeners' \in [Processes -> Seq(Nat)]
    BY <2>1, <2>2
  <2> QED
    BY <1>0, <2>1, <2>3 DEF BeginUnload
<1>1. ASSUME NEW p \in Processes, Start(p) PROVE TypeOK'
  BY <1>1 DEF Start, changeVars, handlerVars, tickVars
<1>2. ASSUME NEW p \in Processes, Subscribe(p) PROVE TypeOK'
  BY <1>2 DEF Subscribe, changeVars, loadVars, handlerVars, tickVars
<1>3. ASSUME NEW p \in Processes, BootRead(p) PROVE TypeOK'
  BY <1>3 DEF BootRead, Reads, Loads, changeVars, handlerVars, tickVars
<1>4. ASSUME NEW p \in Processes, JobRead(p) PROVE TypeOK'
  BY <1>4 DEF JobRead, Reads, Loads, changeVars, handlerVars, tickVars
<1>5. ASSUME NEW p \in Processes, NEW l \in Loads, Registers(p, l),
             boot' \in [Processes -> {"down", "reading", "read", "up"}],
             job' \in [Processes -> {"none", "resetting", "clearing", "reading", "read", "ended", "rejected"}]
      PROVE  TypeOK'
  <2>1. got[p][l] \in Nat /\ now + 1 \in Nat \ {0}
    BY BoundAssumption DEF Ticks
  <2>2. /\ Append(handlers[p], got[p][l]) \in Seq(Nat)
        /\ Append(listeners[p], got[p][l]) \in Seq(Nat)
        /\ Append(timers[p], now + 1) \in Seq(Nat \ {0})
    BY <2>1, AppendProperties
  <2> QED
    BY <1>5, <2>2 DEF Registers, changeVars
<1>6. ASSUME NEW p \in Processes, BootRegister(p) \/ JobRegister(p) PROVE TypeOK'
  <2>1. CASE BootRegister(p)
    <3>1. /\ Registers(p, "boot") /\ job' = job
          /\ boot' = [boot EXCEPT ![p] = "up"]
      BY <2>1 DEF BootRegister
    <3> QED
      BY <1>5, <3>1 DEF Loads
  <2>2. CASE JobRegister(p)
    <3>1. /\ Registers(p, "job") /\ boot' = boot
          /\ job' = [job EXCEPT ![p] = "ended"]
      BY <2>2 DEF JobRegister
    <3> QED
      BY <1>5, <3>1 DEF Loads
  <2> QED
    BY <1>6, <2>1, <2>2
<1>7. ASSUME NEW p \in Processes, ResetClock(p) PROVE TypeOK'
  BY <1>7 DEF ResetClock, changeVars, handlerVars, NoTicks
<1>8. ASSUME NEW p \in Processes, EndUnload(p) PROVE TypeOK'
  BY <1>8 DEF EndUnload, changeVars, tickVars
<1>9. ASSUME NEW p \in Processes, Deliver(p) PROVE TypeOK'
  <2>1. queue' \in [Processes -> Queues({"reload"})]
    <3>1. Enqueue(queue[p], "reload") \in Queues({"reload"})
      OBVIOUS
    <3> QED
      BY <1>9, <3>1 DEF Deliver
  <2>2. /\ job' = job \/ BeginUnload(p)
        /\ listeners' = listeners \/ BeginUnload(p)
        /\ timers' = timers \/ BeginUnload(p)
        /\ missed' = missed \/ missed' = [missed EXCEPT ![p] = @ \/ HasRead(p)]
    BY <1>9 DEF Deliver
  <2>3. /\ job' \in [Processes -> {"none", "resetting", "clearing", "reading", "read", "ended", "rejected"}]
        /\ listeners' \in [Processes -> Seq(Nat)]
        /\ timers' \in [Processes -> Seq(Nat \ {0})]
    BY <2>2, <1>0
  <2>4. missed' \in [Processes -> BOOLEAN]
    BY <2>2 DEF HasRead
  <2>5. inbox' \in [Processes -> Nat]
    BY <1>9 DEF Deliver
  <2> QED
    BY <1>9, <2>1, <2>3, <2>4, <2>5 DEF Deliver, changeVars
<1>10. ASSUME NEW p \in Processes, NextJob(p) PROVE TypeOK'
  <2>1. queue' \in [Processes -> Queues({"reload"})]
    BY <1>10 DEF NextJob
  <2>2. /\ job' = [job EXCEPT ![p] = "none"] \/ BeginUnload(p)
        /\ listeners' = listeners \/ BeginUnload(p)
        /\ timers' = timers \/ BeginUnload(p)
    BY <1>10 DEF NextJob
  <2>3. /\ job' \in [Processes -> {"none", "resetting", "clearing", "reading", "read", "ended", "rejected"}]
        /\ listeners' \in [Processes -> Seq(Nat)]
        /\ timers' \in [Processes -> Seq(Nat \ {0})]
    BY <2>2, <1>0
  <2> QED
    BY <1>10, <2>1, <2>3 DEF NextJob, changeVars
<1>11. ASSUME NEW p \in Processes, Changes(p) PROVE TypeOK'
  <2>1. /\ table' \in Nat
        /\ pending' \in [Processes -> Nat] /\ unlinked' \in [Processes -> Nat]
    <3>1. CASE Commit(p)
      BY <3>1 DEF Commit
    <3>2. CASE CommitUnannounced(p)
      BY <3>2 DEF CommitUnannounced
    <3>3. CASE Unlink(p)
      BY <3>3 DEF Unlink
    <3>4. CASE Delete(p)
      BY <3>4 DEF Delete
    <3>5. CASE DeleteThrows(p)
      BY <3>5 DEF DeleteThrows
    <3> QED
      BY <1>11, <3>1, <3>2, <3>3, <3>4, <3>5 DEF Changes
  <2>2. missed' \in [Processes -> BOOLEAN]
    BY <1>11 DEF Changes, Commit, CommitUnannounced, Unlink, Delete, DeleteThrows, PassesBy,
       HasRead
  <2>3. UNCHANGED <<inbox, sub, loadVars, handlerVars, tickVars, faults>>
    BY <1>11 DEF Changes, Commit, CommitUnannounced, Unlink, Delete, DeleteThrows
  <2> QED
    BY <2>1, <2>2, <2>3 DEF loadVars, handlerVars, tickVars
<1>12. ASSUME NEW p \in Processes, Publish(p) PROVE TypeOK'
  <2>1. pending' \in [Processes -> Nat]
    BY <1>12 DEF Publish
  <2>2. inbox' \in [Processes -> Nat]
    BY <1>12 DEF Publish
  <2>3. missed' \in [Processes -> BOOLEAN]
    BY <1>12 DEF Publish, HasRead
  <2> QED
    BY <1>12, <2>1, <2>2, <2>3 DEF Publish, loadVars, handlerVars, tickVars
<1>13. CASE Tick
  BY <1>13, BoundAssumption DEF Tick, Ticks, changeVars, loadVars, handlerVars
<1>14. ASSUME NEW p \in Processes, Fire(p) PROVE TypeOK'
  <2>1. PICK i \in DOMAIN timers[p] :
           /\ timers[p][i] <= now
           /\ timers' = [timers EXCEPT ![p][i] = @ + 1]
           /\ calls' = calls \cup {[process |-> p, tick |-> timers[p][i]]}
    BY <1>14 DEF Fire
  <2>2. timers[p] \in Seq(Nat \ {0}) /\ timers[p][i] \in Nat \ {0}
    BY <2>1
  <2>3. timers[p][i] \in Ticks
    BY <2>1, <2>2, BoundAssumption DEF Ticks
  <2>4. [timers[p] EXCEPT ![i] = @ + 1] \in Seq(Nat \ {0})
    BY <2>1, <2>2, ExceptSeq
  <2>5. timers' \in [Processes -> Seq(Nat \ {0})]
    BY <2>1, <2>4
  <2>6. calls' \subseteq [process : Processes, tick : Ticks]
    BY <2>1, <2>3
  <2> QED
    BY <1>14, <2>5, <2>6 DEF Fire, changeVars, loadVars, handlerVars
<1>15. ASSUME NEW c \in calls, SetClock(c) PROVE TypeOK'
  <2> DEFINE s == Store(c.process)
  <2>1. s \in Stores /\ c.tick \in Ticks
    BY DEF Stores
  <2>2. c.tick \in Nat
    BY <2>1, BoundAssumption DEF Ticks
  <2>3. calls' \subseteq calls
    BY <1>15 DEF SetClock
  <2>4. \/ UNCHANGED <<clock, taken>>
        \/ /\ clock' = [clock EXCEPT ![s] = c.tick + 1]
           /\ taken' = [taken EXCEPT ![s][c.tick] = @ + 1]
    BY <1>15 DEF SetClock
  <2>5. clock' \in [Stores -> Nat] /\ taken' \in [Stores -> [Ticks -> Nat]]
    <3>1. CASE UNCHANGED <<clock, taken>>
      BY <3>1
    <3>2. CASE /\ clock' = [clock EXCEPT ![s] = c.tick + 1]
               /\ taken' = [taken EXCEPT ![s][c.tick] = @ + 1]
      <4>1. taken[s] \in [Ticks -> Nat] /\ taken[s][c.tick] + 1 \in Nat
        BY <2>1
      <4>2. [taken[s] EXCEPT ![c.tick] = @ + 1] \in [Ticks -> Nat]
        BY <4>1
      <4>3. taken' = [taken EXCEPT ![s] = [taken[s] EXCEPT ![c.tick] = @ + 1]]
        BY <3>2
      <4> QED
        BY <2>1, <2>2, <3>2, <4>2, <4>3
    <3> QED
      BY <2>4, <3>1, <3>2
  <2> QED
    BY <1>15, <2>3, <2>5 DEF SetClock, changeVars, loadVars, handlerVars
<1>16. ASSUME NEW p \in Processes, Stops(p), faults' = faults + 1 PROVE TypeOK'
  <2>1. taken' \in [Stores -> [Ticks -> Nat]] /\ clock' \in [Stores -> Nat]
    BY <1>16 DEF Stops, NoTicks
  <2>2. missed' \in [Processes -> BOOLEAN]
    BY <1>16 DEF Stops, HasRead
  <2>3. /\ handlers' \in [Processes -> Seq(Nat)] /\ listeners' \in [Processes -> Seq(Nat)]
        /\ timers' \in [Processes -> Seq(Nat \ {0})]
    BY <1>16 DEF Stops
  <2>4. queue' \in [Processes -> Queues({"reload"})]
    <3>1. Quiet \in Queues({"reload"})
      BY DEF Queues, Quiet
    <3> QED
      BY <1>16, <3>1 DEF Stops
  <2>5. got' \in [Processes -> [Loads -> Nat]] /\ calls' \subseteq calls
    BY <1>16 DEF Stops, Loads
  <2>6. /\ boot' \in [Processes -> {"down", "reading", "read", "up"}]
        /\ job' \in [Processes -> {"none", "resetting", "clearing", "reading", "read", "ended", "rejected"}]
        /\ loaded' \in [Processes -> BOOLEAN] /\ sub' \in [Processes -> BOOLEAN]
        /\ inbox' \in [Processes -> Nat] /\ pending' \in [Processes -> Nat]
        /\ unlinked' \in [Processes -> Nat]
    BY <1>16 DEF Stops
  <2>7. UNCHANGED <<table, now>> /\ faults' \in Nat
    BY <1>16 DEF Stops
  <2> QED
    BY <2>1, <2>2, <2>3, <2>4, <2>5, <2>6, <2>7
<1>17. ASSUME NEW p \in Processes, job' = [job EXCEPT ![p] = "rejected"], faults' = faults + 1,
              UNCHANGED <<changeVars, inbox, sub, boot, queue, got, handlerVars, tickVars, missed>>
       PROVE  TypeOK'
  BY <1>17 DEF changeVars, handlerVars, tickVars
<1>18. CASE UNCHANGED vars
  BY <1>18 DEF vars, changeVars, loadVars, handlerVars, tickVars
<1> QED
  BY <1>1, <1>2, <1>3, <1>4, <1>5, <1>6, <1>7, <1>8, <1>9, <1>10, <1>11, <1>12, <1>13,
     <1>14, <1>15, <1>16, <1>17, <1>18 DEF Next, Works, Fails, Crash, BootFails, JobFails

\* The initial values have their types: no timer, no call, all clocks at 0.
LEMMA TypeInit == Init => TypeOK
<1> SUFFICES ASSUME Init PROVE TypeOK
  OBVIOUS
<1>1. /\ <<>> \in Seq(Nat) /\ <<>> \in Seq(Nat \ {0})
      /\ Quiet \in Queues({"reload"})
      /\ 1 \in Ticks
  BY BoundAssumption DEF Queues, Quiet, Ticks
<1>2. /\ got \in [Processes -> [Loads -> Nat]]
      /\ taken \in [Stores -> [Ticks -> Nat]]
  BY DEF Init, Loads, NoTicks
<1> QED
  BY <1>1, <1>2 DEF Init, TypeOK

\* Every variable keeps its type, for every value of the constants.
THEOREM TypeCorrect == Spec => []TypeOK
  BY TypeInit, TypeStep, PTL DEF Spec

-----------------------------------------------------------------------------
(* One generation of handlers.                                               *)

Empty(p) == handlers[p] = <<>> /\ listeners[p] = <<>> /\ timers[p] = <<>>

Single(p) == Len(listeners[p]) <= 1 /\ Len(timers[p]) <= 1 /\ Len(handlers[p]) <= 1

\* A process registers handlers only when it has none: initialize() because no
\* job unloads and loads before isLoaded is set, a job because the queue runs it
\* alone and it has unloaded first.
Generation(p) ==
    /\ boot[p] # "up" => Empty(p) /\ ~loaded[p] /\ job[p] = "none"
    /\ job[p] \in {"reading", "read"} => Empty(p)
    /\ job[p] \in {"resetting", "clearing"} => timers[p] = <<>>
    /\ queue[p].running <=> job[p] # "none"
    /\ Single(p)

GenInv == TypeOK /\ \A p \in Processes : Generation(p)

\* What a process does to its own handlers, or to none, decides for the others.
OthersUnchanged(p) == \A q \in Processes \ {p} :
    /\ boot'[q] = boot[q] /\ job'[q] = job[q] /\ queue'[q] = queue[q]
    /\ loaded'[q] = loaded[q] /\ handlers'[q] = handlers[q]
    /\ listeners'[q] = listeners[q] /\ timers'[q] = timers[q]

\* A step of p that keeps p of one generation keeps every process so.
LEMMA GenOfOne ==
    ASSUME GenInv, TypeOK', NEW p \in Processes, OthersUnchanged(p), Generation(p)'
    PROVE  GenInv'
<1>1. ASSUME NEW q \in Processes \ {p} PROVE Generation(q)'
  <2>1. Generation(q)
    BY DEF GenInv
  <2> QED
    BY <2>1 DEF Generation, OthersUnchanged, Empty, Single
<1> QED
  BY <1>1 DEF GenInv

\* Every step keeps the handlers of a process of one generation.
LEMMA GenStep ==
    ASSUME GenInv, [Next]_vars
    PROVE  GenInv'
<1>0. TypeOK /\ TypeOK'
  BY TypeStep DEF GenInv
<1> USE <1>0
<1>1. ASSUME NEW p \in Processes, Start(p) \/ Subscribe(p) \/ BootRead(p) \/ JobRead(p) PROVE GenInv'
  <2>1. Generation(p)
    BY DEF GenInv
  <2>2. Generation(p)' /\ OthersUnchanged(p)
    BY <1>1, <2>1 DEF TypeOK, Generation, Empty, Single, OthersUnchanged, Start, Subscribe, BootRead,
       JobRead, Reads, Alive, loadVars, handlerVars, tickVars
  <2> QED
    BY <2>2, GenOfOne
<1>2. ASSUME NEW p \in Processes, BootRegister(p) \/ JobRegister(p) PROVE GenInv'
  <2>1. Generation(p) /\ Empty(p) /\ queue' = queue
    BY <1>2 DEF GenInv, Generation, BootRegister, JobRegister, Registers
  <2>2. PICK l \in Loads : Registers(p, l)
    BY <1>2 DEF BootRegister, JobRegister, Loads
  <2>3. /\ handlers'[p] = <<got[p][l]>> /\ listeners'[p] = <<got[p][l]>> /\ timers'[p] = <<now + 1>>
    BY <2>1, <2>2 DEF Registers, Empty, TypeOK
  <2>4. Single(p)'
    BY <2>3 DEF Single
  <2>5. boot'[p] = "up" /\ (job'[p] # "none" <=> job[p] # "none") /\ job'[p] \in {"none", "ended"}
    BY <1>2, <2>1 DEF BootRegister, JobRegister, Generation, TypeOK
  <2>6. Generation(p)'
    BY <2>1, <2>4, <2>5 DEF Generation
  <2>7. OthersUnchanged(p)
    BY <1>2, <2>2 DEF OthersUnchanged, BootRegister, JobRegister, Registers, TypeOK
  <2> QED
    BY <2>6, <2>7, GenOfOne
<1>3. ASSUME NEW p \in Processes, ResetClock(p) \/ EndUnload(p) PROVE GenInv'
  <2>1. Generation(p)
    BY DEF GenInv
  <2>2. Generation(p)' /\ OthersUnchanged(p)
    BY <1>3, <2>1 DEF TypeOK, Generation, Empty, Single, OthersUnchanged, ResetClock, EndUnload,
       handlerVars, tickVars
  <2> QED
    BY <2>2, GenOfOne
<1>4. ASSUME NEW p \in Processes, BeginUnload(p), boot[p] = "up", queue'[p].running,
             UNCHANGED <<boot, handlers, loaded>>, \A q \in Processes \ {p} : queue'[q] = queue[q]
      PROVE  GenInv'
  <2>1. Generation(p)
    BY DEF GenInv
  <2>2. /\ job'[p] = "resetting" /\ timers'[p] = <<>>
        /\ listeners'[p] = <<>> \/ listeners'[p] = listeners[p]
    BY <1>4 DEF BeginUnload, TypeOK
  <2>3. Generation(p)'
    BY <1>4, <2>1, <2>2 DEF Generation, Single
  <2>4. OthersUnchanged(p)
    BY <1>4 DEF BeginUnload, OthersUnchanged, TypeOK
  <2> QED
    BY <2>3, <2>4, GenOfOne
<1>5. ASSUME NEW p \in Processes, Deliver(p) PROVE GenInv'
  <2>1. Generation(p) /\ queue[p] \in ReloadQueues
    BY DEF GenInv, TypeOK, ReloadQueues
  <2>2. Enqueue(queue[p], "reload").running
    BY <2>1, QueueRuns
  <2>3. CASE RunsAtOnce(queue[p]) /\ loaded[p]
    <3>1. boot[p] = "up"
      BY <2>1, <2>3 DEF Generation
    <3>2. /\ queue' = [queue EXCEPT ![p] = Enqueue(@, "reload")]
          /\ BeginUnload(p) /\ UNCHANGED <<boot, handlers, loaded>>
      BY <1>5, <2>3 DEF Deliver
    <3> QED
      BY <1>4, <2>2, <3>1, <3>2 DEF TypeOK
  <2>4. CASE ~RunsAtOnce(queue[p])
    <3>1. /\ queue' = [queue EXCEPT ![p] = Enqueue(@, "reload")]
          /\ UNCHANGED <<job, listeners, timers, boot, handlers, loaded>>
      BY <1>5, <2>4 DEF Deliver
    <3>2. queue'[p].running = queue[p].running
      BY <2>1, <2>2, <2>4, <3>1 DEF RunsAtOnce, TypeOK, ReloadQueues, Queues
    <3> QED
      BY <2>1, <3>1, <3>2, GenOfOne DEF Generation, Empty, Single, OthersUnchanged, TypeOK
  <2>5. CASE RunsAtOnce(queue[p]) /\ ~loaded[p]
    <3>1. UNCHANGED <<queue, job, listeners, timers, boot, handlers, loaded>>
      BY <1>5, <2>5 DEF Deliver
    <3> QED
      BY <2>1, <3>1, GenOfOne DEF Generation, Empty, Single, OthersUnchanged
  <2> QED
    BY <2>3, <2>4, <2>5
<1>6. ASSUME NEW p \in Processes, NextJob(p) PROVE GenInv'
  <2>1. Generation(p) /\ job[p] = "ended"
    BY <1>6 DEF GenInv, NextJob
  <2>2. boot[p] = "up"
    BY <2>1 DEF Generation
  <2>3. /\ UNCHANGED <<boot, handlers, loaded>>
        /\ \A q \in Processes \ {p} : queue'[q] = queue[q]
    BY <1>6 DEF NextJob, TypeOK
  <2>4. CASE queue'[p].running
    BY <1>4, <1>6, <2>2, <2>3, <2>4 DEF NextJob
  <2>5. CASE ~queue'[p].running
    <3>1. job' = [job EXCEPT ![p] = "none"] /\ UNCHANGED <<listeners, timers>>
      BY <1>6, <2>5 DEF NextJob
    <3>2. Generation(p)' /\ OthersUnchanged(p)
      BY <2>1, <2>2, <2>3, <2>5, <3>1 DEF Generation, Single, OthersUnchanged, TypeOK
    <3> QED
      BY <3>2, GenOfOne
  <2> QED
    BY <2>4, <2>5
<1>7. ASSUME NEW p \in Processes, Fire(p) PROVE GenInv'
  <2>1. PICK i \in DOMAIN timers[p] : timers' = [timers EXCEPT ![p][i] = @ + 1]
    BY <1>7 DEF Fire
  <2>2. UNCHANGED <<boot, job, queue, loaded, handlers, listeners>>
    BY <1>7 DEF Fire, loadVars, handlerVars
  <2>3. timers[p] \in Seq(Nat \ {0}) /\ timers'[p] = [timers[p] EXCEPT ![i] = @ + 1]
    BY <2>1 DEF TypeOK
  <2>4. Len(timers'[p]) = Len(timers[p]) /\ timers[p] # <<>>
    BY <2>3, ExceptSeq
  <2>5. Generation(p)
    BY DEF GenInv
  <2>6. Generation(p)' /\ OthersUnchanged(p)
    BY <2>1, <2>2, <2>4, <2>5 DEF Generation, Empty, Single, OthersUnchanged, TypeOK
  <2> QED
    BY <2>6, GenOfOne
<1>8. ASSUME NEW p \in Processes, Stops(p) PROVE GenInv'
  <2>1. Generation(p)' /\ OthersUnchanged(p)
    BY <1>8 DEF Stops, Generation, Empty, Single, OthersUnchanged, Quiet, TypeOK
  <2> QED
    BY <2>1, GenOfOne
<1>9. ASSUME NEW p \in Processes, JobFails(p) PROVE GenInv'
  <2>1. CASE Stops(p)
    BY <1>8, <2>1
  <2>2. CASE ~Stops(p)
    <3>1. /\ job[p] \in {"resetting", "reading"} /\ job' = [job EXCEPT ![p] = "rejected"]
          /\ UNCHANGED <<boot, queue, loaded, handlers, listeners, timers>>
      BY <1>9, <2>2 DEF JobFails, handlerVars, tickVars
    <3>2. Generation(p)
      BY DEF GenInv
    <3>3. Generation(p)' /\ OthersUnchanged(p)
      BY <3>1, <3>2 DEF Generation, Empty, Single, OthersUnchanged, TypeOK
    <3> QED
      BY <3>3, GenOfOne
  <2> QED
    BY <2>1, <2>2
<1>10. ASSUME UNCHANGED <<boot, job, queue, loaded, handlers, listeners, timers>> PROVE GenInv'
  BY <1>10 DEF GenInv, Generation, Empty, Single
<1>11. CASE Tick \/ UNCHANGED vars
  BY <1>10, <1>11 DEF Tick, vars, loadVars, handlerVars, tickVars
<1>12. ASSUME NEW p \in Processes, Changes(p) \/ Publish(p) PROVE GenInv'
  BY <1>10, <1>12 DEF Changes, Commit, CommitUnannounced, Unlink, Delete, DeleteThrows, Publish,
     loadVars, handlerVars, tickVars
<1>13. ASSUME NEW c \in calls, SetClock(c) PROVE GenInv'
  BY <1>10, <1>13 DEF SetClock, loadVars, handlerVars
<1> QED
  BY <1>1, <1>2, <1>3, <1>5, <1>6, <1>7, <1>8, <1>9, <1>11, <1>12, <1>13
     DEF Next, Works, Fails, Crash, BootFails

\* No process has handlers, or a job, at first.
LEMMA GenInit == Init => GenInv
<1> SUFFICES ASSUME Init PROVE GenInv
  OBVIOUS
<1>1. TypeOK
  BY TypeInit
<1>2. \A p \in Processes : Generation(p)
  BY DEF Init, Generation, Empty, Single, Quiet
<1> QED
  BY <1>1, <1>2 DEF GenInv

\* No process ever has two generations of handlers, timers or listeners.
THEOREM GenerationOnce == Spec => []OneGeneration
<1>1. GenInv => OneGeneration
  BY DEF GenInv, Generation, Single, OneGeneration
<1> QED
  BY <1>1, GenInit, GenStep, PTL DEF Spec

-----------------------------------------------------------------------------
(* The shared clock implements what OncePerTick promises.                    *)

\* A taken tick is behind the clock of its store, and was taken once.
TicksTaken == \A s \in Stores, t \in Ticks :
    taken[s][t] \in {0, 1} /\ (taken[s][t] = 1 => clock[s] > t)

TickInv == TypeOK /\ TicksTaken

\* Every step of Flows takes a tick, resets a clock or leaves both alone.
LEMMA TickStep ==
    ASSUME TickInv, [Next]_vars
    PROVE  TicksTaken' /\ [Once!Next]_taken
<1>0. TypeOK /\ TypeOK'
  BY TypeStep DEF TickInv
<1> USE <1>0
<1>1. ASSUME UNCHANGED <<taken, clock>> PROVE TicksTaken' /\ [Once!Next]_taken
  BY <1>1 DEF TickInv, TicksTaken
<1>2. ASSUME NEW s \in Stores,
             taken' = [taken EXCEPT ![s] = NoTicks],
             \A r \in Stores \ {s} : clock'[r] = clock[r]
      PROVE  TicksTaken' /\ [Once!Next]_taken
  <2>1. Once!Reset(s)
    BY <1>2 DEF Once!Reset, NoTicks
  <2>2. TicksTaken'
    BY <1>2 DEF TickInv, TicksTaken, TypeOK, NoTicks
  <2> QED
    BY <2>1, <2>2 DEF Once!Next
<1>3. ASSUME NEW p \in Processes, Stops(p) PROVE TicksTaken' /\ [Once!Next]_taken
  <2>1. CASE SyncStore = "memory"
    <3>1. p \in Stores
      BY <2>1, StoreAssumption DEF Stores, Store
    <3>2. taken' = [taken EXCEPT ![p] = NoTicks]
      BY <1>3, <2>1 DEF Stops, InMemoryOf, TypeOK
    <3>3. \A r \in Stores \ {p} : clock'[r] = clock[r]
      BY <1>3 DEF Stops, InMemoryOf
    <3> QED
      BY <1>2, <3>1, <3>2, <3>3
  <2>2. CASE SyncStore # "memory"
    <3>1. taken' = taken /\ clock' = clock
      BY <1>3, <2>2 DEF Stops, InMemoryOf, TypeOK
    <3> QED
      BY <1>1, <3>1
  <2> QED
    BY <2>1, <2>2
<1>4. ASSUME NEW p \in Processes, ResetClock(p) PROVE TicksTaken' /\ [Once!Next]_taken
  <2>1. Store(p) \in Stores
    BY DEF Stores
  <2>2. \A r \in Stores \ {Store(p)} : clock'[r] = clock[r]
    BY <1>4 DEF ResetClock, TypeOK
  <2> QED
    BY <1>2, <1>4, <2>1, <2>2 DEF ResetClock
<1>5. ASSUME NEW c \in calls, SetClock(c) PROVE TicksTaken' /\ [Once!Next]_taken
  <2> DEFINE s == Store(c.process)
             t == c.tick
  <2>1. s \in Stores /\ t \in Ticks /\ Ticks \subseteq Nat /\ clock[s] \in Nat
    BY DEF TypeOK, Stores, Ticks
  <2>2. CASE UNCHANGED <<clock, taken>>
    BY <1>1, <2>2
  <2>3. CASE /\ t + 1 > clock[s]
             /\ clock' = [clock EXCEPT ![s] = t + 1]
             /\ taken' = [taken EXCEPT ![s][t] = @ + 1]
    <3>1. taken[s][t] = 0
      BY <2>1, <2>3 DEF TickInv, TicksTaken
    <3>2. taken' = [taken EXCEPT ![s][t] = 1]
      BY <2>1, <2>3, <3>1 DEF TypeOK
    <3>3. Once!Take(s, t)
      BY <3>1, <3>2 DEF Once!Take
    <3>4. ASSUME NEW r \in Stores, NEW u \in Ticks
          PROVE  taken'[r][u] \in {0, 1} /\ (taken'[r][u] = 1 => clock'[r] > u)
      <4>0. clock \in [Stores -> Nat] /\ taken \in [Stores -> [Ticks -> Nat]]
        BY DEF TypeOK
      <4>1. clock'[r] >= clock[r] /\ clock[r] \in Nat /\ clock'[r] \in Nat
        <5>1. clock'[r] = IF r = s THEN t + 1 ELSE clock[r]
          BY <2>3, <4>0
        <5> HIDE DEF s, t
        <5> QED
          BY <2>1, <2>3, <4>0, <5>1
      <4>2. CASE r = s /\ u = t
        <5>1. taken'[s][t] = 1 /\ clock'[s] = t + 1
          BY <2>1, <2>3, <3>2, <4>0
        <5> HIDE DEF s, t
        <5> QED
          BY <2>1, <4>2, <5>1
      <4>3. CASE ~(r = s /\ u = t)
        <5>1. taken'[r][u] = taken[r][u]
          BY <2>1, <3>2, <4>3 DEF TypeOK
        <5> QED
          BY <2>1, <4>1, <5>1 DEF TickInv, TicksTaken
      <4> QED
        BY <4>2, <4>3
    <3> QED
      BY <2>1, <3>3, <3>4 DEF Once!Next, TicksTaken
  <2> QED
    BY <1>5, <2>2, <2>3 DEF SetClock, SetGreaterThan
<1>6. ASSUME NEW p \in Processes, JobFails(p) PROVE TicksTaken' /\ [Once!Next]_taken
  BY <1>1, <1>3, <1>6 DEF JobFails, tickVars
<1>7. ASSUME NEW p \in Processes, Start(p) \/ Changes(p) \/ Fire(p)
      PROVE TicksTaken' /\ [Once!Next]_taken
  BY <1>1, <1>7 DEF Start, Changes, Commit, CommitUnannounced, Unlink, Delete, DeleteThrows, Fire,
     tickVars
<1>8. ASSUME NEW p \in Processes, Works(p), ~ResetClock(p) PROVE TicksTaken' /\ [Once!Next]_taken
  BY <1>1, <1>8 DEF Works, Subscribe, BootRead, BootRegister, Deliver, NextJob, EndUnload, JobRead,
     JobRegister, Publish, Reads, Registers, tickVars
<1>9. CASE Tick \/ UNCHANGED vars
  BY <1>1, <1>9 DEF Tick, vars, tickVars
<1> QED
  BY <1>3, <1>4, <1>5, <1>6, <1>7, <1>8, <1>9 DEF Next, Fails, Crash, BootFails

\* The clocks start at 0, with no tick taken.
LEMMA TickInit == Init => TickInv /\ Once!Init
<1> SUFFICES ASSUME Init PROVE TickInv /\ Once!Init
  OBVIOUS
<1>1. TypeOK
  BY TypeInit
<1>2. taken = [s \in Stores |-> [t \in Ticks |-> 0]]
  BY DEF Init, NoTicks
<1>3. TicksTaken
  BY <1>2 DEF TicksTaken
<1> QED
  BY <1>1, <1>2, <1>3 DEF TickInv, Once!Init

\* Flows implements OncePerTick: whatever processes share a clock, however late
\* their timers fire and whoever fails, no tick is taken twice until a reset.
THEOREM TicksTakenOnce == Spec => TickOnce
<1>1. TickInv /\ [Next]_vars => TickInv' /\ [Once!Next]_taken
  BY TickStep, TypeStep DEF TickInv
<1> QED
  BY <1>1, TickInit, PTL DEF Spec, TickOnce, Once!Spec

-----------------------------------------------------------------------------
(* The handlers are those of the committed flows.                            *)

\* A reload of p will be asked for, or is.
Announced(p) == inbox[p] > 0 \/ \E q \in Processes : pending[q] > 0

\* A version is the committed one, or p is about to hear of a newer one.
Fresh(p, v) == v = table \/ Announced(p)

Registered(p) ==
    loaded[p] /\ Len(handlers[p]) = 1 /\ listeners[p] = handlers[p] /\ Len(timers[p]) = 1

\* What a process has read or registered is fresh, or another job waits for the
\* one that did, unless a change passed the process by.
Current(p) ==
    ~missed[p] /\ HasRead(p) =>
        /\ boot[p] = "read" => Fresh(p, got[p]["boot"])
        /\ boot[p] = "up" /\ job[p] = "none" => Registered(p) /\ Fresh(p, handlers[p][1])
        /\ job[p] = "read" => Fresh(p, got[p]["job"]) \/ Waiting(queue[p])
        /\ job[p] = "ended" =>
              Registered(p) /\ (Fresh(p, handlers[p][1]) \/ Waiting(queue[p]))

CurInv == GenInv /\ \A p \in Processes : Current(p)

\* The part of a process that a step of another one does not touch.
Untouched(q) ==
    /\ boot'[q] = boot[q] /\ job'[q] = job[q] /\ queue'[q] = queue[q] /\ got'[q] = got[q]
    /\ loaded'[q] = loaded[q] /\ handlers'[q] = handlers[q] /\ listeners'[q] = listeners[q]
    /\ Len(timers'[q]) = Len(timers[q])

\* A step leaves q alone, and what was fresh to it is, or has passed it by.
Spared(q) ==
    /\ Untouched(q)
    /\ ~missed'[q] /\ HasRead(q) => ~missed[q] /\ \A v : Fresh(q, v) => Fresh(q, v)'

\* A process that is spared stays current.
LEMMA CurSpared ==
    ASSUME NEW q \in Processes, Current(q), Spared(q)
    PROVE  Current(q)'
<1> SUFFICES ASSUME ~missed'[q], HasRead(q)'
             PROVE  /\ boot'[q] = "read" => Fresh(q, got[q]["boot"])'
                    /\ boot'[q] = "up" /\ job'[q] = "none" =>
                          Registered(q)' /\ Fresh(q, handlers[q][1])'
                    /\ job'[q] = "read" => Fresh(q, got[q]["job"])' \/ Waiting(queue[q])'
                    /\ job'[q] = "ended" =>
                          Registered(q)' /\ (Fresh(q, handlers[q][1])' \/ Waiting(queue[q])')
  BY DEF Current
<1>1. /\ boot'[q] = boot[q] /\ job'[q] = job[q] /\ queue'[q] = queue[q] /\ got'[q] = got[q]
      /\ handlers'[q] = handlers[q] /\ (Registered(q) <=> Registered(q)')
  BY DEF Spared, Untouched, Registered
<1>2. ~missed[q] /\ HasRead(q)
  BY <1>1 DEF Spared, HasRead
<1>3. \A v : Fresh(q, v) => Fresh(q, v)'
  BY <1>2 DEF Spared
<1>4. \A v : Fresh(q, v)' <=> (v = table' \/ Announced(q)')
  BY DEF Fresh
<1>5. /\ Fresh(q, got[q]["boot"]) => Fresh(q, got[q]["boot"])'
      /\ Fresh(q, got[q]["job"]) => Fresh(q, got[q]["job"])'
      /\ Fresh(q, handlers[q][1]) => Fresh(q, handlers[q][1])'
  BY <1>1, <1>3 DEF Fresh
<1>6. Waiting(queue[q]) = Waiting(queue[q])'
  BY <1>1 DEF Waiting
<1> QED
  BY <1>1, <1>2, <1>5, <1>6 DEF Current

\* A step of p that spares the others keeps them all current when it keeps p so.
LEMMA CurOfOne ==
    ASSUME NEW p \in Processes, CurInv, Current(p)', \A q \in Processes \ {p} : Spared(q)
    PROVE  \A q \in Processes : Current(q)'
<1>1. ASSUME NEW q \in Processes, q # p PROVE Current(q)'
  BY <1>1, CurSpared DEF CurInv
<1> QED
  BY <1>1

\* A step that spares every process keeps them all current.
LEMMA CurOfNone ==
    ASSUME CurInv, \A q \in Processes : Spared(q)
    PROVE  \A q \in Processes : Current(q)'
<1> SUFFICES ASSUME NEW q \in Processes PROVE Current(q)'
  OBVIOUS
<1> QED
  BY CurSpared DEF CurInv

\* Where no change is committed or announced, a process untouched is spared.
LEMMA SparedQuietly ==
    ASSUME NEW q \in Processes, Untouched(q), table' = table, pending' = pending,
           inbox'[q] = inbox[q], missed'[q] = missed[q]
    PROVE  Spared(q)
<1>1. \A v : Fresh(q, v) => Fresh(q, v)'
  BY DEF Fresh, Announced
<1> QED
  BY <1>1 DEF Spared, Untouched

\* Every step keeps processes current.
LEMMA CurStep ==
    ASSUME CurInv, [Next]_vars
    PROVE  \A q \in Processes : Current(q)'
<1>0. GenInv /\ GenInv' /\ TypeOK /\ TypeOK'
  BY GenStep DEF CurInv, GenInv
<1>1. ASSUME UNCHANGED <<table, pending, inbox, missed, boot, job, queue, got, handlerVars>>,
             \A q \in Processes : Len(timers'[q]) = Len(timers[q])
      PROVE  \A q \in Processes : Current(q)'
  <2>1. \A q \in Processes : Untouched(q)
    BY <1>1 DEF Untouched, handlerVars
  <2> QED
    BY <1>1, <2>1, SparedQuietly, CurOfNone
<1>2. ASSUME NEW p \in Processes, Current(p)', table' = table, pending' = pending,
             \A q \in Processes \ {p} : Untouched(q) /\ inbox'[q] = inbox[q] /\ missed'[q] = missed[q]
      PROVE  \A q \in Processes : Current(q)'
  <2>1. \A q \in Processes \ {p} : Spared(q)
    BY <1>2, SparedQuietly
  <2> QED
    BY <1>2, <2>1, CurOfOne
<1>3. ASSUME NEW p \in Processes, Start(p) PROVE \A q \in Processes : Current(q)'
  <2>1. boot'[p] = "reading"
    BY <1>0, <1>3 DEF Start, TypeOK
  <2>2. Current(p)'
    BY <2>1 DEF Current, HasRead
  <2>3. \A q \in Processes \ {p} : Untouched(q)
    BY <1>0, <1>3 DEF Start, Untouched, TypeOK, handlerVars, tickVars
  <2> QED
    BY <1>2, <1>3, <2>2, <2>3 DEF Start, changeVars
<1>4. ASSUME NEW p \in Processes, BootRead(p) \/ JobRead(p)
      PROVE  \A q \in Processes : Current(q)'
  <2>1. Generation(p)
    BY <1>0 DEF GenInv
  <2>2. CASE BootRead(p)
    <3>1. boot'[p] = "read" /\ job'[p] = "none" /\ got'[p]["boot"] = table /\ table' = table
      BY <1>0, <2>1, <2>2 DEF BootRead, Reads, changeVars, Generation, TypeOK, Loads
    <3>2. Current(p)'
      BY <3>1 DEF Current, Fresh
    <3> QED
      BY <1>0, <1>2, <2>2, <3>2
         DEF BootRead, Reads, changeVars, Untouched, TypeOK, handlerVars, tickVars
  <2>3. CASE JobRead(p)
    <3>1. boot'[p] = "up" /\ job'[p] = "read" /\ got'[p]["job"] = table /\ table' = table
      BY <1>0, <2>1, <2>3 DEF JobRead, Reads, changeVars, Generation, TypeOK, Loads
    <3>2. Current(p)'
      BY <3>1 DEF Current, Fresh
    <3> QED
      BY <1>0, <1>2, <2>3, <3>2
         DEF JobRead, Reads, changeVars, Untouched, TypeOK, handlerVars, tickVars
  <2> QED
    BY <1>4, <2>2, <2>3
<1>5. ASSUME NEW p \in Processes, NEW l \in Loads, Registers(p, l), Empty(p)
      PROVE  /\ Registered(p)' /\ handlers'[p][1] = got[p][l]
             /\ \A v : Fresh(p, v) <=> Fresh(p, v)'
             /\ missed' = missed /\ queue' = queue
             /\ \A q \in Processes \ {p} :
                   /\ loaded'[q] = loaded[q] /\ handlers'[q] = handlers[q]
                   /\ listeners'[q] = listeners[q] /\ timers'[q] = timers[q]
  <2>1. /\ handlers'[p] = <<got[p][l]>> /\ listeners'[p] = <<got[p][l]>>
        /\ timers'[p] = <<now + 1>> /\ loaded'[p] = TRUE
    BY <1>0, <1>5 DEF Registers, Empty, TypeOK
  <2>2. Registered(p)' /\ handlers'[p][1] = got[p][l]
    BY <2>1 DEF Registered
  <2>3. \A v : Fresh(p, v) <=> Fresh(p, v)'
    BY <1>5 DEF Registers, changeVars, Fresh, Announced
  <2> QED
    BY <1>0, <1>5, <2>2, <2>3 DEF Registers, TypeOK
<1>6. ASSUME NEW p \in Processes, BootRegister(p) PROVE \A q \in Processes : Current(q)'
  <2>1. Generation(p) /\ Current(p) /\ Registers(p, "boot") /\ boot[p] = "read"
    BY <1>6 DEF CurInv, GenInv, BootRegister
  <2>2. Empty(p) /\ job[p] = "none" /\ "boot" \in Loads
    BY <2>1 DEF Generation, Loads
  <2>3. boot'[p] = "up" /\ job'[p] = "none"
    BY <1>0, <1>6, <2>2 DEF BootRegister, TypeOK
  <2>4. ~missed'[p] => Fresh(p, handlers[p][1])'
    BY <1>5, <2>1, <2>2 DEF Current, HasRead, Fresh
  <2>5. Current(p)'
    BY <1>5, <2>1, <2>2, <2>3, <2>4 DEF Current
  <2>6. \A q \in Processes \ {p} : Untouched(q)
    BY <1>0, <1>5, <1>6, <2>1, <2>2 DEF BootRegister, Registers, Untouched, TypeOK
  <2> QED
    BY <1>2, <2>1, <2>5, <2>6 DEF Registers, changeVars
<1>7. ASSUME NEW p \in Processes, JobRegister(p) PROVE \A q \in Processes : Current(q)'
  <2>1. Generation(p) /\ Current(p) /\ Registers(p, "job") /\ job[p] = "read"
    BY <1>7 DEF CurInv, GenInv, JobRegister
  <2>2. Empty(p) /\ boot[p] = "up" /\ "job" \in Loads
    BY <2>1 DEF Generation, Loads
  <2>3. boot'[p] = "up" /\ job'[p] = "ended"
    BY <1>0, <1>7, <2>2 DEF JobRegister, TypeOK
  <2>4. ~missed'[p] => Fresh(p, handlers[p][1])' \/ Waiting(queue[p])'
    BY <1>5, <2>1, <2>2 DEF Current, HasRead, Fresh, Waiting
  <2>5. Current(p)'
    BY <1>5, <2>1, <2>2, <2>3, <2>4 DEF Current
  <2>6. \A q \in Processes \ {p} : Untouched(q)
    BY <1>0, <1>5, <1>7, <2>1, <2>2 DEF JobRegister, Registers, Untouched, TypeOK
  <2> QED
    BY <1>2, <2>1, <2>5, <2>6 DEF Registers, changeVars
<1>8. ASSUME NEW p \in Processes, ResetClock(p) \/ EndUnload(p)
      PROVE  \A q \in Processes : Current(q)'
  <2>1. Generation(p) /\ job[p] \in {"resetting", "clearing"}
    BY <1>0, <1>8 DEF GenInv, ResetClock, EndUnload
  <2>2. boot'[p] = "up" /\ job'[p] \in {"clearing", "reading"}
    BY <1>0, <1>8, <2>1 DEF Generation, ResetClock, EndUnload, TypeOK
  <2>3. Current(p)'
    BY <2>2 DEF Current
  <2> QED
    BY <1>0, <1>2, <1>8, <2>3
       DEF ResetClock, EndUnload, changeVars, Untouched, TypeOK, handlerVars, tickVars
<1>9. ASSUME NEW p \in Processes, BeginUnload(p), boot[p] = "up",
             UNCHANGED <<table, pending, boot, got, handlers, loaded, missed>>,
             \A q \in Processes \ {p} : queue'[q] = queue[q] /\ inbox'[q] = inbox[q]
      PROVE  \A q \in Processes : Current(q)'
  <2>1. boot'[p] = "up" /\ job'[p] = "resetting"
    BY <1>0, <1>9 DEF BeginUnload, TypeOK
  <2>2. Current(p)'
    BY <2>1 DEF Current
  <2>3. \A q \in Processes \ {p} : Untouched(q)
    BY <1>0, <1>9 DEF BeginUnload, Untouched, TypeOK
  <2> QED
    BY <1>2, <1>9, <2>2, <2>3
<1>10. ASSUME NEW p \in Processes, Deliver(p) PROVE \A q \in Processes : Current(q)'
  <2>1. Generation(p) /\ queue[p] \in ReloadQueues
    BY <1>0 DEF GenInv, TypeOK, ReloadQueues
  <2>2. /\ UNCHANGED <<table, pending, boot, got, handlers, loaded>>
        /\ \A q \in Processes \ {p} : inbox'[q] = inbox[q]
    BY <1>0, <1>10 DEF Deliver, changeVars, TypeOK
  <2>3. CASE RunsAtOnce(queue[p]) /\ loaded[p]
    <3>1. boot[p] = "up"
      BY <2>1, <2>3 DEF Generation
    <3>2. /\ queue' = [queue EXCEPT ![p] = Enqueue(@, "reload")]
          /\ BeginUnload(p) /\ UNCHANGED missed
      BY <1>10, <2>3 DEF Deliver
    <3>3. \A q \in Processes \ {p} : queue'[q] = queue[q]
      BY <1>0, <3>2 DEF TypeOK
    <3> QED
      BY <1>9, <2>2, <3>1, <3>2, <3>3
  <2>4. CASE ~RunsAtOnce(queue[p])
    <3>1. /\ queue' = [queue EXCEPT ![p] = Enqueue(@, "reload")]
          /\ UNCHANGED <<job, listeners, timers, missed>>
      BY <1>10, <2>4 DEF Deliver
    <3>2. queue[p].running /\ job[p] # "none" /\ boot[p] = "up"
      BY <2>1, <2>4 DEF RunsAtOnce, Generation
    <3>3. queue'[p] = Enqueue(queue[p], "reload")
      BY <1>0, <3>1 DEF TypeOK
    <3>4. Waiting(queue'[p])
      BY <2>1, <3>2, <3>3, QueueRuns
    <3>5. Current(p)'
      <4>1. Current(p)
        BY DEF CurInv
      <4>2. boot'[p] = "up" /\ job'[p] = job[p] /\ Waiting(queue[p])'
        BY <2>2, <3>1, <3>2, <3>4 DEF Waiting
      <4>3. Registered(p) => Registered(p)'
        BY <2>2, <3>1 DEF Registered
      <4> QED
        BY <2>2, <3>1, <3>2, <4>1, <4>2, <4>3 DEF Current, HasRead
    <3>6. \A q \in Processes \ {p} : Untouched(q)
      BY <1>0, <2>2, <3>1 DEF Untouched, TypeOK
    <3> QED
      BY <1>2, <2>2, <3>1, <3>5, <3>6
  <2>5. CASE RunsAtOnce(queue[p]) /\ ~loaded[p]
    <3>1. /\ missed' = [missed EXCEPT ![p] = @ \/ HasRead(p)]
          /\ UNCHANGED <<queue, job, listeners, timers>>
      BY <1>10, <2>5 DEF Deliver
    <3>2. HasRead(p)' => missed'[p]
      BY <1>0, <2>2, <3>1 DEF HasRead, TypeOK
    <3>3. Current(p)'
      BY <3>2 DEF Current
    <3>4. \A q \in Processes \ {p} : Untouched(q) /\ missed'[q] = missed[q]
      BY <1>0, <2>2, <3>1 DEF Untouched, TypeOK
    <3> QED
      BY <1>2, <2>2, <3>3, <3>4
  <2> QED
    BY <2>3, <2>4, <2>5
<1>11. ASSUME NEW p \in Processes, NextJob(p) PROVE \A q \in Processes : Current(q)'
  <2>1. Generation(p) /\ Current(p) /\ job[p] = "ended" /\ queue[p] \in ReloadQueues
    BY <1>0, <1>11 DEF CurInv, GenInv, NextJob, TypeOK, ReloadQueues
  <2>2. boot[p] = "up" /\ queue[p].running
    BY <2>1 DEF Generation
  <2>3. /\ UNCHANGED <<table, pending, inbox, boot, got, handlers, loaded, missed>>
        /\ queue' = [queue EXCEPT ![p] = Continue(@)]
    BY <1>11 DEF NextJob, changeVars
  <2>4. queue'[p] = Continue(queue[p]) /\ \A q \in Processes \ {p} : queue'[q] = queue[q]
    BY <1>0, <2>3 DEF TypeOK
  <2>5. CASE queue'[p].running
    BY <1>9, <1>11, <2>2, <2>3, <2>4, <2>5 DEF NextJob
  <2>6. CASE ~queue'[p].running
    <3>1. job' = [job EXCEPT ![p] = "none"] /\ UNCHANGED <<listeners, timers>>
      BY <1>11, <2>6 DEF NextJob
    <3>2. ~Waiting(queue[p])
      BY <2>1, <2>2, <2>4, <2>6, QueueRuns
    <3>3. Current(p)'
      BY <1>0, <2>1, <2>2, <2>3, <3>1, <3>2
         DEF Current, HasRead, Registered, Fresh, Announced, TypeOK
    <3>4. \A q \in Processes \ {p} : Untouched(q)
      BY <1>0, <2>3, <2>4, <3>1 DEF Untouched, TypeOK
    <3> QED
      BY <1>2, <2>3, <3>3, <3>4
  <2> QED
    BY <2>5, <2>6
<1>12. ASSUME NEW p \in Processes, Changes(p) PROVE \A q \in Processes : Current(q)'
  <2>1. UNCHANGED <<inbox, sub, loadVars, handlerVars, tickVars, faults>>
    BY <1>12 DEF Changes, Commit, CommitUnannounced, Unlink, Delete, DeleteThrows
  <2>2. \A q \in Processes : Untouched(q) /\ inbox'[q] = inbox[q]
    BY <2>1 DEF Untouched, loadVars, handlerVars, tickVars
  <2>3. CASE Commit(p) \/ Delete(p)
    <3>1. pending'[p] = pending[p] + 1 /\ pending[p] \in Nat /\ missed' = missed
      BY <1>0, <2>3 DEF Commit, Delete, TypeOK
    <3>2. pending'[p] > 0
      BY <3>1
    <3>3. ASSUME NEW q \in Processes PROVE Spared(q)
      <4>1. \A v : Fresh(q, v)'
        BY <3>2 DEF Fresh, Announced
      <4> QED
        BY <2>2, <3>1, <4>1 DEF Spared, Untouched
    <3> QED
      BY <3>3, CurOfNone
  <2>4. CASE PassesBy
    <3>1. ASSUME NEW q \in Processes PROVE Spared(q)
      <4>1. HasRead(q) => missed'[q]
        BY <2>4 DEF PassesBy
      <4> QED
        BY <2>2, <4>1 DEF Spared
    <3> QED
      BY <3>1, CurOfNone
  <2>5. CASE DeleteThrows(p)
    <3>1. table' = table /\ pending' = pending /\ missed' = missed
      BY <2>5 DEF DeleteThrows
    <3> QED
      BY <2>2, <3>1, SparedQuietly, CurOfNone
  <2> QED
    BY <1>12, <2>3, <2>4, <2>5 DEF Changes, CommitUnannounced, Unlink
<1>13. ASSUME NEW p \in Processes, Publish(p) PROVE \A q \in Processes : Current(q)'
  <2>1. ASSUME NEW q \in Processes PROVE Spared(q)
    <3>1. Untouched(q)
      BY <1>13 DEF Publish, Untouched, loadVars, handlerVars, tickVars
    <3>2. missed'[q] = (missed[q] \/ (HasRead(q) /\ ~sub[q]))
      BY <1>13 DEF Publish
    <3>3. ASSUME ~missed'[q], HasRead(q) PROVE ~missed[q] /\ \A v : Fresh(q, v)'
      <4>1. ~missed[q] /\ sub[q] /\ Alive(q)
        BY <3>2, <3>3 DEF HasRead, Alive
      <4>2. inbox'[q] = inbox[q] + 1 /\ inbox[q] \in Nat
        BY <1>0, <1>13, <4>1 DEF Publish, TypeOK
      <4>3. inbox'[q] > 0
        BY <4>2
      <4> QED
        BY <4>1, <4>3 DEF Fresh, Announced
    <3> QED
      BY <3>1, <3>3 DEF Spared, Untouched
  <2> QED
    BY <2>1, CurOfNone
<1>14. ASSUME NEW p \in Processes, Stops(p) PROVE \A q \in Processes : Current(q)'
  <2>1. boot'[p] = "down"
    BY <1>0, <1>14 DEF Stops, TypeOK
  <2>2. Current(p)'
    BY <2>1 DEF Current, HasRead
  <2>3. ASSUME NEW q \in Processes \ {p} PROVE Spared(q)
    <3>1. Untouched(q) /\ inbox'[q] = inbox[q] /\ table' = table
      BY <1>0, <1>14 DEF Stops, Untouched, TypeOK
    <3>2. missed'[q] = (missed[q] \/ (HasRead(q) /\ pending[p] > 0))
      BY <1>14 DEF Stops
    <3>3. ASSUME ~missed'[q], HasRead(q)
          PROVE  ~missed[q] /\ \A v : Fresh(q, v) => Fresh(q, v)'
      <4>1. ~missed[q] /\ ~(pending[p] > 0)
        BY <3>2, <3>3
      <4>2. \A r \in Processes : pending[r] > 0 => pending'[r] > 0
        BY <1>0, <1>14, <4>1 DEF Stops, TypeOK
      <4>3. Announced(q) => Announced(q)'
        BY <3>1, <4>2 DEF Announced
      <4> QED
        BY <3>1, <4>1, <4>3 DEF Fresh
    <3> QED
      BY <3>1, <3>3 DEF Spared, Untouched
  <2> QED
    BY <2>2, <2>3, CurOfOne
<1>15. ASSUME NEW p \in Processes, JobFails(p) PROVE \A q \in Processes : Current(q)'
  <2>1. CASE Stops(p)
    BY <1>14, <2>1
  <2>2. CASE ~Stops(p)
    <3>1. /\ job[p] \in {"resetting", "reading"} /\ job' = [job EXCEPT ![p] = "rejected"]
          /\ UNCHANGED <<changeVars, inbox, sub, boot, queue, got, handlerVars, tickVars, missed>>
      BY <1>15, <2>2 DEF JobFails
    <3>2. Generation(p)
      BY <1>0 DEF GenInv
    <3>3. boot'[p] = "up" /\ job'[p] = "rejected"
      BY <1>0, <3>1, <3>2 DEF Generation, TypeOK
    <3>4. Current(p)'
      BY <3>3 DEF Current
    <3>5. \A q \in Processes \ {p} : Untouched(q)
      BY <1>0, <3>1 DEF Untouched, TypeOK, handlerVars, tickVars
    <3> QED
      BY <1>2, <3>1, <3>4, <3>5 DEF changeVars
  <2> QED
    BY <2>1, <2>2
<1>16. ASSUME NEW p \in Processes, Fire(p) PROVE \A q \in Processes : Current(q)'
  <2>1. PICK i \in DOMAIN timers[p] : timers' = [timers EXCEPT ![p][i] = @ + 1]
    BY <1>16 DEF Fire
  <2>2. timers[p] \in Seq(Nat \ {0}) /\ timers'[p] = [timers[p] EXCEPT ![i] = @ + 1]
    BY <1>0, <2>1 DEF TypeOK
  <2>3. Len(timers'[p]) = Len(timers[p])
    BY <2>2, ExceptSeq
  <2>4. \A q \in Processes : Len(timers'[q]) = Len(timers[q])
    BY <1>0, <2>1, <2>3 DEF TypeOK
  <2> QED
    BY <1>1, <1>16, <2>4 DEF Fire, loadVars, changeVars
<1>17. ASSUME NEW p \in Processes, Subscribe(p) PROVE \A q \in Processes : Current(q)'
  BY <1>1, <1>17 DEF Subscribe, loadVars, changeVars, tickVars
<1>18. ASSUME NEW c \in calls, SetClock(c) PROVE \A q \in Processes : Current(q)'
  BY <1>1, <1>18 DEF SetClock, loadVars, changeVars
<1>19. CASE Tick \/ UNCHANGED vars
  BY <1>1, <1>19 DEF Tick, vars, loadVars, changeVars, tickVars
<1> QED
  BY <1>3, <1>4, <1>6, <1>7, <1>8, <1>10, <1>11, <1>12, <1>13, <1>14, <1>15, <1>16, <1>17,
     <1>18, <1>19 DEF Next, Works, Fails, Crash, BootFails

\* No process has read anything at first.
LEMMA CurInit == Init => CurInv
  BY GenInit DEF Init, CurInv, Current, HasRead

\* A process that has no reload to do, and that no change has passed by, runs
\* the flows as they are committed.
THEOREM HandlersAreCurrent == Spec => []HandlersCurrent
<1>1. CurInv => HandlersCurrent
  <2> SUFFICES ASSUME CurInv, NEW p \in Processes, Settled(p), ~missed[p]
               PROVE  handlers[p] = <<table>> /\ listeners[p] = <<table>> /\ Len(timers[p]) = 1
    BY DEF HandlersCurrent
  <2>1. Current(p) /\ TypeOK
    BY DEF CurInv, GenInv
  <2>2. ~Announced(p)
    BY DEF Settled, Announced
  <2>3. Registered(p) /\ handlers[p][1] = table
    BY <2>1, <2>2 DEF Current, Settled, HasRead, Fresh
  <2>4. handlers[p] \in Seq(Nat) /\ Len(handlers[p]) = 1
    BY <2>1, <2>3 DEF TypeOK, Registered
  <2>5. handlers[p] = <<table>>
    BY <2>3, <2>4
  <2> QED
    BY <2>3, <2>5 DEF Registered
<1>2. CurInv /\ [Next]_vars => CurInv'
  BY GenStep, CurStep DEF CurInv
<1> QED
  BY <1>1, <1>2, CurInit, PTL DEF Spec
=============================================================================
