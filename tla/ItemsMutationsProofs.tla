------------------------ MODULE ItemsMutationsProofs ------------------------
(* What holds of ItemsMutations for every number of mutations and readers,   *)
(* every menu of calls, and all limits and numbers of faults.                *)
EXTENDS ItemsMutations, FiniteSetTheorems, SequenceTheorems, TLAPS

-----------------------------------------------------------------------------
(* Types.                                                                    *)

\* A mutation that was called has a call of the menu, and is at one of its
\* payloads; it saves nested items where it has some, is through with its
\* payloads when it commits, and announces what it put off.
Proper(m) ==
    /\ pc[m] = "idle" => item[m] = 1 /\ attempt[m] = 1 /\ queue[m] = {}
    /\ pc[m] # "idle" => call[m] \in Menu /\ item[m] <= Payloads(m)
    /\ pc[m] \in {"child", "purgeChild"} => Nested(m)
    /\ pc[m] \in {"commit", "announce", "purge", "done"} => item[m] = Payloads(m)
    /\ pc[m] = "announce" => Op(m) \in Creating \cup Changing

\* UpTo(M) is there: some commit is the last of those of M, or there is none.
IsUpTo(n, M) ==
    /\ n \in 0 .. Len(commits)
    /\ n = 0 \/ commits[n] \in M
    /\ \A i \in n + 1 .. Len(commits) : commits[i] \notin M
HasLast == \A M \in SUBSET Mutations : \E n \in 0 .. Len(commits) : IsUpTo(n, M)

TypeInv == TypeOK /\ HasLast /\ \A m \in Mutations : Proper(m)

\* What is known of a call.
LEMMA CallType ==
    ASSUME TypeInv, NEW m \in Mutations, pc[m] # "idle"
    PROVE  /\ Op(m) \in Creating \cup Changing \cup InTransaction
           /\ Payloads(m) \in Nat \ {0} /\ Nested(m) \in BOOLEAN
           /\ Op(m) \in Single => Payloads(m) = 1
<1>1. call[m] \in Menu
  BY DEF TypeInv, Proper
<1>2. call[m] \in Call
  BY <1>1, MenuAssumption
<1>3. call[m].op \in Single => call[m].payloads = 1
  BY <1>1, MenuAssumption
<1> QED
  BY <1>2, <1>3 DEF Call, Op, Payloads, Nested

\* The variables of one mutation.
Same(m) ==
    /\ call'[m] = call[m] /\ pc'[m] = pc[m] /\ item'[m] = item[m]
    /\ attempt'[m] = attempt[m] /\ tracked'[m] = tracked[m] /\ queue'[m] = queue[m]

StepOf(m) ==
    \/ Begin(m) \/ WriteChild(m) \/ PurgeChild(m) \/ WriteOwn(m)
    \/ Fail(m) \/ Conflict(m) \/ Commit(m) \/ Announce(m) \/ Purge(m)

\* What is still the same is still proper.
LEMMA SameProper ==
    ASSUME NEW m, Same(m), Proper(m)
    PROVE  Proper(m)'
  BY DEF Same, Proper, Op, Payloads, Nested

\* A step is one of m, one that leaves m alone, or a crash.
LEMMA StepsAlone ==
    ASSUME TypeInv, [Next]_vars, NEW m \in Mutations
    PROVE  StepOf(m) \/ Same(m) \/ Crash
<1>0. /\ call \in [Mutations -> Call \cup {<<>>}] /\ pc \in [Mutations -> Pcs]
      /\ item \in [Mutations -> Nat \ {0}] /\ attempt \in [Mutations -> 1 .. MaxAttempts]
      /\ tracked \in [Mutations -> Nat] /\ queue \in [Mutations -> SUBSET Write]
  BY DEF TypeInv, TypeOK
<1>1. ASSUME NEW n \in Mutations, n # m, StepOf(n) PROVE Same(m)
  <2>1. CASE Begin(n)
    BY <1>0, <1>1, <2>1 DEF Begin, Goto, Same
  <2>2. CASE WriteChild(n) \/ PurgeChild(n)
    BY <1>0, <1>1, <2>2 DEF WriteChild, PurgeChild, Track, Goto, Same
  <2>3. CASE WriteOwn(n)
    <3>1. /\ call'[m] = call[m] /\ attempt'[m] = attempt[m] /\ tracked'[m] = tracked[m]
          /\ queue'[m] = queue[m]
      BY <1>0, <1>1, <2>3 DEF WriteOwn, Track
    <3>2. pc'[m] = pc[m] /\ item'[m] = item[m]
      BY <1>0, <1>1, <2>3 DEF WriteOwn, Goto
    <3> QED
      BY <3>1, <3>2 DEF Same
  <2>4. CASE Fail(n)
    BY <1>0, <1>1, <2>4 DEF Fail, Abort, Goto, Same
  <2>5. CASE Conflict(n)
    BY <1>0, <1>1, <2>5 DEF Conflict, Abort, Goto, Same
  <2>6. CASE Commit(n) \/ Announce(n) \/ Purge(n)
    BY <1>0, <1>1, <2>6 DEF Commit, Announce, Purge, Goto, Same
  <2> QED
    BY <1>1, <2>1, <2>2, <2>3, <2>4, <2>5, <2>6 DEF StepOf
<1>2. ASSUME NEW q \in Readers, Request(q) \/ Lookup(q) \/ Read(q) \/ Fill(q)
      PROVE  Same(m)
  BY <1>2 DEF Request, Lookup, Read, Fill, Same, mutation
<1>3. CASE Expire \/ UNCHANGED vars
  BY <1>3 DEF Expire, Same, mutation, vars
<1>4. ASSUME NEW n \in Mutations, StepOf(n) PROVE StepOf(m) \/ Same(m)
  BY <1>1, <1>4, Zenon
<1> QED
  BY <1>2, <1>3, <1>4 DEF Next, StepOf

\* The writes of m.
LEMMA WriteType ==
    ASSUME TypeInv, NEW m \in Mutations, NEW kind \in {"own", "child"}
    PROVE  WriteOf(m, kind) \in Write
<1>1. item[m] \in Nat /\ attempt[m] \in Nat
  BY SettingsAssumption DEF TypeInv, TypeOK
<1> QED
  BY <1>1 DEF WriteOf, Write

\* UpTo(M) is the last commit of those of M, or 0.
LEMMA UpToIsLast ==
    ASSUME TypeInv, NEW M \in SUBSET Mutations
    PROVE  IsUpTo(UpTo(M), M)
<1>1. \E n \in 0 .. Len(commits) : /\ n = 0 \/ commits[n] \in M
                                   /\ \A i \in n + 1 .. Len(commits) : commits[i] \notin M
  BY DEF TypeInv, HasLast, IsUpTo
<1> QED
  BY <1>1 DEF UpTo, IsUpTo

\* A commit appended to the others leaves every set with a last one.
LEMMA HasLastStep ==
    ASSUME TypeInv,
           commits' = commits \/ \E m \in Mutations : commits' = Append(commits, m)
    PROVE  HasLast'
<1>0. commits \in Seq(Mutations) /\ HasLast
  BY DEF TypeInv, TypeOK
<1>1. CASE commits' = commits
  BY <1>0, <1>1 DEF HasLast, IsUpTo
<1>2. ASSUME NEW m \in Mutations, commits' = Append(commits, m),
             NEW M \in SUBSET Mutations
      PROVE  \E n \in 0 .. Len(commits') : IsUpTo(n, M)'
  <2>1. /\ Len(commits') = Len(commits) + 1 /\ Len(commits) \in Nat
        /\ commits'[Len(commits) + 1] = m
        /\ \A i \in 1 .. Len(commits) : commits'[i] = commits[i]
    BY <1>0, <1>2
  <2>2. CASE m \in M
    BY <2>1, <2>2 DEF IsUpTo
  <2>3. CASE m \notin M
    <3>1. PICK n \in 0 .. Len(commits) : IsUpTo(n, M)
      BY <1>0 DEF HasLast
    <3>2. IsUpTo(n, M)'
      BY <2>1, <2>3, <3>1 DEF IsUpTo
    <3> QED
      BY <2>1, <3>2
  <2> QED
    BY <2>2, <2>3
<1> QED
  BY <1>1, <1>2 DEF HasLast

\* What follows a statement outside of the transaction.
LEMMA AfterSteps ==
    ASSUME NEW m
    PROVE  /\ pc[m] = "commit" => After(m) = IF Op(m) \in Creating THEN "announce" ELSE "purge"
           /\ pc[m] = "announce" => After(m) = IF Op(m) \in Creating THEN "purge" ELSE "done"
           /\ pc[m] = "purge" => After(m) = IF Op(m) \in Changing THEN "announce" ELSE "done"
           /\ pc[m] = "finally" => After(m) = "failed"
<1>1. pc[m] = "commit" => After(m) = IF Op(m) \in Creating THEN "announce" ELSE "purge"
  BY DEF After
<1>2. pc[m] = "announce" => After(m) = IF Op(m) \in Creating THEN "purge" ELSE "done"
  BY DEF After
<1>3. pc[m] = "purge" => After(m) = IF Op(m) \in Changing THEN "announce" ELSE "done"
  BY DEF After
<1>4. pc[m] = "finally" => After(m) = "failed"
  BY DEF After
<1> QED
  BY <1>1, <1>2, <1>3, <1>4

\* Every variable keeps its type.
LEMMA TypeStep ==
    ASSUME TypeInv, [Next]_vars
    PROVE  TypeOK'
<1>0. /\ call \in [Mutations -> Call \cup {<<>>}] /\ pc \in [Mutations -> Pcs]
      /\ item \in [Mutations -> Nat \ {0}] /\ attempt \in [Mutations -> 1 .. MaxAttempts]
      /\ tracked \in [Mutations -> Nat] /\ queue \in [Mutations -> SUBSET Write]
      /\ emitted \subseteq Write /\ commits \in Seq(Mutations)
      /\ cache \subseteq Entry /\ reader \in [Readers -> Get]
      /\ gets \in Nat /\ faults \in Nat
  BY DEF TypeInv, TypeOK
<1>a. MaxAttempts \in Nat \ {0} /\ Menu \subseteq Call
  BY SettingsAssumption, MenuAssumption
<1>b. ASSUME Fault \/ UNCHANGED faults PROVE faults' \in Nat
  BY <1>0, <1>b DEF Fault
<1>c. ASSUME NEW m \in Mutations, NEW step \in Pcs, Goto(m, step)
      PROVE  pc' \in [Mutations -> Pcs]
  BY <1>0, <1>c DEF Goto
<1>d. ASSUME UNCHANGED mutation
      PROVE  /\ call' = call /\ pc' = pc /\ item' = item /\ attempt' = attempt
             /\ tracked' = tracked /\ queue' = queue /\ emitted' = emitted
             /\ commits' = commits
  BY <1>d DEF mutation
<1>e. ASSUME UNCHANGED client PROVE reader' = reader /\ gets' = gets
  BY <1>e DEF client
<1>1. ASSUME NEW m \in Mutations, Begin(m) PROVE TypeOK'
  <2>1. PICK c \in Menu : /\ call' = [call EXCEPT ![m] = c]
                          /\ Goto(m, IF c.nested THEN "child" ELSE "own")
                          /\ tracked' = [tracked EXCEPT ![m] = IF c.op \in Single THEN 1 ELSE 0]
    BY <1>1 DEF Begin
  <2>2. call' \in [Mutations -> Call \cup {<<>>}] /\ tracked' \in [Mutations -> Nat]
    BY <1>0, <1>a, <2>1
  <2>3. pc' \in [Mutations -> Pcs]
    BY <2>1, <1>c DEF Pcs
  <2> QED
    BY <1>0, <1>1, <1>e, <2>2, <2>3 DEF Begin, TypeOK
<1>2. ASSUME NEW m \in Mutations, WriteChild(m) PROVE TypeOK'
  <2>1. tracked' \in [Mutations -> Nat]
    BY <1>0, <1>2 DEF WriteChild, Track
  <2>2. pc' \in [Mutations -> Pcs]
    BY <1>2, <1>c DEF WriteChild, Pcs
  <2> QED
    BY <1>0, <1>2, <1>e, <2>1, <2>2 DEF WriteChild, TypeOK
<1>3. ASSUME NEW m \in Mutations, PurgeChild(m) PROVE TypeOK'
  <2>1. pc' \in [Mutations -> Pcs]
    BY <1>3, <1>c DEF PurgeChild, Pcs
  <2> QED
    BY <1>0, <1>3, <1>e, <2>1 DEF PurgeChild, TypeOK
<1>4. ASSUME NEW m \in Mutations, WriteOwn(m) PROVE TypeOK'
  <2>1. tracked' \in [Mutations -> Nat]
    BY <1>0, <1>4 DEF WriteOwn, Track
  <2>2. PayloadEvents(m) \subseteq Write
    BY WriteType DEF PayloadEvents
  <2>3. queue' \in [Mutations -> SUBSET Write] /\ emitted' \subseteq Write
    <3> DEFINE late == IF Op(m) \in Single THEN PayloadEvents(m) \ {WriteOf(m, "own")}
                       ELSE PayloadEvents(m)
    <3>1. late \subseteq Write
      BY <2>2
    <3>2. \/ queue' = [queue EXCEPT ![m] = @ \cup late] /\ emitted' = emitted
          \/ emitted' = emitted \cup PayloadEvents(m) /\ queue' = queue
      BY <1>4 DEF WriteOwn
    <3> HIDE DEF late
    <3> QED
      BY <1>0, <2>2, <3>1, <3>2
  <2>4. pc' \in [Mutations -> Pcs]
    BY <1>4, <1>c DEF WriteOwn, Start, Pcs
  <2>5. item' \in [Mutations -> Nat \ {0}]
    <3>1. item' = [item EXCEPT ![m] = @ + 1] \/ item' = item
      BY <1>4 DEF WriteOwn
    <3>2. item \in [Mutations -> Nat \ {0}] /\ item[m] + 1 \in Nat \ {0}
      BY <1>0
    <3> QED
      BY <3>1, <3>2
  <2> QED
    BY <1>0, <1>4, <1>e, <2>1, <2>3, <2>4, <2>5 DEF WriteOwn, TypeOK
<1>5. ASSUME NEW m \in Mutations, Abort(m), UNCHANGED <<cache, client>>, Fault \/ UNCHANGED faults
      PROVE  TypeOK'
  <2>1. pc' \in [Mutations -> Pcs]
    BY <1>5, <1>c DEF Abort, Pcs
  <2>2. queue' \in [Mutations -> SUBSET Write]
    BY <1>0, <1>5 DEF Abort
  <2> QED
    BY <1>0, <1>5, <1>b, <1>e, <2>1, <2>2 DEF Abort, TypeOK
<1>6. ASSUME NEW m \in Mutations, Fail(m) PROVE TypeOK'
  BY <1>5, <1>6 DEF Fail
<1>7. ASSUME NEW m \in Mutations, Conflict(m) PROVE TypeOK'
  <2>1. CASE Abort(m)
    BY <1>5, <1>7, <2>1 DEF Conflict
  <2>2. CASE ~Abort(m)
    <3>1. attempt' \in [Mutations -> 1 .. MaxAttempts]
      <4>1. attempt[m] \in 1 .. MaxAttempts /\ attempt[m] < MaxAttempts
            /\ attempt' = [attempt EXCEPT ![m] = @ + 1]
        BY <1>0, <1>7, <2>2 DEF Conflict, MayRetry
      <4> QED
        BY <1>0, <1>a, <4>1
    <3>2. item' \in [Mutations -> Nat \ {0}]
      <4>1. item' = [item EXCEPT ![m] = 1]
        BY <1>7, <2>2 DEF Conflict
      <4> QED
        BY <1>0, <4>1
    <3>3. pc' \in [Mutations -> Pcs]
      BY <1>7, <1>c, <2>2 DEF Conflict, Start, Pcs
    <3>4. queue' \in [Mutations -> SUBSET Write]
      <4>1. Kept(m) \in SUBSET Write
        BY <1>0 DEF Kept
      <4> QED
        BY <1>0, <1>7, <2>2, <4>1 DEF Conflict
    <3> QED
      BY <1>0, <1>7, <1>e, <2>2, <3>1, <3>2, <3>3, <3>4 DEF Conflict, TypeOK
  <2> QED
    BY <2>1, <2>2
<1>8. ASSUME NEW m \in Mutations, pc[m] \in {"commit", "announce", "purge", "finally"},
             Goto(m, After(m))
      PROVE  pc' \in [Mutations -> Pcs]
  <2>1. After(m) \in Pcs
    BY <1>8, AfterSteps DEF Pcs
  <2> QED
    BY <1>8, <1>c, <2>1
<1>9. ASSUME NEW m \in Mutations, Commit(m) PROVE TypeOK'
  <2>1. commits' \in Seq(Mutations)
    BY <1>0, <1>9 DEF Commit
  <2> QED
    BY <1>0, <1>8, <1>9, <1>e, <2>1 DEF Commit, TypeOK
<1>10. ASSUME NEW m \in Mutations, Announce(m) PROVE TypeOK'
  <2>1. emitted' \subseteq Write
    BY <1>0, <1>10, WriteType DEF Announce
  <2>2. queue' \in [Mutations -> SUBSET Write]
    BY <1>0, <1>10 DEF Announce
  <2> QED
    BY <1>0, <1>8, <1>10, <1>e, <2>1, <2>2 DEF Announce, TypeOK
<1>11. ASSUME NEW m \in Mutations, Purge(m) PROVE TypeOK'
  BY <1>0, <1>8, <1>11, <1>e DEF Purge, TypeOK
<1>12. ASSUME NEW q \in Readers, NEW r \in Get, reader' = [reader EXCEPT ![q] = r],
              UNCHANGED mutation, cache' \subseteq Entry, gets' \in Nat, faults' \in Nat
       PROVE  TypeOK'
  <2>1. reader' \in [Readers -> Get]
    BY <1>0, <1>12
  <2> QED
    BY <1>0, <1>12, <1>d, <2>1 DEF TypeOK
<1>13. ASSUME NEW q \in Readers, Request(q) PROVE TypeOK'
  <2>1. UpTo(Known) \in Nat
    BY <1>0, UpToIsLast DEF IsUpTo, Known
  <2> DEFINE asked == [pc |-> "lookup", since |-> UpTo(Known), snap |-> 0, at |-> 0]
  <2>2. asked \in Get
    BY <2>1 DEF Get
  <2>3. /\ reader' = [reader EXCEPT ![q] = asked] /\ UNCHANGED mutation
        /\ gets' = gets + 1 /\ cache' = cache /\ faults' = faults
    BY <1>13 DEF Request
  <2> HIDE DEF asked
  <2>4. gets' \in Nat /\ cache' \subseteq Entry /\ faults' \in Nat
    BY <1>0, <2>3
  <2> QED
    BY <1>12, <2>2, <2>3, <2>4
<1>14. ASSUME NEW q \in Readers, Lookup(q) PROVE TypeOK'
  <2>1. reader[q] \in Get
    BY <1>0
  <2>2. ASSUME NEW e \in cache,
               reader' = [reader EXCEPT ![q] = [@ EXCEPT
                             !.pc = "replied", !.snap = e.snap, !.at = e.at]]
        PROVE  TypeOK'
    <3>1. e \in Entry
      BY <1>0
    <3>2. [reader[q] EXCEPT !.pc = "replied", !.snap = e.snap, !.at = e.at] \in Get
      BY <2>1, <3>1 DEF Get, Entry
    <3> QED
      BY <1>0, <1>12, <1>14, <2>2, <3>2 DEF Lookup
  <2>3. CASE reader' = [reader EXCEPT ![q].pc = "read"]
    <3>1. [reader[q] EXCEPT !.pc = "read"] \in Get
      BY <2>1 DEF Get
    <3> QED
      BY <1>0, <1>12, <1>14, <2>3, <3>1 DEF Lookup
  <2> QED
    BY <1>14, <2>2, <2>3 DEF Lookup
<1>f. Len(commits) \in Nat /\ \A q \in Readers : reader[q] \in Get
  BY <1>0
<1>15. ASSUME NEW q \in Readers, Read(q) PROVE TypeOK'
  <2>1. [reader[q] EXCEPT !.pc = "fill", !.snap = Len(commits)] \in Get
    BY <1>f DEF Get
  <2> QED
    BY <1>0, <1>12, <1>15, <2>1 DEF Read
<1>16. ASSUME NEW q \in Readers, Fill(q) PROVE TypeOK'
  <2>1. [reader[q] EXCEPT !.pc = "replied", !.at = Len(commits)] \in Get
    BY <1>f DEF Get
  <2>2. [snap |-> reader[q].snap, at |-> Len(commits)] \in Entry
    BY <1>f DEF Get, Entry
  <2>3. cache' \subseteq Entry /\ faults' \in Nat
    BY <1>0, <1>b, <1>16, <2>2 DEF Fill
  <2> QED
    BY <1>0, <1>12, <1>16, <2>1, <2>3 DEF Fill
<1>17. CASE Expire \/ UNCHANGED vars
  BY <1>0, <1>17 DEF Expire, mutation, client, vars, TypeOK
<1>18. CASE Crash
  <2>1. [pc |-> "idle", since |-> 0, snap |-> 0, at |-> 0] \in Get
    BY DEF Get
  <2>2. reader' \in [Readers -> Get]
    BY <1>18, <2>1 DEF Crash
  <2>3. pc' \in [Mutations -> Pcs] /\ queue' \in [Mutations -> SUBSET Write]
    BY <1>0, <1>18 DEF Crash, Pcs
  <2> QED
    BY <1>0, <1>18, <1>b, <2>2, <2>3 DEF Crash, TypeOK
<1> QED
  BY <1>1, <1>2, <1>3, <1>4, <1>6, <1>7, <1>9, <1>10, <1>11, <1>13, <1>14, <1>15, <1>16,
     <1>17, <1>18 DEF Next

\* A step of a mutation leaves it proper.
LEMMA ProperStep ==
    ASSUME TypeInv, NEW m \in Mutations, StepOf(m)
    PROVE  Proper(m)'
<1>0. /\ call \in [Mutations -> Call \cup {<<>>}] /\ pc \in [Mutations -> Pcs]
      /\ item \in [Mutations -> Nat \ {0}] /\ attempt \in [Mutations -> 1 .. MaxAttempts]
      /\ tracked \in [Mutations -> Nat] /\ queue \in [Mutations -> SUBSET Write]
      /\ Proper(m)
  BY DEF TypeInv, TypeOK
<1>1. CASE Begin(m)
  <2>1. PICK c \in Menu : call' = [call EXCEPT ![m] = c]
                          /\ Goto(m, IF c.nested THEN "child" ELSE "own")
    BY <1>1 DEF Begin
  <2>2. call'[m] = c /\ pc'[m] = (IF c.nested THEN "child" ELSE "own") /\ item'[m] = 1
    BY <1>0, <1>1, <2>1 DEF Begin, Goto, Proper
  <2>3. c \in Call
    BY MenuAssumption
  <2>4. c.payloads \in Nat \ {0} /\ c.nested \in BOOLEAN
    BY <2>3 DEF Call
  <2>5. pc'[m] \in {"child", "own"} /\ (pc'[m] = "child" => c.nested)
    BY <2>2
  <2> QED
    BY <2>2, <2>4, <2>5 DEF Proper, Payloads, Nested
<1>2. ASSUME pc[m] # "idle", UNCHANGED call, item'[m] <= Payloads(m), pc'[m] # "idle",
             pc'[m] \in {"child", "purgeChild"} => Nested(m),
             pc'[m] \in {"commit", "announce", "purge", "done"} => item'[m] = Payloads(m),
             pc'[m] = "announce" => Op(m) \in Creating \cup Changing
      PROVE  Proper(m)'
  <2>1. Op(m)' = Op(m) /\ Payloads(m)' = Payloads(m) /\ Nested(m)' = Nested(m)
    BY <1>2 DEF Op, Payloads, Nested
  <2> QED
    BY <1>0, <1>2, <2>1 DEF Proper
<1>a. ASSUME pc[m] # "idle"
      PROVE  /\ Payloads(m) \in Nat \ {0} /\ item[m] <= Payloads(m) /\ item[m] \in Nat \ {0}
             /\ pc[m] \in {"child", "purgeChild"} => Nested(m)
             /\ pc[m] \in {"commit", "announce", "purge", "done"} => item[m] = Payloads(m)
             /\ pc[m] = "announce" => Op(m) \in Creating \cup Changing
  BY <1>0, <1>a, CallType DEF Proper
<1>3. CASE WriteChild(m) \/ PurgeChild(m)
  <2>1. pc'[m] \in {"purgeChild", "own"} /\ pc[m] \in {"child", "purgeChild"}
        /\ UNCHANGED call /\ item'[m] = item[m]
    BY <1>0, <1>3 DEF WriteChild, PurgeChild, Goto
  <2> QED
    BY <1>2, <1>a, <2>1
<1>4. CASE WriteOwn(m)
  <2>1. pc[m] = "own" /\ UNCHANGED call
    BY <1>4 DEF WriteOwn
  <2>2. CASE item[m] < Payloads(m)
    <3>1. item'[m] = item[m] + 1 /\ pc'[m] = Start(m)
      BY <1>0, <1>4, <1>a, <2>1, <2>2 DEF WriteOwn, Goto
    <3>2. pc'[m] \in {"child", "own"} /\ (pc'[m] = "child" => Nested(m))
      BY <3>1 DEF Start
    <3> QED
      BY <1>2, <1>a, <2>1, <2>2, <3>1, <3>2
  <2>3. CASE item[m] = Payloads(m)
    <3>1. item'[m] = item[m] /\ pc'[m] = "commit"
      BY <1>0, <1>4, <1>a, <2>1, <2>3 DEF WriteOwn, Goto
    <3> QED
      BY <1>2, <1>a, <2>1, <2>3, <3>1
  <2> QED
    BY <1>4, <2>2, <2>3 DEF WriteOwn
<1>5. ASSUME Abort(m), pc[m] # "idle" PROVE Proper(m)'
  <2>1. pc'[m] \in {"finally", "failed"} /\ UNCHANGED call /\ item'[m] = item[m]
    BY <1>0, <1>5 DEF Abort, Goto
  <2> QED
    BY <1>2, <1>5, <1>a, <2>1
<1>6. CASE Fail(m)
  BY <1>5, <1>6 DEF Fail, InDatabase
<1>7. CASE Conflict(m)
  <2>1. CASE Abort(m)
    BY <1>5, <1>7, <2>1 DEF Conflict, InDatabase
  <2>2. CASE ~Abort(m)
    <3>1. item'[m] = 1 /\ pc'[m] = Start(m) /\ pc[m] # "idle" /\ UNCHANGED call
      BY <1>0, <1>7, <2>2 DEF Conflict, Goto, InDatabase
    <3>2. pc'[m] \in {"child", "own"} /\ (pc'[m] = "child" => Nested(m))
      BY <3>1 DEF Start
    <3> QED
      BY <1>2, <1>a, <3>1, <3>2
  <2> QED
    BY <2>1, <2>2
<1>8. CASE Commit(m) \/ Announce(m) \/ Purge(m)
  <2>1. /\ pc[m] \in {"commit", "announce", "purge", "finally"}
        /\ UNCHANGED call /\ item'[m] = item[m] /\ pc'[m] = After(m)
    BY <1>0, <1>8 DEF Commit, Announce, Purge, Goto
  <2>2. /\ pc[m] = "finally" => pc'[m] = "failed"
        /\ pc'[m] \in {"announce", "purge", "done", "failed"}
        /\ pc'[m] = "announce" => Op(m) \in Creating \cup Changing
    BY <2>1, AfterSteps
  <2> QED
    BY <1>2, <1>a, <2>1, <2>2
<1> QED
  BY <1>1, <1>3, <1>4, <1>6, <1>7, <1>8 DEF StepOf

\* TypeInv is inductive.
LEMMA TypeInvStep ==
    ASSUME TypeInv, [Next]_vars
    PROVE  TypeInv'
<1>1. ASSUME NEW m \in Mutations, Crash PROVE Proper(m)'
  <2>1. /\ call' = call /\ item' = item /\ attempt' = attempt /\ queue'[m] = {}
        /\ pc'[m] = IF Running(m) THEN "lost" ELSE pc[m]
    BY <1>1 DEF Crash
  <2>2. Proper(m)
    BY DEF TypeInv
  <2> QED
    BY <2>1, <2>2 DEF Proper, Running, Op, Payloads, Nested
<1>2. \A m \in Mutations : Proper(m)'
  BY <1>1, StepsAlone, SameProper, ProperStep DEF TypeInv
<1>3. commits' = commits \/ \E m \in Mutations : commits' = Append(commits, m)
  BY DEF Next, Begin, WriteChild, PurgeChild, WriteOwn, Fail, Conflict, Abort, Commit,
     Announce, Purge, Request, Lookup, Read, Fill, Expire, Crash, mutation, vars
<1> QED
  BY <1>2, <1>3, HasLastStep, TypeStep DEF TypeInv

\* Initially nothing was called.
LEMMA InitType == Init => TypeInv
<1>1. SUFFICES ASSUME Init PROVE TypeInv
  OBVIOUS
<1>2. TypeOK
  <2>1. [pc |-> "idle", since |-> 0, snap |-> 0, at |-> 0] \in Get
    BY DEF Get
  <2>2. reader \in [Readers -> Get]
    BY <1>1, <2>1 DEF Init
  <2> QED
    BY <1>1, <2>2, SettingsAssumption DEF Init, TypeOK, Pcs
<1>3. HasLast
  BY <1>1 DEF Init, HasLast, IsUpTo
<1> QED
  BY <1>1, <1>2, <1>3 DEF Init, TypeInv, Proper

\* Calls, program counters, queues, commits and cache keep their types (TypeOK).
THEOREM TypeCorrect == Spec => []TypeOK
<1>1. TypeInv /\ [Next]_vars => TypeInv'
  BY TypeInvStep
<1>2. TypeInv => TypeOK
  BY DEF TypeInv
<1> QED
  BY <1>1, <1>2, InitType, PTL DEF Spec

-----------------------------------------------------------------------------
(* What a step does to one mutation, to the commits and to the events.       *)

\* What a mutation was called with stays.
LEMMA CallStays ==
    ASSUME TypeInv, [Next]_vars, NEW m \in Mutations, pc[m] # "idle"
    PROVE  /\ pc'[m] # "idle" /\ call'[m] = call[m]
           /\ Op(m)' = Op(m) /\ Payloads(m)' = Payloads(m) /\ Nested(m)' = Nested(m)
<1>1. call'[m] = call[m]
  BY StepsAlone DEF StepOf, Same, Crash, Begin, WriteChild, PurgeChild, WriteOwn, Fail, Conflict,
     Abort, Commit, Announce, Purge
<1>2. pc'[m] # "idle"
  <2>0. pc \in [Mutations -> Pcs]
    BY DEF TypeInv, TypeOK
  <2>1. CASE Begin(m) \/ WriteChild(m) \/ PurgeChild(m)
    BY <2>0, <2>1 DEF Begin, WriteChild, PurgeChild, Goto
  <2>2. CASE WriteOwn(m)
    BY <2>0, <2>2 DEF WriteOwn, Goto, Start
  <2>3. CASE Fail(m) \/ Conflict(m)
    BY <2>0, <2>3 DEF Fail, Conflict, Abort, Goto, Start
  <2>4. CASE Commit(m) \/ Announce(m) \/ Purge(m)
    BY <2>0, <2>4, AfterSteps DEF Commit, Announce, Purge, Goto
  <2>5. CASE Same(m) \/ Crash
    BY <2>5 DEF Same, Crash
  <2> QED
    BY <2>1, <2>2, <2>3, <2>4, <2>5, StepsAlone DEF StepOf
<1> QED
  BY <1>1, <1>2 DEF Op, Payloads, Nested

\* A mutation joins the committed ones by its commit.
LEMMA CommittedStep ==
    ASSUME TypeInv, [Next]_vars
    PROVE  /\ Committed \subseteq Mutations
           /\ \/ Committed' = Committed /\ commits' = commits
              \/ \E m \in Mutations : /\ Commit(m) /\ Committed' = Committed \cup {m}
                                      /\ commits' = Append(commits, m)
<1>0. commits \in Seq(Mutations) /\ Committed \subseteq Mutations
  BY DEF TypeInv, TypeOK, Committed
<1>1. ASSUME NEW m \in Mutations, Commit(m) PROVE Committed' = Committed \cup {m}
  <2>1. /\ commits' = Append(commits, m) /\ Len(commits') = Len(commits) + 1
        /\ Len(commits) \in Nat /\ commits'[Len(commits) + 1] = m
        /\ \A i \in 1 .. Len(commits) : commits'[i] = commits[i]
    BY <1>0, <1>1 DEF Commit
  <2>2. DOMAIN commits = 1 .. Len(commits) /\ DOMAIN commits' = 1 .. (Len(commits) + 1)
    BY <1>0, <2>1
  <2> QED
    BY <2>1, <2>2 DEF Committed
<1>2. commits' = commits \/ \E m \in Mutations : Commit(m)
  BY DEF Next, Begin, WriteChild, PurgeChild, WriteOwn, Fail, Conflict, Abort, Commit,
     Announce, Purge, Request, Lookup, Read, Fill, Expire, Crash, mutation, vars
<1>3. commits' = commits => Committed' = Committed
  BY DEF Committed
<1> QED
  BY <1>0, <1>1, <1>2, <1>3 DEF Commit

\* An event is emitted by the transaction of a batch or by an announcement.
LEMMA EmittedStep ==
    ASSUME TypeInv, [Next]_vars
    PROVE  /\ emitted \subseteq emitted'
           /\ \A w \in emitted' : w \in emitted \/ \E m \in Mutations :
                 \/ WriteOwn(m) /\ ~Deferred(m) /\ w \in PayloadEvents(m)
                 \/ Announce(m) /\ w \in queue[m] \cup {WriteOf(m, "own")}
<1>1. \/ emitted' = emitted
      \/ \E m \in Mutations :
            \/ WriteOwn(m) /\ ~Deferred(m) /\ emitted' = emitted \cup PayloadEvents(m)
            \/ Announce(m) /\ emitted' = emitted \cup queue[m] \cup {WriteOf(m, "own")}
  BY DEF Next, Begin, WriteChild, PurgeChild, WriteOwn, Fail, Conflict, Abort, Commit,
     Announce, Purge, Request, Lookup, Read, Fill, Expire, Crash, mutation, vars
<1> QED
  BY <1>1

-----------------------------------------------------------------------------
(* Commits and events.                                                       *)

\* A mutation that committed is through with its payloads and past its commit,
\* and one that is past it has committed.
CommitInv ==
    /\ \A m \in Committed : /\ pc[m] \in {"announce", "purge", "done", "lost"}
                            /\ item[m] = Payloads(m)
    /\ \A m \in Mutations : pc[m] \in {"announce", "purge", "done"} => m \in Committed

\* It stays past it, with its payloads and its attempt.
LEMMA CommitStep ==
    ASSUME TypeInv, CommitInv, [Next]_vars
    PROVE  CommitInv'
<1>0. pc \in [Mutations -> Pcs] /\ item \in [Mutations -> Nat \ {0}]
  BY DEF TypeInv, TypeOK
<1>1. ASSUME NEW m \in Mutations
      PROVE  /\ m \in Committed' => /\ pc'[m] \in {"announce", "purge", "done", "lost"}
                                    /\ item'[m] = Payloads(m)'
             /\ pc'[m] \in {"announce", "purge", "done"} => m \in Committed'
  <2>1. CASE Commit(m)
    <3>1. pc'[m] = After(m) /\ item'[m] = item[m] /\ item[m] = Payloads(m) /\ pc[m] = "commit"
      BY <1>0, <2>1 DEF Commit, Goto, TypeInv, Proper
    <3>2. Payloads(m)' = Payloads(m)
      BY <3>1, CallStays
    <3>3. m \in Committed'
      <4>1. commits \in Seq(Mutations) /\ commits' = Append(commits, m)
        BY <2>1 DEF Commit, TypeInv, TypeOK
      <4> QED
        BY <4>1 DEF Committed
    <3> QED
      BY <3>1, <3>2, <3>3, AfterSteps
  <2>2. CASE ~Commit(m)
    <3>1. m \in Committed' <=> m \in Committed
      <4>1. ASSUME NEW n \in Mutations, Commit(n), n # m, Committed' = Committed \cup {n}
            PROVE  m \in Committed' <=> m \in Committed
        BY <4>1
      <4>2. ASSUME NEW n \in Mutations, Commit(n) PROVE n # m
        BY <2>2, <4>2, Zenon
      <4> QED
        BY <4>1, <4>2, CommittedStep
    <3>2. CASE Begin(m)
      BY <1>0, <3>1, <3>2 DEF Begin, Goto, CommitInv
    <3>3. CASE WriteChild(m) \/ PurgeChild(m)
      BY <1>0, <3>1, <3>3 DEF WriteChild, PurgeChild, Goto, CommitInv
    <3>4. CASE WriteOwn(m)
      <4>1. pc'[m] \in {"child", "own", "commit"} /\ pc[m] = "own"
        BY <1>0, <3>4 DEF WriteOwn, Goto, Start
      <4> QED
        BY <3>1, <4>1 DEF CommitInv
    <3>5. CASE Fail(m) \/ Conflict(m)
      <4>1. pc'[m] \in {"child", "own", "failed", "finally"} /\ pc[m] \in {"child", "own", "commit"}
        BY <1>0, <3>5 DEF Fail, Conflict, Abort, InDatabase, Goto, Start
      <4> QED
        BY <3>1, <4>1 DEF CommitInv
    <3>6. CASE Announce(m) \/ Purge(m)
      <4>1. /\ pc[m] \in {"announce", "purge", "finally"} /\ item'[m] = item[m]
            /\ pc'[m] = After(m)
        BY <1>0, <3>6 DEF Announce, Purge, Goto
      <4>2. Payloads(m)' = Payloads(m)
        BY <4>1, CallStays
      <4> QED
        BY <3>1, <4>1, <4>2, AfterSteps DEF CommitInv
    <3>7. CASE Same(m)
      BY <3>1, <3>7 DEF Same, CommitInv, Payloads
    <3>8. CASE Crash
      <4>1. pc'[m] = (IF Running(m) THEN "lost" ELSE pc[m]) /\ item' = item /\ call' = call
        BY <3>8 DEF Crash
      <4> QED
        BY <3>1, <4>1 DEF Running, CommitInv, Payloads
    <3> QED
      BY <2>2, <3>2, <3>3, <3>4, <3>5, <3>6, <3>7, <3>8, StepsAlone DEF StepOf
  <2> QED
    BY <2>1, <2>2
<1>2. Committed' \subseteq Mutations
  BY CommittedStep
<1> QED
  BY <1>1, <1>2 DEF CommitInv

\* What a mutation put off is its own: events of the attempt under way, or of
\* nested items; every event is of a mutation that was called.
EventInv ==
    /\ \A m \in Mutations : \A w \in queue[m] :
          /\ w.of = m /\ Deferred(m)
          /\ IF Op(m) \in Single THEN w.kind = "child" ELSE w.attempt = attempt[m]
    /\ \A w \in emitted : pc[w.of] # "idle"
    /\ DeferredEventsHappened

\* What has committed keeps its attempt.
LEMMA CommittedStays ==
    ASSUME TypeInv, CommitInv, [Next]_vars, NEW m \in Committed
    PROVE  m \in Committed' /\ attempt'[m] = attempt[m] /\ item'[m] = item[m]
<1>1. m \in Mutations /\ m \in Committed'
  BY CommittedStep
<1>2. pc[m] \in {"announce", "purge", "done", "lost"}
  BY DEF CommitInv
<1>3. ~Begin(m) /\ ~WriteChild(m) /\ ~PurgeChild(m) /\ ~WriteOwn(m) /\ ~Fail(m) /\ ~Conflict(m)
  BY <1>2 DEF Begin, WriteChild, PurgeChild, WriteOwn, Fail, Conflict, InDatabase
<1>4. CASE Commit(m) \/ Announce(m) \/ Purge(m)
  BY <1>1, <1>4 DEF Commit, Announce, Purge
<1> QED
  BY <1>1, <1>3, <1>4, StepsAlone DEF StepOf, Same, Crash

\* What is put off stays so until its commit is announced.
LEMMA QueueStep ==
    ASSUME TypeInv, EventInv, [Next]_vars, NEW m \in Mutations, NEW w, w \in queue'[m]
    PROVE  /\ w.of = m /\ Deferred(m)'
           /\ IF Op(m)' \in Single THEN w.kind = "child" ELSE w.attempt = attempt'[m]
<1>0. /\ queue \in [Mutations -> SUBSET Write] /\ attempt \in [Mutations -> 1 .. MaxAttempts]
      /\ Proper(m)
  BY DEF TypeInv, TypeOK
<1>1. ASSUME w \in queue[m], attempt'[m] = attempt[m] \/ Op(m) \in Single
      PROVE  /\ w.of = m /\ Deferred(m)'
             /\ IF Op(m)' \in Single THEN w.kind = "child" ELSE w.attempt = attempt'[m]
  <2>1. pc[m] # "idle"
    BY <1>0, <1>1 DEF Proper
  <2>2. Op(m)' = Op(m)
    BY <2>1, CallStays
  <2> QED
    BY <1>1, <2>2 DEF EventInv, Deferred
<1>2. CASE Begin(m) \/ WriteChild(m) \/ PurgeChild(m) \/ Commit(m) \/ Purge(m) \/ Same(m)
  BY <1>1, <1>2 DEF Begin, WriteChild, PurgeChild, Commit, Purge, Same
<1>3. CASE WriteOwn(m)
  <2>1. pc[m] = "own" /\ attempt'[m] = attempt[m]
    BY <1>3 DEF WriteOwn
  <2>2. Op(m)' = Op(m)
    BY <2>1, CallStays
  <2>3. CASE w \in queue[m]
    BY <1>1, <2>1, <2>3
  <2>4. CASE w \notin queue[m]
    <3> DEFINE late == IF Op(m) \in Single THEN PayloadEvents(m) \ {WriteOf(m, "own")}
                       ELSE PayloadEvents(m)
    <3>1. \/ queue' = [queue EXCEPT ![m] = @ \cup late] /\ Deferred(m)
          \/ queue' = queue
      BY <1>3 DEF WriteOwn
    <3>2. Deferred(m) /\ w \in late
      <4> HIDE DEF late
      <4> QED
        BY <1>0, <2>4, <3>1
    <3>3. w \in {WriteOf(m, "own"), WriteOf(m, "child")}
          /\ (Op(m) \in Single => w # WriteOf(m, "own"))
      BY <3>2 DEF PayloadEvents
    <3>4. w.of = m /\ w.attempt = attempt[m] /\ (Op(m) \in Single => w.kind = "child")
      BY <3>3 DEF WriteOf
    <3> QED
      BY <2>1, <2>2, <3>2, <3>4 DEF Deferred
  <2> QED
    BY <2>3, <2>4
<1>4. CASE Fail(m) \/ Announce(m)
  BY <1>0, <1>4 DEF Fail, Abort, Announce
<1>5. CASE Conflict(m)
  <2>1. queue' = [queue EXCEPT ![m] = {}] \/ queue' = [queue EXCEPT ![m] = Kept(m)]
    BY <1>5 DEF Conflict, Abort
  <2>2. w \in queue[m] /\ Op(m) \in Single
    BY <1>0, <2>1 DEF Kept
  <2> QED
    BY <1>1, <2>2
<1>6. CASE Crash
  BY <1>6 DEF Crash
<1> QED
  BY <1>2, <1>3, <1>4, <1>5, <1>6, StepsAlone DEF StepOf

\* Events keep being of calls, and deferred ones of rows that are there.
LEMMA EventStep ==
    ASSUME TypeInv, CommitInv, EventInv, [Next]_vars
    PROVE  EventInv'
<1>0. TypeInv' /\ emitted \subseteq Write /\ \A w \in Write : w.of \in Mutations
  BY TypeInvStep DEF TypeInv, TypeOK, Write
<1>1. ASSUME NEW w \in emitted', NEW m, m = w.of
      PROVE  /\ pc'[m] # "idle"
             /\ Op(m)' \notin InTransaction =>
                   /\ m \in Committed'
                   /\ w.attempt = attempt'[m] \/ (w.kind = "child" /\ Op(m)' \in Single)
  <2>1. CASE w \in emitted
    <3>1. m \in Mutations /\ pc[m] # "idle"
      BY <1>0, <1>1, <2>1 DEF EventInv
    <3>2. pc'[m] # "idle" /\ Op(m)' = Op(m)
      BY <3>1, CallStays
    <3>3. ASSUME Op(m) \notin InTransaction
          PROVE  /\ m \in Committed'
                 /\ w.attempt = attempt'[m] \/ (w.kind = "child" /\ Op(m) \in Single)
      <4>1. /\ m \in Committed
            /\ w.attempt = attempt[m] \/ (w.kind = "child" /\ Op(m) \in Single)
        BY <1>1, <2>1, <3>3 DEF EventInv, DeferredEventsHappened
      <4> QED
        BY <4>1, CommittedStays
    <3> QED
      BY <3>2, <3>3
  <2>2. ASSUME NEW n \in Mutations, WriteOwn(n), ~Deferred(n), w \in PayloadEvents(n)
        PROVE  m = n /\ pc'[n] # "idle" /\ Op(n)' \in InTransaction
    <3>1. m = n /\ pc[n] # "idle"
      BY <1>1, <2>2 DEF PayloadEvents, WriteOf, WriteOwn
    <3> QED
      BY <2>2, <3>1, CallStays DEF Deferred
  <2>3. ASSUME NEW n \in Mutations, Announce(n), w \in queue[n] \cup {WriteOf(n, "own")}
        PROVE  /\ m = n /\ pc'[n] # "idle" /\ n \in Committed'
               /\ w.attempt = attempt'[n] \/ (w.kind = "child" /\ Op(n)' \in Single)
    <3>1. pc[n] = "announce"
      BY <2>3 DEF Announce
    <3>2. n \in Committed /\ pc'[n] # "idle" /\ Op(n)' = Op(n)
      BY <3>1, CallStays DEF CommitInv
    <3>3. n \in Committed' /\ attempt'[n] = attempt[n]
      BY <3>2, CommittedStays
    <3>4. CASE w \in queue[n]
      BY <1>1, <3>2, <3>3, <3>4 DEF EventInv
    <3>5. CASE w = WriteOf(n, "own")
      BY <1>1, <3>2, <3>3, <3>5 DEF WriteOf
    <3> QED
      BY <2>3, <3>4, <3>5
  <2> QED
    BY <2>1, <2>2, <2>3, EmittedStep
<1>2. \A w \in emitted' : \A m : m = w.of => pc'[m] # "idle"
  BY <1>1
<1>3. DeferredEventsHappened'
  <2>1. \A w \in emitted' : \A m : m = w.of /\ Op(m)' \notin InTransaction =>
           /\ m \in Committed'
           /\ w.attempt = attempt'[m] \/ (w.kind = "child" /\ Op(m)' \in Single)
    BY <1>1
  <2> QED
    BY <2>1 DEF DeferredEventsHappened, Op
<1>4. \A m \in Mutations : \A w \in queue'[m] :
          /\ w.of = m /\ Deferred(m)'
          /\ IF Op(m)' \in Single THEN w.kind = "child" ELSE w.attempt = attempt'[m]
  BY QueueStep
<1> QED
  BY <1>2, <1>3, <1>4 DEF EventInv

\* Types, commits and events.
SafeInv == TypeInv /\ CommitInv /\ EventInv

\* They are inductive.
LEMMA SafeInductive == Spec => []SafeInv
<1>1. Init => SafeInv
  <2>1. SUFFICES ASSUME Init PROVE CommitInv /\ EventInv
    BY InitType DEF SafeInv
  <2>2. Committed = {}
    BY <2>1 DEF Init, Committed
  <2>3. CommitInv
    BY <2>1, <2>2 DEF Init, CommitInv
  <2>4. EventInv
    BY <2>1 DEF Init, EventInv, DeferredEventsHappened
  <2> QED
    BY <2>3, <2>4
<1>2. SafeInv /\ [Next]_vars => SafeInv'
  BY TypeInvStep, CommitStep, EventStep DEF SafeInv
<1> QED
  BY <1>1, <1>2, PTL DEF Spec

\* A deferred action event announces a row that is in the database, that of the
\* attempt that committed, nested items of a retried call apart
\* (DeferredEventsHappened).
THEOREM EventsAfterTheFact == Spec => []DeferredEventsHappened
<1>1. SafeInv => DeferredEventsHappened
  BY DEF SafeInv, EventInv
<1> QED
  BY <1>1, SafeInductive, PTL

-----------------------------------------------------------------------------
(* What is announced.                                                        *)

\* How many payloads the attempt that is under way is through with.
Through(m) == IF pc[m] \in {"child", "purgeChild", "own"} THEN item[m] - 1 ELSE item[m]

\* The transaction of m is open or has committed, and the process lives.
Going(m) == pc[m] \notin {"idle", "finally", "failed", "lost"}

Announced(m) == pc[m] = "done" \/ (pc[m] = "purge" /\ Op(m) \in Creating)

\* A write of the attempt under way.
WriteAt(m, i, kind) == [of |-> m, item |-> i, kind |-> kind, attempt |-> attempt[m]]
Kinds(m) == IF Nested(m) THEN {"own", "child"} ELSE {"own"}

\* Its event is emitted or put off.
Noted(m, i, kind) ==
    \/ WriteAt(m, i, kind) \in emitted
    \/ /\ Deferred(m) /\ ~Announced(m)
       /\ WriteAt(m, i, kind) \in queue[m] \/ (kind = "own" /\ Op(m) \in Single)

\* Every row that was written is noted.
NotedInv ==
    \A m \in Mutations : Going(m) =>
        \A i \in 1 .. Through(m), kind \in Kinds(m) : Noted(m, i, kind)

\* What is noted stays so as long as nothing is announced.
LEMMA StaysNoted ==
    ASSUME TypeInv, [Next]_vars, NEW m \in Mutations, pc[m] # "idle",
           attempt'[m] = attempt[m], queue[m] \subseteq queue'[m], ~Announced(m)',
           NEW i, NEW kind, Noted(m, i, kind)
    PROVE  Noted(m, i, kind)'
<1>1. Op(m)' = Op(m) /\ emitted \subseteq emitted'
  BY CallStays, EmittedStep
<1>2. WriteAt(m, i, kind)' = WriteAt(m, i, kind)
  BY DEF WriteAt
<1>3. Deferred(m)' <=> Deferred(m)
  BY <1>1 DEF Deferred
<1> QED
  BY <1>1, <1>2, <1>3 DEF Noted

\* So does what was emitted.
LEMMA StaysEmitted ==
    ASSUME TypeInv, [Next]_vars, NEW m \in Mutations, attempt'[m] = attempt[m],
           NEW i, NEW kind, WriteAt(m, i, kind) \in emitted
    PROVE  Noted(m, i, kind)'
<1>1. WriteAt(m, i, kind)' = WriteAt(m, i, kind) /\ emitted \subseteq emitted'
  BY EmittedStep DEF WriteAt
<1> QED
  BY <1>1 DEF Noted

\* A payload's own write notes its row and that of its nested item.
LEMMA WriteNotes ==
    ASSUME TypeInv, [Next]_vars, NEW m \in Mutations, WriteOwn(m), ~Announced(m)',
           NEW i, i = item[m], NEW kind \in {"own", "child"}, kind \in Kinds(m)
    PROVE  Noted(m, i, kind)'
<1>0. queue \in [Mutations -> SUBSET Write] /\ pc[m] # "idle" /\ attempt' = attempt
  BY DEF TypeInv, TypeOK, WriteOwn
<1>1. Op(m)' = Op(m)
  BY <1>0, CallStays
<1>2. WriteAt(m, i, kind)' = WriteOf(m, kind) /\ WriteOf(m, kind) \in PayloadEvents(m)
  <2>1. WriteAt(m, i, kind)' = WriteOf(m, kind)
    BY <1>0 DEF WriteAt, WriteOf
  <2>2. kind = "child" => Nested(m)
    BY DEF Kinds
  <2>3. WriteOf(m, kind) \in PayloadEvents(m)
    BY <2>2 DEF PayloadEvents
  <2> QED
    BY <2>1, <2>3
<1>3. CASE ~Deferred(m)
  <2>1. emitted' = emitted \cup PayloadEvents(m)
    BY <1>3 DEF WriteOwn
  <2> QED
    BY <1>2, <2>1 DEF Noted
<1>4. CASE Deferred(m)
  <2>1. Deferred(m)'
    BY <1>1, <1>4 DEF Deferred
  <2>2. CASE Op(m) \in Single /\ kind = "own"
    BY <1>1, <2>1, <2>2 DEF Noted
  <2>3. CASE ~(Op(m) \in Single /\ kind = "own")
    <3> DEFINE late == IF Op(m) \in Single THEN PayloadEvents(m) \ {WriteOf(m, "own")}
                       ELSE PayloadEvents(m)
    <3>1. kind # "own" => WriteOf(m, kind) # WriteOf(m, "own")
      BY DEF WriteOf
    <3>2. WriteOf(m, kind) \in late
      BY <1>2, <2>3, <3>1
    <3>3. queue' = [queue EXCEPT ![m] = @ \cup late]
      BY <1>4 DEF WriteOwn
    <3> HIDE DEF late
    <3>4. WriteOf(m, kind) \in queue'[m]
      BY <1>0, <3>2, <3>3
    <3> QED
      BY <1>2, <2>1, <3>4 DEF Noted
  <2> QED
    BY <2>2, <2>3
<1> QED
  BY <1>3, <1>4

\* Rows keep being noted.
LEMMA NotedStep ==
    ASSUME SafeInv, NotedInv, [Next]_vars
    PROVE  NotedInv'
<1>1. SUFFICES ASSUME NEW m \in Mutations, Going(m)',
                      NEW i \in 1 .. Through(m)', NEW kind \in Kinds(m)'
               PROVE  Noted(m, i, kind)'
  BY DEF NotedInv
<1>0. /\ TypeInv /\ CommitInv /\ Proper(m)
      /\ pc \in [Mutations -> Pcs] /\ item \in [Mutations -> Nat \ {0}]
      /\ queue \in [Mutations -> SUBSET Write]
  BY DEF SafeInv, TypeInv, TypeOK
<1>a. pc[m] # "idle" => Kinds(m)' = Kinds(m) /\ Op(m)' = Op(m) /\ Payloads(m)' = Payloads(m)
  BY <1>0, CallStays DEF Kinds
<1>b. ASSUME Going(m), i \in 1 .. Through(m), kind \in Kinds(m) PROVE Noted(m, i, kind)
  BY <1>b DEF NotedInv
<1>2. CASE Begin(m)
  <2>1. pc'[m] \in {"child", "own"} /\ item'[m] = 1
    BY <1>0, <1>2 DEF Begin, Goto, Proper
  <2> QED
    BY <1>1, <2>1 DEF Through
<1>3. CASE WriteChild(m) \/ PurgeChild(m)
  <2>1. /\ pc[m] \in {"child", "purgeChild"} /\ pc'[m] \in {"purgeChild", "own"}
        /\ item' = item /\ attempt' = attempt /\ queue' = queue
    BY <1>0, <1>3 DEF WriteChild, PurgeChild, Goto
  <2>2. Through(m)' = Through(m) /\ Going(m) /\ ~Announced(m)'
    BY <2>1 DEF Through, Going, Announced
  <2> QED
    BY <1>0, <1>1, <1>a, <1>b, <2>1, <2>2, StaysNoted
<1>4. CASE WriteOwn(m)
  <2>1. /\ pc[m] = "own" /\ attempt' = attempt
        /\ \/ item'[m] = item[m] + 1 /\ pc'[m] \in {"child", "own"}
           \/ item'[m] = item[m] /\ pc'[m] = "commit"
    BY <1>0, <1>4 DEF WriteOwn, Goto, Start
  <2>2. Through(m)' = item[m] /\ Through(m) = item[m] - 1 /\ Going(m) /\ ~Announced(m)'
    BY <1>0, <2>1 DEF Through, Going, Announced
  <2>3. queue[m] \subseteq queue'[m]
    BY <1>0, <1>4 DEF WriteOwn
  <2>4. CASE i = item[m]
    <3>1. kind \in {"own", "child"} /\ kind \in Kinds(m)
      BY <1>1, <1>a, <2>1 DEF Kinds
    <3> QED
      BY <1>0, <1>4, <2>2, <2>4, <3>1, WriteNotes
  <2>5. CASE i # item[m]
    <3>1. i \in 1 .. Through(m)
      BY <1>0, <1>1, <2>2, <2>5
    <3> QED
      BY <1>0, <1>1, <1>a, <1>b, <2>1, <2>2, <2>3, <3>1, StaysNoted
  <2> QED
    BY <2>4, <2>5
<1>5. CASE Fail(m) \/ Conflict(m)
  <2>1. \/ pc'[m] \in {"failed", "finally"}
        \/ pc'[m] \in {"child", "own"} /\ item'[m] = 1
    BY <1>0, <1>5 DEF Fail, Conflict, Abort, Goto, Start
  <2> QED
    BY <1>1, <2>1 DEF Through, Going
<1>6. CASE Commit(m)
  <2>1. /\ pc[m] = "commit" /\ pc'[m] = After(m)
        /\ item' = item /\ attempt' = attempt /\ queue' = queue
    BY <1>0, <1>6 DEF Commit, Goto
  <2>2. pc'[m] = (IF Op(m) \in Creating THEN "announce" ELSE "purge")
    BY <2>1, AfterSteps
  <2>3. Through(m)' = Through(m) /\ Going(m) /\ ~Announced(m)'
    BY <1>a, <2>1, <2>2 DEF Through, Going, Announced
  <2> QED
    BY <1>0, <1>1, <1>a, <1>b, <2>1, <2>3, StaysNoted
<1>7. CASE Announce(m)
  <2>1. /\ pc[m] = "announce" /\ pc'[m] = After(m) /\ item' = item /\ attempt' = attempt
        /\ emitted' = emitted \cup queue[m] \cup {WriteOf(m, "own")}
    BY <1>0, <1>7 DEF Announce, Goto
  <2>2. pc'[m] \in {"purge", "done"}
    BY <2>1, AfterSteps
  <2>3. Through(m)' = Through(m) /\ Through(m) = item[m] /\ Going(m)
    BY <2>1, <2>2 DEF Through, Going
  <2>4. Noted(m, i, kind)
    BY <1>1, <1>a, <1>b, <2>1, <2>3
  <2>5. CASE kind = "own" /\ Op(m) \in Single
    <3>1. item[m] = 1
      BY <1>0, <2>1, <2>5, CallType DEF Proper
    <3>2. i = item[m]
      BY <1>1, <2>3, <3>1
    <3> QED
      BY <2>1, <2>5, <3>2 DEF Noted, WriteAt, WriteOf
  <2>6. CASE WriteAt(m, i, kind) \in emitted \cup queue[m]
    BY <2>1, <2>6 DEF Noted, WriteAt
  <2> QED
    BY <2>4, <2>5, <2>6 DEF Noted
<1>8. CASE Purge(m)
  <2>1. /\ pc[m] \in {"purge", "finally"} /\ pc'[m] = After(m)
        /\ item' = item /\ attempt' = attempt /\ queue' = queue
    BY <1>0, <1>8 DEF Purge, Goto
  <2>2. pc[m] = "purge" /\ pc'[m] = IF Op(m) \in Changing THEN "announce" ELSE "done"
    BY <1>1, <2>1, AfterSteps DEF Going
  <2>3. Through(m)' = Through(m) /\ Going(m)
    BY <2>1, <2>2 DEF Through, Going
  <2>4. Noted(m, i, kind)
    BY <1>1, <1>a, <1>b, <2>2, <2>3
  <2>5. CASE Op(m) \in Changing
    BY <1>0, <1>a, <2>1, <2>2, <2>4, <2>5, StaysNoted DEF Announced
  <2>6. CASE Op(m) \notin Changing
    <3>1. ~Deferred(m) \/ Announced(m)
      BY <1>0, <2>2, <2>6, CallType DEF Deferred, Announced
    <3>2. WriteAt(m, i, kind) \in emitted
      BY <2>4, <3>1 DEF Noted
    <3> QED
      BY <1>0, <2>1, <3>2, StaysEmitted
  <2> QED
    BY <2>5, <2>6
<1>9. CASE Same(m) \/ Crash
  <2>1. pc[m] # "idle"
    BY <1>1, <1>9 DEF Same, Crash, Going
  <2>2. pc'[m] = pc[m] /\ item'[m] = item[m] /\ attempt'[m] = attempt[m]
    BY <1>1, <1>9 DEF Same, Crash, Going
  <2>3. Through(m)' = Through(m) /\ Going(m)
    BY <1>1, <2>2 DEF Through, Going
  <2>4. Noted(m, i, kind)
    BY <1>1, <1>a, <1>b, <2>1, <2>3
  <2>5. CASE pc[m] = "done"
    <3>1. WriteAt(m, i, kind) \in emitted
      BY <2>4, <2>5 DEF Noted, Announced
    <3> QED
      BY <1>0, <2>2, <3>1, StaysEmitted
  <2>6. CASE Same(m)
    <3>1. CASE Announced(m)
      <4>1. WriteAt(m, i, kind) \in emitted
        BY <2>4, <3>1 DEF Noted
      <4> QED
        BY <1>0, <2>2, <4>1, StaysEmitted
    <3>2. CASE ~Announced(m)
      <4>1. ~Announced(m)' /\ queue[m] \subseteq queue'[m]
        BY <1>a, <2>1, <2>6, <3>2 DEF Announced, Same
      <4> QED
        BY <1>0, <2>1, <2>2, <2>4, <4>1, StaysNoted
    <3> QED
      BY <3>1, <3>2
  <2>7. CASE Crash /\ pc[m] # "done"
    BY <1>1, <2>2, <2>7 DEF Crash, Running, Going
  <2> QED
    BY <1>9, <2>5, <2>6, <2>7
<1> QED
  BY <1>0, <1>2, <1>3, <1>4, <1>5, <1>6, <1>7, <1>8, <1>9, StepsAlone DEF StepOf

\* The rows of a committed mutation.
RowsOf(m) == {WriteAt(m, i, kind) : i \in 1 .. Payloads(m), kind \in Kinds(m)}

\* What the database holds of a mutation is among them.
LEMMA RowsOfCommitted ==
    \A m \in Mutations : {w \in Rows : w.of = m} \subseteq RowsOf(m)
<1>1. SUFFICES ASSUME NEW m \in Mutations, NEW w \in Rows, w.of = m PROVE w \in RowsOf(m)
  OBVIOUS
<1>2. PICK n \in Committed :
        w \in [of : {n}, item : 1 .. Payloads(n), attempt : {attempt[n]}, kind : Kinds(n)]
  BY <1>1 DEF Rows, Kinds
<1>3. n = m
  BY <1>1, <1>2
<1>4. /\ w = [of |-> m, item |-> w.item, kind |-> w.kind, attempt |-> attempt[m]]
      /\ w.item \in 1 .. Payloads(m) /\ w.kind \in Kinds(m)
  BY <1>2, <1>3
<1> QED
  BY <1>4 DEF RowsOf, WriteAt

\* A mutation that is answered has announced every row it wrote
\* (AnsweredIsAnnounced).
THEOREM AnsweredMutationsAreAnnounced == Spec => []AnsweredIsAnnounced
<1>1. Init => NotedInv
  BY DEF Init, NotedInv, Going
<1>2. SafeInv /\ NotedInv /\ [Next]_vars => NotedInv'
  BY NotedStep
<1>3. SafeInv /\ NotedInv => AnsweredIsAnnounced
  <2>1. SUFFICES ASSUME SafeInv, NotedInv, NEW w \in Rows, pc[w.of] = "done"
                 PROVE  w \in emitted
    BY DEF AnsweredIsAnnounced
  <2>2. PICK m \in Committed : w.of = m
    BY <2>1 DEF Rows
  <2>3. m \in Mutations /\ pc[m] = "done" /\ item[m] = Payloads(m)
    BY <2>1, <2>2 DEF SafeInv, TypeInv, TypeOK, CommitInv, Committed
  <2>4. PICK i \in 1 .. Payloads(m), kind \in Kinds(m) : w = WriteAt(m, i, kind)
    BY <2>1, <2>2, <2>3, RowsOfCommitted DEF RowsOf
  <2>5. Noted(m, i, kind)
    BY <2>1, <2>3, <2>4 DEF NotedInv, Going, Through
  <2> QED
    BY <2>3, <2>4, <2>5 DEF Noted, Announced
<1> QED
  BY <1>1, <1>2, <1>3, SafeInductive, PTL DEF Spec

-----------------------------------------------------------------------------
(* The limit.                                                                *)

\* The rows that the attempt under way has written, and the one a single
\* operation counts in advance.
Weight(m) ==
    (IF Op(m) \in Single THEN 1 ELSE Through(m))
    + (IF Nested(m) THEN Through(m) + (IF pc[m] \in {"purgeChild", "own"} THEN 1 ELSE 0) ELSE 0)

\* They are all counted, and the count is within the limit.
LimitInv ==
    \A m \in Mutations :
        /\ pc[m] # "idle" => tracked[m] <= MaxBatch
        /\ Going(m) \/ m \in Committed => Weight(m) <= tracked[m]

\* A mutation that committed stands where its transaction ended.
LEMMA CommittedThrough ==
    ASSUME TypeInv, CommitInv, NEW m \in Committed
    PROVE  /\ m \in Mutations /\ pc[m] # "idle" /\ Through(m) = Payloads(m)
           /\ Weight(m) = (IF Op(m) \in Single THEN 1 ELSE Payloads(m))
                          + (IF Nested(m) THEN Payloads(m) ELSE 0)
<1>1. m \in Mutations
  BY DEF TypeInv, TypeOK, Committed
<1>2. pc[m] \in {"announce", "purge", "done", "lost"} /\ item[m] = Payloads(m)
  BY DEF CommitInv
<1>3. Through(m) = Payloads(m) /\ Payloads(m) \in Nat
  BY <1>1, <1>2, CallType DEF Through
<1>4. Nested(m) => Through(m) + (IF pc[m] \in {"purgeChild", "own"} THEN 1 ELSE 0) = Payloads(m)
  BY <1>2, <1>3
<1> QED
  BY <1>1, <1>2, <1>3, <1>4 DEF Weight

\* Every write is counted before it is made, or refused.
LEMMA LimitStep ==
    ASSUME SafeInv, LimitInv, [Next]_vars
    PROVE  LimitInv'
<1>0. /\ TypeInv /\ CommitInv /\ pc \in [Mutations -> Pcs]
      /\ item \in [Mutations -> Nat \ {0}] /\ tracked \in [Mutations -> Nat]
      /\ MaxBatch \in Nat \ {0}
  BY SettingsAssumption DEF SafeInv, TypeInv, TypeOK
<1>1. SUFFICES ASSUME NEW m \in Mutations
               PROVE  /\ pc'[m] # "idle" => tracked'[m] <= MaxBatch
                      /\ Going(m)' \/ m \in Committed' => Weight(m)' <= tracked'[m]
  BY DEF LimitInv
<1>2. /\ pc[m] # "idle" => tracked[m] <= MaxBatch
      /\ Going(m) \/ m \in Committed => Weight(m) <= tracked[m]
      /\ Proper(m) /\ item[m] \in Nat \ {0} /\ tracked[m] \in Nat /\ Through(m) \in Nat
  BY <1>0 DEF LimitInv, TypeInv, Through
<1>a. pc[m] # "idle" => /\ Op(m)' = Op(m) /\ Nested(m)' = Nested(m) /\ Nested(m) \in BOOLEAN
                        /\ pc'[m] # "idle"
  BY <1>0, CallStays, CallType
\* A mutation joins the committed ones by its commit only.
<1>b. m \in Committed' => m \in Committed \/ Commit(m)
  <2>1. ASSUME NEW n \in Mutations, Commit(n), Committed' = Committed \cup {n}
        PROVE  m \in Committed' => m \in Committed \/ m = n
    BY <2>1
  <2> QED
    BY <1>0, <2>1, CommittedStep
<1>c. m \in Committed => pc[m] \in {"announce", "purge", "done", "lost"}
  BY <1>0 DEF CommitInv
<1>3. CASE Begin(m)
  <2>1. PICK c \in Menu : /\ call' = [call EXCEPT ![m] = c]
                          /\ pc' = [pc EXCEPT ![m] = IF c.nested THEN "child" ELSE "own"]
                          /\ tracked' = [tracked EXCEPT ![m] = IF c.op \in Single THEN 1 ELSE 0]
    BY <1>3 DEF Begin, Goto
  <2>2. /\ call \in [Mutations -> Call \cup {<<>>}] /\ pc[m] = "idle" /\ item' = item
        /\ item[m] = 1
    BY <1>0, <1>2, <1>3 DEF TypeInv, TypeOK, Begin, Proper
  <2>3. /\ Op(m)' = c.op /\ Nested(m)' = c.nested
        /\ pc'[m] = (IF c.nested THEN "child" ELSE "own")
        /\ tracked'[m] = (IF c.op \in Single THEN 1 ELSE 0)
    BY <1>0, <2>1, <2>2 DEF Op, Nested
  <2>4. Through(m)' = 0
    BY <2>2, <2>3 DEF Through
  <2>5. Weight(m)' = tracked'[m]
    BY <2>3, <2>4 DEF Weight
  <2> QED
    BY <1>0, <2>3, <2>5
<1>4. CASE WriteChild(m)
  <2>1. /\ pc[m] = "child" /\ pc'[m] = "purgeChild" /\ item' = item /\ Nested(m)
        /\ tracked'[m] = tracked[m] + 1 /\ tracked[m] + 1 <= MaxBatch
    BY <1>0, <1>2, <1>4 DEF WriteChild, OverLimit, Track, Tracks, Goto, Proper
  <2>2. Through(m)' = Through(m) /\ Going(m)
    BY <2>1 DEF Through, Going
  <2>3. Weight(m)' = Weight(m) + 1
    BY <1>2, <1>a, <2>1, <2>2 DEF Weight
  <2>4. Weight(m) \in Nat
    BY <1>2 DEF Weight
  <2> QED
    BY <1>2, <2>1, <2>2, <2>3, <2>4
<1>5. CASE PurgeChild(m)
  <2>1. /\ pc[m] = "purgeChild" /\ pc'[m] = "own" /\ item' = item /\ tracked' = tracked
    BY <1>0, <1>5 DEF PurgeChild, Goto
  <2>2. Through(m)' = Through(m) /\ Going(m)
    BY <2>1 DEF Through, Going
  <2>3. Weight(m)' = Weight(m)
    BY <1>2, <1>a, <2>1, <2>2 DEF Weight
  <2> QED
    BY <1>2, <2>1, <2>2, <2>3
<1>6. CASE WriteOwn(m)
  <2>1. /\ pc[m] = "own"
        /\ \/ item'[m] = item[m] + 1 /\ pc'[m] \in {"child", "own"}
              /\ (Nested(m) => pc'[m] = "child")
           \/ item'[m] = item[m] /\ pc'[m] = "commit"
    BY <1>0, <1>6 DEF WriteOwn, Goto, Start
  <2>2. /\ Op(m) \in Single => tracked'[m] = tracked[m]
        /\ Op(m) \notin Single => tracked'[m] = tracked[m] + 1 /\ tracked[m] + 1 <= MaxBatch
    BY <1>0, <1>6 DEF WriteOwn, OverLimit, Track, Tracks
  <2>3. Through(m)' = Through(m) + 1 /\ Going(m)
    BY <1>2, <2>1 DEF Through, Going
  <2>4. Weight(m)' = Weight(m) + (IF Op(m) \in Single THEN 0 ELSE 1) /\ Weight(m) \in Nat
    BY <1>2, <1>a, <2>1, <2>3 DEF Weight
  <2> QED
    BY <1>2, <2>1, <2>2, <2>3, <2>4
<1>7. CASE Fail(m)
  <2>1. /\ pc'[m] \in {"failed", "finally"} /\ tracked' = tracked
        /\ pc[m] \in {"child", "own", "commit"} /\ ~Commit(m)
    BY <1>0, <1>7 DEF Fail, Abort, Goto, InDatabase, Commit
  <2> QED
    BY <1>2, <1>b, <1>c, <2>1 DEF Going
<1>8. CASE Conflict(m)
  <2>1. /\ pc[m] \in {"child", "own", "commit"} /\ tracked' = tracked
        /\ \/ pc'[m] \in {"failed", "finally"}
           \/ pc'[m] = Start(m) /\ item'[m] = 1
    BY <1>0, <1>8 DEF Conflict, Abort, Goto, InDatabase
  <2>2. m \notin Committed' /\ Going(m)
    <3>1. ~Commit(m)
      BY <1>0, <1>8 DEF Conflict, Abort, Commit
    <3> QED
      BY <1>b, <1>c, <2>1, <3>1 DEF Going
  <2>3. CASE pc'[m] \in {"failed", "finally"}
    BY <1>2, <2>1, <2>2, <2>3 DEF Going
  <2>4. CASE pc'[m] = Start(m) /\ item'[m] = 1
    <3>1. pc'[m] \in {"child", "own"} /\ (Nested(m) => pc'[m] = "child")
      BY <2>4 DEF Start
    <3>2. Through(m)' = 0
      BY <2>4, <3>1 DEF Through
    <3>3. Weight(m)' <= Weight(m) /\ Weight(m) \in Nat /\ Weight(m)' \in Nat
      BY <1>2, <1>a, <2>1, <3>1, <3>2 DEF Weight
    <3> QED
      BY <1>2, <2>1, <2>2, <3>3
  <2> QED
    BY <2>1, <2>3, <2>4
<1>9. CASE Commit(m) \/ Announce(m) \/ Purge(m)
  <2>1. /\ pc[m] \in {"commit", "announce", "purge", "finally"} /\ pc'[m] = After(m)
        /\ item' = item /\ tracked' = tracked
        /\ Commit(m) => pc[m] = "commit"
    BY <1>0, <1>9 DEF Commit, Announce, Purge, Goto
  <2>2. /\ pc[m] # "finally" => pc'[m] \in {"announce", "purge", "done"} /\ Going(m)
        /\ pc[m] = "finally" => ~Going(m)' /\ m \notin Committed'
    BY <1>b, <1>c, <2>1, AfterSteps DEF Going
  <2>3. CASE pc[m] # "finally"
    <3>1. Through(m)' = Through(m)
      BY <2>1, <2>2, <2>3 DEF Through
    <3>2. Weight(m)' = Weight(m)
      BY <1>2, <1>a, <2>1, <2>2, <2>3, <3>1 DEF Weight
    <3> QED
      BY <1>2, <2>1, <2>2, <2>3, <3>2
  <2> QED
    BY <1>2, <2>1, <2>2, <2>3
<1>10. CASE Same(m) \/ Crash
  <2>1. /\ item'[m] = item[m] /\ tracked'[m] = tracked[m] /\ call'[m] = call[m]
        /\ pc'[m] = pc[m] \/ (pc'[m] = "lost" /\ pc[m] # "idle")
    BY <1>10 DEF Same, Crash, Running
  <2>2. m \in Committed' => m \in Committed
    <3>1. Commit(m) => ~(Same(m) \/ Crash)
      <4>1. Commit(m) => pc[m] = "commit" /\ pc'[m] = After(m) /\ faults' = faults
        BY <1>0 DEF Commit, Goto
      <4>2. Commit(m) => pc'[m] \in {"announce", "purge"}
        BY <4>1, AfterSteps
      <4> QED
        BY <1>2, <4>1, <4>2 DEF Same, Crash, Running
    <3> QED
      BY <1>10, <1>b, <3>1
  <2>3. Going(m)' \/ m \in Committed' => Going(m) \/ m \in Committed
    BY <2>1, <2>2 DEF Going
  <2>4. Going(m)' \/ m \in Committed' => Weight(m)' = Weight(m)
    <3>1. Op(m)' = Op(m) /\ Nested(m)' = Nested(m)
      BY <2>1 DEF Op, Nested
    <3>2. CASE pc'[m] = pc[m]
      <4>1. Through(m)' = Through(m)
        BY <2>1, <3>2 DEF Through
      <4> QED
        BY <3>1, <3>2, <4>1 DEF Weight
    <3>3. CASE pc'[m] = "lost"
      <4>1. SUFFICES ASSUME m \in Committed PROVE Weight(m)' = Weight(m)
        BY <2>2, <3>3 DEF Going
      <4>2. Through(m)' = Through(m) /\ pc[m] \notin {"purgeChild", "own"}
        BY <1>c, <2>1, <3>3, <4>1 DEF Through
      <4> QED
        BY <3>1, <3>3, <4>2 DEF Weight
    <3> QED
      BY <2>1, <3>2, <3>3
  <2> QED
    BY <1>2, <2>1, <2>3, <2>4
<1> QED
  BY <1>0, <1>3, <1>4, <1>5, <1>6, <1>7, <1>8, <1>9, <1>10, StepsAlone DEF StepOf

\* There are at most as many writes of a kind as payloads.
LEMMA WritesOfKind ==
    ASSUME NEW m, NEW n \in Nat, NEW kind
    PROVE  LET W == {WriteAt(m, i, kind) : i \in 1 .. n}
           IN  IsFiniteSet(W) /\ Cardinality(W) <= n
<1> DEFINE W == {WriteAt(m, i, kind) : i \in 1 .. n}
           f == [i \in 1 .. n |-> WriteAt(m, i, kind)]
<1>1. IsFiniteSet(1 .. n) /\ Cardinality(1 .. n) = n
  BY FS_Interval
<1>2. f \in Surjection(1 .. n, W)
  BY DEF Surjection
<1> HIDE DEF W, f
<1>3. IsFiniteSet(W) /\ Cardinality(W) <= n
  BY <1>1, <1>2, FS_Surjection
<1> QED
  BY <1>3 DEF W

\* So many rows a mutation can have.
LEMMA RowsAreFew ==
    ASSUME NEW m, Payloads(m) \in Nat
    PROVE  /\ IsFiniteSet(RowsOf(m)) /\ Cardinality(RowsOf(m)) \in Nat
           /\ Cardinality(RowsOf(m)) <= Payloads(m) + (IF Nested(m) THEN Payloads(m) ELSE 0)
<1> DEFINE own == {WriteAt(m, i, "own") : i \in 1 .. Payloads(m)}
           child == {WriteAt(m, i, "child") : i \in 1 .. Payloads(m)}
<1>1. /\ IsFiniteSet(own) /\ Cardinality(own) <= Payloads(m)
      /\ IsFiniteSet(child) /\ Cardinality(child) <= Payloads(m)
  BY WritesOfKind
<1>2. RowsOf(m) = IF Nested(m) THEN own \cup child ELSE own
  BY DEF RowsOf, Kinds
<1> HIDE DEF own, child
<1>3. /\ IsFiniteSet(own \cup child) /\ IsFiniteSet(own \cap child)
      /\ Cardinality(own \cup child) = Cardinality(own) + Cardinality(child)
                                       - Cardinality(own \cap child)
  BY <1>1, FS_Union, FS_Intersection
<1>4. /\ Cardinality(own) \in Nat /\ Cardinality(child) \in Nat
      /\ Cardinality(own \cap child) \in Nat /\ Cardinality(own \cup child) \in Nat
  BY <1>1, <1>3, FS_CardinalityType
<1> QED
  BY <1>1, <1>2, <1>3, <1>4

\* No transaction of more than MaxBatch items commits (LimitHolds).
THEOREM CommitsStayWithinTheLimit == Spec => []LimitHolds
<1>1. Init => LimitInv
  <2>1. Init => Committed = {}
    BY DEF Init, Committed
  <2> QED
    BY <2>1 DEF Init, LimitInv, Going
<1>2. SafeInv /\ LimitInv /\ [Next]_vars => LimitInv'
  BY LimitStep
<1>3. SafeInv /\ LimitInv => LimitHolds
  <2>1. SUFFICES ASSUME SafeInv, LimitInv, NEW m \in Committed
                 PROVE  Cardinality({w \in Rows : w.of = m}) <= MaxBatch
    BY DEF LimitHolds
  <2>2. /\ m \in Mutations /\ pc[m] # "idle"
        /\ Weight(m) = (IF Op(m) \in Single THEN 1 ELSE Payloads(m))
                       + (IF Nested(m) THEN Payloads(m) ELSE 0)
    BY <2>1, CommittedThrough DEF SafeInv
  <2>3. Payloads(m) \in Nat /\ (Op(m) \in Single => Payloads(m) = 1)
    BY <2>1, <2>2, CallType DEF SafeInv
  <2>4. /\ tracked[m] \in Nat /\ MaxBatch \in Nat
        /\ tracked[m] <= MaxBatch /\ Weight(m) <= tracked[m]
    BY <2>1, <2>2, SettingsAssumption DEF SafeInv, TypeInv, TypeOK, LimitInv
  <2>5. Payloads(m) + (IF Nested(m) THEN Payloads(m) ELSE 0) <= MaxBatch
    BY <2>2, <2>3, <2>4
  <2>6. Cardinality({w \in Rows : w.of = m}) <= Cardinality(RowsOf(m))
        /\ Cardinality({w \in Rows : w.of = m}) \in Nat
    BY <2>2, <2>3, RowsOfCommitted, RowsAreFew, FS_Subset, FS_CardinalityType
  <2>7. /\ Cardinality(RowsOf(m)) \in Nat
        /\ Cardinality(RowsOf(m)) <= Payloads(m) + (IF Nested(m) THEN Payloads(m) ELSE 0)
    BY <2>3, RowsAreFew
  <2> QED
    BY <2>3, <2>4, <2>5, <2>6, <2>7
<1> QED
  BY <1>1, <1>2, <1>3, SafeInductive, PTL DEF Spec

-----------------------------------------------------------------------------
(* The response cache.                                                       *)

\* Nobody knows of the commit of m before m purges the cache.
Pending(m) ==
    m \notin Known /\ ~(pc[m] = "announce" /\ Op(m) \in Changing)

\* What a response that was current when it was cached does not show, nobody
\* knows of yet; a reader knows of a commit; what it read shows that one.
FreshInv ==
    /\ \A e \in cache : ~(e.snap < e.at) =>
          \A i \in e.snap + 1 .. Len(commits) : Pending(commits[i])
    /\ \A q \in Readers :
          LET r == reader[q] IN
          /\ r.since \in 0 .. Len(commits)
          /\ r.since # 0 => commits[r.since] \in Known
          /\ r.pc = "fill" => r.since <= r.snap
    /\ ServedFresh

\* What clients know they do not forget, and nobody knows of more without a
\* step of a mutation.
LEMMA KnownStays ==
    ASSUME TypeInv, [Next]_vars
    PROVE  Known \subseteq Known'
<1>1. SUFFICES ASSUME NEW m \in Known PROVE m \in Known'
  OBVIOUS
<1>2. m \in Mutations /\ pc[m] # "idle" /\ emitted \subseteq emitted'
  BY EmittedStep DEF Known
<1>3. pc'[m] # "idle" /\ Op(m)' = Op(m)
  BY <1>2, CallStays
<1>4. CASE pc[m] = "done"
  <2>1. ~StepOf(m)
    BY <1>4 DEF StepOf, Begin, WriteChild, PurgeChild, WriteOwn, Fail, Conflict, InDatabase,
       Commit, Announce, Purge
  <2>2. pc'[m] = "done"
    BY <1>2, <1>4, <2>1, StepsAlone DEF Same, Crash, Running
  <2> QED
    BY <1>2, <2>2 DEF Known
<1>5. CASE Op(m) \in Changing /\ \E w \in emitted : w.of = m /\ w.kind = "own"
  BY <1>2, <1>3, <1>5 DEF Known
<1> QED
  BY <1>4, <1>5 DEF Known

\* A commit that nobody knows of stays so as long as the cache is not cleared.
LEMMA PendingStays ==
    ASSUME SafeInv, [Next]_vars, cache' # {}, NEW m \in Committed, Pending(m)
    PROVE  Pending(m)'
<1>0. /\ TypeInv /\ CommitInv /\ EventInv /\ m \in Mutations /\ pc \in [Mutations -> Pcs]
      /\ pc[m] \in {"announce", "purge", "lost"}
  <2>1. TypeInv /\ CommitInv /\ EventInv /\ m \in Mutations
    BY CommittedStep DEF SafeInv
  <2>2. pc[m] \in {"announce", "purge", "done", "lost"} /\ pc[m] # "done"
    BY <2>1 DEF CommitInv, Pending, Known
  <2> QED
    BY <2>1, <2>2 DEF TypeInv, TypeOK
<1>1. pc[m] # "idle" /\ Op(m)' = Op(m) /\ pc'[m] # "idle"
  BY <1>0, CallStays
<1>2. Op(m) \in Creating \cup Changing \cup InTransaction
  BY <1>0, <1>1, CallType
<1>3. /\ pc[m] = "announce" => Op(m) \in Creating /\ Op(m) \notin Changing
      /\ ~(Op(m) \in Changing /\ \E w \in emitted : w.of = m /\ w.kind = "own")
  BY <1>0, <1>1 DEF TypeInv, Proper, Creating, Changing, Pending, Known
\* Only m itself announces m.
<1>4. ASSUME NEW w \in emitted', w.of = m, ~Announce(m) PROVE w \in emitted
  <2>1. ASSUME NEW n \in Mutations, WriteOwn(n), w \in PayloadEvents(n) PROVE FALSE
    BY <1>0, <1>4, <2>1 DEF PayloadEvents, WriteOf, WriteOwn
  <2>2. ASSUME NEW n \in Mutations, Announce(n), w \in queue[n] \cup {WriteOf(n, "own")}
        PROVE  n = m
    BY <1>0, <1>4, <2>2 DEF EventInv, WriteOf
  <2> QED
    BY <1>0, <1>4, <2>1, <2>2, EmittedStep
<1>5. CASE Announce(m)
  <2>1. pc[m] = "announce" /\ pc'[m] = After(m)
    BY <1>0, <1>5 DEF Announce, Goto
  <2>2. pc'[m] = "purge" /\ Op(m)' \notin Changing
    BY <1>1, <1>3, <2>1, AfterSteps
  <2> QED
    BY <2>2 DEF Pending, Known
<1>6. CASE ~Announce(m)
  <2>1. ~StepOf(m)
    BY <1>0, <1>6 DEF StepOf, Begin, WriteChild, PurgeChild, WriteOwn, Fail, Conflict, InDatabase,
       Commit, Purge
  <2>2. pc'[m] \in {pc[m], "lost"}
    BY <1>0, <2>1, StepsAlone DEF Same, Crash
  <2>3. ~(Op(m)' \in Changing /\ \E w \in emitted' : w.of = m /\ w.kind = "own")
    BY <1>1, <1>3, <1>4, <1>6
  <2>4. pc'[m] # "done" /\ ~(pc'[m] = "announce" /\ Op(m)' \in Changing)
    BY <1>0, <1>1, <1>3, <2>2
  <2> QED
    BY <2>3, <2>4 DEF Pending, Known
<1> QED
  BY <1>5, <1>6

\* Nobody knows of what has just been committed.
LEMMA CommitIsPending ==
    ASSUME SafeInv, [Next]_vars, NEW m \in Mutations, Commit(m)
    PROVE  Pending(m)'
<1>0. /\ TypeInv /\ CommitInv /\ EventInv /\ pc \in [Mutations -> Pcs]
      /\ pc[m] = "commit" /\ pc'[m] = After(m) /\ emitted' = emitted
  BY DEF SafeInv, TypeInv, TypeOK, Commit, Goto
<1>1. Op(m)' = Op(m)
  BY <1>0, CallStays
<1>2. m \notin Committed
  BY <1>0 DEF CommitInv
<1>3. Op(m) \in Changing => ~\E w \in emitted : w.of = m
  BY <1>0, <1>2 DEF EventInv, DeferredEventsHappened, Changing, InTransaction
<1>4. pc'[m] = IF Op(m) \in Creating THEN "announce" ELSE "purge"
  BY <1>0, AfterSteps
<1>5. pc'[m] # "done" /\ ~(pc'[m] = "announce" /\ Op(m) \in Changing)
  BY <1>4 DEF Creating, Changing
<1> QED
  BY <1>0, <1>1, <1>3, <1>5 DEF Pending, Known

\* The cached entry stays one whose missing commits nobody knows of.
LEMMA CacheStays ==
    ASSUME SafeInv, FreshInv, [Next]_vars, NEW e \in cache, e \in cache', ~(e.snap < e.at)
    PROVE  \A i \in e.snap + 1 .. Len(commits') : \A m : m = commits'[i] => Pending(m)'
<1>0. /\ TypeInv /\ commits \in Seq(Mutations) /\ Len(commits) \in Nat
      /\ e.snap \in Nat
  BY DEF SafeInv, TypeInv, TypeOK, Entry
<1>1. SUFFICES ASSUME NEW i \in e.snap + 1 .. Len(commits'), NEW m, m = commits'[i]
               PROVE  Pending(m)'
  OBVIOUS
<1>2. ASSUME i \in e.snap + 1 .. Len(commits), m = commits[i] PROVE Pending(m)'
  <2>1. m \in Committed /\ Pending(m)
    BY <1>0, <1>2 DEF FreshInv, Committed
  <2> QED
    BY <2>1, PendingStays
<1>3. CASE commits' = commits
  BY <1>1, <1>2, <1>3
<1>4. ASSUME NEW n \in Mutations, Commit(n), commits' = Append(commits, n) PROVE Pending(m)'
  <2>1. /\ Len(commits') = Len(commits) + 1 /\ commits'[Len(commits) + 1] = n
        /\ \A j \in 1 .. Len(commits) : commits'[j] = commits[j]
    BY <1>0, <1>4
  <2>2. CASE i \in e.snap + 1 .. Len(commits)
    <3>1. m = commits[i]
      BY <1>0, <1>1, <2>1, <2>2
    <3> QED
      BY <1>2, <2>2, <3>1
  <2>3. CASE i = Len(commits) + 1
    BY <1>1, <1>4, <2>1, <2>3, CommitIsPending
  <2> QED
    BY <1>0, <1>1, <2>1, <2>2, <2>3
<1> QED
  BY <1>0, <1>3, <1>4, CommittedStep

\* Of one client.
ReaderInv(q) ==
    LET r == reader[q] IN
    /\ r.since \in 0 .. Len(commits)
    /\ r.since # 0 => commits[r.since] \in Known
    /\ r.pc = "fill" => r.since <= r.snap
    /\ r.pc = "replied" /\ r.snap < r.since => r.snap < r.at

CacheInv ==
    \A e \in cache : ~(e.snap < e.at) =>
        \A i \in e.snap + 1 .. Len(commits) : Pending(commits[i])

\* The invariant in these parts.
LEMMA FreshParts == FreshInv <=> CacheInv /\ \A q \in Readers : ReaderInv(q)
  BY DEF FreshInv, CacheInv, ReaderInv, ServedFresh

\* A client whose request is left alone, or that asks for nothing.
LEMMA ReaderStays ==
    ASSUME SafeInv, [Next]_vars, NEW q \in Readers, ReaderInv(q),
           \/ reader'[q] = reader[q]
           \/ reader'[q] = [pc |-> "idle", since |-> 0, snap |-> 0, at |-> 0]
    PROVE  ReaderInv(q)'
<1>0. TypeInv /\ commits \in Seq(Mutations) /\ Len(commits) \in Nat
  BY DEF SafeInv, TypeInv, TypeOK
<1>1. Len(commits') \in Nat /\ Len(commits) <= Len(commits')
      /\ \A i \in 1 .. Len(commits) : commits'[i] = commits[i]
  <2>1. ASSUME NEW m \in Mutations, commits' = Append(commits, m)
        PROVE  /\ Len(commits') = Len(commits) + 1
               /\ \A i \in 1 .. Len(commits) : commits'[i] = commits[i]
    BY <1>0, <2>1
  <2>2. commits' = commits \/ \E m \in Mutations : commits' = Append(commits, m)
    BY <1>0, CommittedStep
  <2> QED
    BY <1>0, <2>1, <2>2
<1>2. Known \subseteq Known'
  BY <1>0, KnownStays
<1>3. CASE reader'[q] = reader[q]
  <2>1. /\ reader[q].since \in 0 .. Len(commits)
        /\ reader[q].since # 0 => commits[reader[q].since] \in Known
    BY DEF ReaderInv
  <2>2. /\ reader[q].since \in 0 .. Len(commits')
        /\ reader[q].since # 0 => commits'[reader[q].since] \in Known'
    BY <1>0, <1>1, <1>2, <2>1
  <2> QED
    BY <1>3, <2>2 DEF ReaderInv
<1>4. CASE reader'[q] = [pc |-> "idle", since |-> 0, snap |-> 0, at |-> 0]
  BY <1>1, <1>4 DEF ReaderInv
<1> QED
  BY <1>3, <1>4

\* What one client does keeps what it knows and what it is served.
LEMMA ReaderStep ==
    ASSUME SafeInv, FreshInv, NEW q \in Readers, Request(q) \/ Lookup(q) \/ Read(q) \/ Fill(q)
    PROVE  ReaderInv(q)' /\ CacheInv'
<1>0. /\ TypeInv /\ commits \in Seq(Mutations) /\ Len(commits) \in Nat
      /\ reader \in [Readers -> Get] /\ cache \subseteq Entry
      /\ ReaderInv(q) /\ CacheInv
  BY FreshParts DEF SafeInv, TypeInv, TypeOK
<1>1. reader[q] \in Get /\ reader[q].since \in Nat /\ reader[q].snap \in Nat
  BY <1>0 DEF Get
<1>2. /\ commits' = commits /\ call' = call /\ pc' = pc /\ emitted' = emitted
  BY DEF Request, Lookup, Read, Fill, mutation
<1>3. Known' = Known
  BY <1>2 DEF Known, Op
<1>4. cache' = cache => CacheInv'
  <2>1. \A m : Pending(m)' <=> Pending(m)
    BY <1>2, <1>3 DEF Pending, Op
  <2> QED
    BY <1>0, <1>2, <2>1 DEF CacheInv, Pending, Op
<1>5. CASE Request(q)
  <2>1. /\ reader'[q] = [pc |-> "lookup", since |-> UpTo(Known), snap |-> 0, at |-> 0]
        /\ cache' = cache
    BY <1>0, <1>5 DEF Request
  <2>2. IsUpTo(UpTo(Known), Known)
    BY <1>0, UpToIsLast DEF Known
  <2>3. ReaderInv(q)'
    BY <1>2, <1>3, <2>1, <2>2 DEF ReaderInv, IsUpTo
  <2> QED
    BY <1>4, <2>1, <2>3
<1>6. CASE Lookup(q)
  <2>1. cache' = cache
    BY <1>6 DEF Lookup
  <2>2. CASE reader' = [reader EXCEPT ![q].pc = "read"]
    <3>1. reader'[q] = [reader[q] EXCEPT !.pc = "read"]
      BY <1>0, <2>2
    <3>2. reader'[q].pc = "read" /\ reader'[q].since = reader[q].since
      BY <1>1, <3>1 DEF Get
    <3> QED
      BY <1>0, <1>2, <1>3, <1>4, <2>1, <3>2 DEF ReaderInv
  <2>3. ASSUME NEW e \in cache,
               reader' = [reader EXCEPT ![q] = [@ EXCEPT
                            !.pc = "replied", !.snap = e.snap, !.at = e.at]]
        PROVE  ReaderInv(q)'
    <3>1. reader'[q] = [reader[q] EXCEPT !.pc = "replied", !.snap = e.snap, !.at = e.at]
      BY <1>0, <2>3
    <3>2. /\ reader'[q].pc = "replied" /\ reader'[q].since = reader[q].since
          /\ reader'[q].snap = e.snap /\ reader'[q].at = e.at
      BY <1>1, <3>1 DEF Get
    <3>3. e.snap \in Nat /\ e.at \in Nat
      BY <1>0 DEF Entry
    <3>4. e.snap < reader[q].since => e.snap < e.at
      <4>1. SUFFICES ASSUME e.snap < reader[q].since, ~(e.snap < e.at) PROVE FALSE
        OBVIOUS
      <4>2. /\ reader[q].since \in 0 .. Len(commits)
            /\ reader[q].since # 0 => commits[reader[q].since] \in Known
        BY <1>0 DEF ReaderInv
      <4>3. reader[q].since \in e.snap + 1 .. Len(commits) /\ reader[q].since # 0
        BY <1>0, <1>1, <3>3, <4>1, <4>2
      <4>4. Pending(commits[reader[q].since])
        BY <1>0, <4>1, <4>3 DEF CacheInv
      <4> QED
        BY <4>2, <4>3, <4>4 DEF Pending
    <3> QED
      BY <1>0, <1>2, <1>3, <3>2, <3>4 DEF ReaderInv
  <2> QED
    BY <1>4, <1>6, <2>1, <2>2, <2>3 DEF Lookup
<1>7. CASE Read(q)
  <2>1. /\ reader'[q] = [reader[q] EXCEPT !.pc = "fill", !.snap = Len(commits)]
        /\ cache' = cache
    BY <1>0, <1>7 DEF Read
  <2>2. /\ reader'[q].pc = "fill" /\ reader'[q].since = reader[q].since
        /\ reader'[q].snap = Len(commits)
    BY <1>1, <2>1 DEF Get
  <2>3. reader[q].since <= Len(commits)
    BY <1>0 DEF ReaderInv
  <2> QED
    BY <1>0, <1>2, <1>3, <1>4, <2>1, <2>2, <2>3 DEF ReaderInv
<1>8. CASE Fill(q)
  <2>1. reader'[q] = [reader[q] EXCEPT !.pc = "replied", !.at = Len(commits)]
        /\ reader[q].pc = "fill"
    BY <1>0, <1>8 DEF Fill
  <2>2. /\ reader'[q].pc = "replied" /\ reader'[q].since = reader[q].since
        /\ reader'[q].snap = reader[q].snap
    BY <1>1, <2>1 DEF Get
  <2>3. reader[q].since <= reader[q].snap
    BY <1>0, <2>1 DEF ReaderInv
  <2>4. ReaderInv(q)'
    BY <1>0, <1>1, <1>2, <1>3, <2>2, <2>3 DEF ReaderInv
  <2>5. CASE cache' = {[snap |-> reader[q].snap, at |-> Len(commits)]}
    <3>1. SUFFICES ASSUME ~(reader[q].snap < Len(commits)),
                          NEW i \in reader[q].snap + 1 .. Len(commits)
                   PROVE  FALSE
      BY <1>2, <2>4, <2>5 DEF CacheInv
    <3> QED
      BY <1>0, <1>1, <3>1
  <2> QED
    BY <1>4, <1>8, <2>4, <2>5 DEF Fill
<1> QED
  BY <1>5, <1>6, <1>7, <1>8

\* What the cache holds and what clients are served stays as fresh as that.
LEMMA FreshStep ==
    ASSUME SafeInv, FreshInv, [Next]_vars
    PROVE  FreshInv'
<1>0. /\ CacheInv /\ \A q \in Readers : ReaderInv(q)
      /\ TypeInv /\ reader \in [Readers -> Get]
  BY FreshParts DEF SafeInv, TypeInv, TypeOK
<1>1. cache' \subseteq cache => CacheInv'
  <2>1. SUFFICES ASSUME cache' \subseteq cache, NEW e \in cache', ~(e.snap < e.at)
                 PROVE  \A i \in e.snap + 1 .. Len(commits') : Pending(commits[i])'
    BY DEF CacheInv
  <2>2. \A i \in e.snap + 1 .. Len(commits') : \A m : m = commits'[i] => Pending(m)'
    BY <2>1, CacheStays
  <2> QED
    BY <2>2 DEF Pending, Op
<1>2. ASSUME NEW q \in Readers, Request(q) \/ Lookup(q) \/ Read(q) \/ Fill(q)
      PROVE  FreshInv'
  <2>1. ReaderInv(q)' /\ CacheInv'
    BY <1>2, ReaderStep
  <2>2. ASSUME NEW p \in Readers, p # q PROVE ReaderInv(p)'
    <3>1. reader'[p] = reader[p]
      BY <1>0, <1>2, <2>2 DEF Request, Lookup, Read, Fill
    <3> QED
      BY <1>0, <3>1, ReaderStays
  <2>3. \A p \in Readers : ReaderInv(p)'
    BY <2>1, <2>2
  <2> QED
    BY <2>1, <2>3 DEF FreshInv, CacheInv, ReaderInv, ServedFresh
<1>3. ASSUME reader' = reader, cache' \subseteq cache PROVE FreshInv'
  <2>1. \A q \in Readers : ReaderInv(q)'
    BY <1>0, <1>3, ReaderStays
  <2> QED
    BY <1>1, <1>3, <2>1 DEF FreshInv, CacheInv, ReaderInv, ServedFresh
<1>4. ASSUME NEW m \in Mutations, StepOf(m) PROVE reader' = reader /\ cache' \subseteq cache
  BY <1>4 DEF StepOf, Begin, WriteChild, PurgeChild, WriteOwn, Fail, Conflict, Commit,
     Announce, Purge, client
<1>5. CASE Expire \/ UNCHANGED vars
  <2>1. reader' = reader /\ cache' \subseteq cache
    BY <1>5 DEF Expire, client, vars
  <2> QED
    BY <1>3, <2>1
<1>6. CASE Crash
  <2>1. cache' \subseteq cache /\ \A q \in Readers :
            reader'[q] = [pc |-> "idle", since |-> 0, snap |-> 0, at |-> 0]
    BY <1>6 DEF Crash
  <2>2. \A q \in Readers : ReaderInv(q)'
    BY <1>0, <2>1, ReaderStays
  <2> QED
    BY <1>1, <2>1, <2>2 DEF FreshInv, CacheInv, ReaderInv, ServedFresh
<1> QED
  BY <1>2, <1>3, <1>4, <1>5, <1>6 DEF Next, StepOf

\* A response that was current when it was cached is not served to a request
\* made after a client could know of a newer commit (ServedFresh).
THEOREM CachedResponsesAreFresh == Spec => []ServedFresh
<1>1. Init => FreshInv
  <2>1. SUFFICES ASSUME Init PROVE CacheInv /\ \A q \in Readers : ReaderInv(q)
    BY FreshParts
  <2>2. Len(commits) = 0
    BY <2>1 DEF Init
  <2> QED
    BY <2>1, <2>2 DEF Init, CacheInv, ReaderInv
<1>2. SafeInv /\ FreshInv /\ [Next]_vars => FreshInv'
  BY FreshStep
<1>3. FreshInv => ServedFresh
  BY DEF FreshInv
<1> QED
  BY <1>1, <1>2, <1>3, SafeInductive, PTL DEF Spec
=============================================================================
