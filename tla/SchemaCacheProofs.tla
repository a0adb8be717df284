-------------------------- MODULE SchemaCacheProofs --------------------------
(* What holds of SchemaCache for every number of processes, calls,         *)
(* attempts, faults and schema changes.                                    *)
EXTENDS SchemaCache, FiniteSetTheorems, TLAPS

-----------------------------------------------------------------------------
(* Lemmas about the operators that change frames.                          *)

\* The empty schema, which stands for `undefined`, is a schema.
LEMMA AbsentType == Absent \in Schema
BY BoundAssumption DEF Absent, Stretch, Schema, Version

\* What is read between two versions is a schema.
LEMMA StretchType ==
    ASSUME NEW v \in Version, NEW w \in Version
    PROVE  /\ Stretch(v, w) \in Schema
           /\ Stretch(v, w).from = v /\ Stretch(v, w).upto = w
BY DEF Stretch, Schema

\* A new invocation is a well-formed frame that does not hold the lock.
LEMMA NewFrameType ==
    ASSUME NEW c \in Calls, NEW n \in Nat
    PROVE  /\ NewFrame(c, n) \in Frame
           /\ NewFrame(c, n).pc \in {"loop", "bypass", "sharedHash"}
<1>1. Entry(c, n) \in {"loop", "bypass", "sharedHash"}
  BY BoundAssumption DEF Entry
<1> QED
  BY <1>1, AbsentType DEF NewFrame, Frame, Pcs, Outcomes

\* What the frames are made of: the part of TypeOK that actions disturb most.
FrameOK == Live \subseteq Path /\ frame \in [Live -> Frame]

\* Settling an invocation removes it and waiting frames, nothing else.
LEMMA SettleFrames ==
    ASSUME FrameOK, NEW f \in Live, NEW out \in Outcomes, Settle(f, out)
    PROVE  /\ FrameOK'
           /\ Live' \subseteq Live \ {f}
           /\ \A g \in Live' : frame'[g] = frame[g]
           /\ \A g \in Live \ {f} : frame[g].pc # "waiting" => g \in Live'
<1> DEFINE ended == {f} \cup Above(f)
<1>1. frame' = [g \in Live \ ended |-> frame[g]]
  BY DEF Settle
<1>2. Live' = Live \ ended
  BY <1>1 DEF Live
<1>3. \A g \in Above(f) : frame[g].pc = "waiting"
  BY DEF Above
<1> QED
  BY <1>1, <1>2, <1>3 DEF FrameOK

\* Settling reports the outcome to the caller at most.
LEMMA SettleStatus ==
    ASSUME FrameOK, NEW f \in Live, NEW out \in Outcomes, Settle(f, out),
           status \in [Calls -> {"idle", "running", "lost"} \cup Outcomes]
    PROVE  status' \in [Calls -> {"idle", "running", "lost"} \cup Outcomes]
<1>1. frame[f].call \in Calls
  BY DEF FrameOK, Frame
<1>2. \/ status' = [status EXCEPT ![frame[f].call] = out]
      \/ status' = status
  BY DEF Settle
<1> QED
  BY <1>1, <1>2

\* Callbacks add fresh invocations and leave the frames there were where
\* they stand.
LEMMA RunCallbacksFrames ==
    ASSUME FrameOK, NEW F \in SUBSET Live, RunCallbacks(F)
    PROVE  /\ FrameOK'
           /\ Live \subseteq Live'
           /\ \A g \in Live : /\ frame'[g].pc = frame[g].pc
                              /\ frame'[g].pid = frame[g].pid
                              /\ frame'[g].call = frame[g].call
                              /\ frame'[g].seen = frame[g].seen
           /\ \A g \in Live' \ Live :
                 frame'[g].pc \in {"loop", "bypass", "sharedHash"}
<1> DEFINE Up(g) == CHOOSE f \in F : g = Child(f)
           New(g) == NewFrame(frame[Up(g)].call, frame[Up(g)].attempt + 1)
           D == Live \cup {Child(f) : f \in F}
<1>1. frame' = [g \in D |-> IF g \in F THEN [frame[g] EXCEPT !.fired = @ + 1]
                            ELSE IF g \in Live THEN frame[g] ELSE New(g)]
  BY DEF RunCallbacks
<1>2. Live' = D
  BY <1>1 DEF Live
<1>3. \A g \in Live : frame[g] \in Frame
  BY DEF FrameOK
<1>4. \A g \in D \ Live : Up(g) \in F
  OBVIOUS
<1>5. \A g \in D \ Live : New(g) \in Frame
                          /\ New(g).pc \in {"loop", "bypass", "sharedHash"}
  <2> TAKE g \in D \ Live
  <2>1. frame[Up(g)].call \in Calls /\ frame[Up(g)].attempt + 1 \in Nat
    BY <1>3, <1>4 DEF Frame
  <2> QED
    BY <2>1, NewFrameType
<1>6. D \subseteq Path
  <2>1. \A f \in F : Child(f) \in Path
    <3> TAKE f \in F
    <3>1. f \in Seq(Calls \cup Nat) /\ frame[f].fired + 1 \in Calls \cup Nat
      BY <1>3 DEF FrameOK, Frame, Path
    <3> QED
      BY <3>1 DEF Child, Path
  <2> QED
    BY <2>1 DEF FrameOK
<1>7. \A g \in F : /\ [frame[g] EXCEPT !.fired = @ + 1] \in Frame
                   /\ [frame[g] EXCEPT !.fired = @ + 1].pc = frame[g].pc
                   /\ [frame[g] EXCEPT !.fired = @ + 1].pid = frame[g].pid
                   /\ [frame[g] EXCEPT !.fired = @ + 1].call = frame[g].call
                   /\ [frame[g] EXCEPT !.fired = @ + 1].seen = frame[g].seen
  BY <1>3 DEF Frame
<1>8. frame' \in [D -> Frame]
  BY <1>1, <1>3, <1>5, <1>7
<1> HIDE DEF New, Up
<1>9. \A g \in Live : /\ frame'[g].pc = frame[g].pc
                      /\ frame'[g].pid = frame[g].pid
                      /\ frame'[g].call = frame[g].call
                      /\ frame'[g].seen = frame[g].seen
  BY <1>1, <1>7
<1>10. \A g \in D \ Live : frame'[g].pc \in {"loop", "bypass", "sharedHash"}
  BY <1>1, <1>5
<1> QED
  BY <1>2, <1>6, <1>8, <1>9, <1>10 DEF FrameOK

-----------------------------------------------------------------------------
(* Type correctness.                                                       *)

\* A step of one frame that returns keeps the frames, the statuses and the
\* subscriptions well-formed.
LEMMA ReturnType ==
    ASSUME TypeOK, NEW f \in Live, NEW out \in Outcomes, Return(f, out)
    PROVE  /\ FrameOK'
           /\ status' \in [Calls -> {"idle", "running", "lost"} \cup Outcomes]
           /\ channel' \in [Procs -> {"off", "pending", "on"}]
<1>1. FrameOK /\ Settle(f, out) /\ Unsubscribe(f)
  BY DEF TypeOK, FrameOK, Return
<1>2. FrameOK'
  BY <1>1, SettleFrames
<1>3. status' \in [Calls -> {"idle", "running", "lost"} \cup Outcomes]
  BY <1>1, SettleStatus DEF TypeOK
<1>4. channel' \in [Procs -> {"off", "pending", "on"}]
  BY <1>1 DEF TypeOK, Unsubscribe
<1> QED
  BY <1>2, <1>3, <1>4

\* A frame that moves to another place in the code stays well-formed.
LEMMA MoveType ==
    ASSUME FrameOK, NEW f \in Live, NEW pc \in Pcs, NEW v \in Schema,
           NEW n \in Nat, NEW out \in Outcomes,
           \/ Goto(f, pc) \/ GotoWith(f, pc, v)
           \/ frame' = [frame EXCEPT ![f].pid = n, ![f].pc = pc]
           \/ frame' = [frame EXCEPT ![f].pc = pc, ![f].out = out]
    PROVE  /\ FrameOK' /\ Live' = Live
           /\ frame'[f].pc = pc
           /\ frame'[f].call = frame[f].call
           /\ \A g \in Live \ {f} : frame'[g] = frame[g]
<1>0. frame[f] \in Frame
  BY DEF FrameOK
<1>1. PICK r \in Frame :
        /\ r.pc = pc /\ r.call = frame[f].call
        /\ frame' = [frame EXCEPT ![f] = r]
  <2>1. CASE Goto(f, pc)
    <3>1. frame' = [frame EXCEPT ![f] = [frame[f] EXCEPT !.pc = pc]]
      BY <2>1 DEF Goto
    <3> QED
      BY <3>1, <1>0 DEF Frame
  <2>2. CASE GotoWith(f, pc, v)
    <3>1. frame' = [frame EXCEPT ![f] = [frame[f] EXCEPT !.pc = pc, !.seen = v]]
      BY <2>2, <1>0 DEF GotoWith, FrameOK, Frame
    <3> QED
      BY <3>1, <1>0 DEF Frame
  <2>3. CASE frame' = [frame EXCEPT ![f].pid = n, ![f].pc = pc]
    <3>1. frame' = [frame EXCEPT ![f] = [frame[f] EXCEPT !.pid = n, !.pc = pc]]
      BY <2>3, <1>0 DEF FrameOK, Frame
    <3> QED
      BY <3>1, <1>0 DEF Frame
  <2>4. CASE frame' = [frame EXCEPT ![f].pc = pc, ![f].out = out]
    <3>1. frame' = [frame EXCEPT ![f] = [frame[f] EXCEPT !.pc = pc, !.out = out]]
      BY <2>4, <1>0 DEF FrameOK, Frame
    <3> QED
      BY <3>1, <1>0 DEF Frame
  <2> QED
    BY <2>1, <2>2, <2>3, <2>4
<1>2. Live' = Live
  BY <1>1 DEF Live, FrameOK
<1> QED
  BY <1>1, <1>2 DEF FrameOK

\* Nothing runs at first and every store is empty.
LEMMA InitType == Init => TypeOK
BY HomeAssumption, BoundAssumption, AbsentType
   DEF Init, TypeOK, Live, Version, Frame, Path

\* One frame's step keeps the types.
LEMMA StepType ==
    ASSUME TypeOK, NEW f \in Live, Step(f)
    PROVE  TypeOK'
<1> USE DEF TypeOK, store, bus, env
<1>0. FrameOK /\ frame[f] \in Frame /\ frame[f].call \in Calls
      /\ frame[f].seen \in Schema /\ frame[f].seen.from \in Version
      /\ Proc(f) \in Procs
      /\ frame[f].out \in Outcomes /\ frame[f].pid \in Nat
  BY HomeAssumption DEF FrameOK, Frame, Proc, Schema
<1>a. FrameOK' => Live' \subseteq Path /\ frame' \in [Live' -> Frame]
  BY DEF FrameOK
<1>b. Absent \in Schema /\ "ok" \in Outcomes /\ "failed" \in Outcomes
      /\ "loop" \in Outcomes
  BY AbsentType DEF Outcomes
<1>c. ASSUME NEW k \in Faults, Fault(k)
      PROVE  faults' \in [Faults -> Nat]
  BY <1>c DEF Fault
<1>1. CASE GiveUp(f)
  BY <1>1, <1>0, <1>a, <1>b, ReturnType DEF GiveUp
<1>2. CASE ReadBypass(f)
  <2>1. CASE Return(f, "failed")
    BY <1>2, <2>1, <1>0, <1>a, <1>b, <1>c, ReturnType DEF ReadBypass, Faults
  <2>2. CASE Goto(f, "bypassRest") /\ UNCHANGED <<status, channel, faults>>
    <3>1. FrameOK'
      BY <2>2, <1>0, <1>b, MoveType DEF Pcs
    <3> QED
      BY <1>2, <2>2, <1>a, <3>1 DEF ReadBypass
  <2> QED
    BY <1>2, <2>1, <2>2 DEF ReadBypass
<1>16. CASE ReadBypassRest(f)
  BY <1>16, <1>0, <1>a, <1>b, <1>c, ReturnType DEF ReadBypassRest, Faults
<1>3. CASE GetSharedHash(f)
  <2>1. FrameOK'
    BY <1>3, <1>0, <1>b, MoveType DEF GetSharedHash, Pcs
  <2> QED
    BY <1>3, <1>a, <2>1 DEF GetSharedHash
<1>4. CASE GetLocalHash(f)
  <2>1. FrameOK'
    BY <1>4, <1>0, <1>b, MoveType DEF GetLocalHash, Pcs
  <2> QED
    BY <1>4, <1>a, <2>1 DEF GetLocalHash
<1>5. CASE GetLocalSchema(f)
  <2>1. CASE localSchema[Proc(f)] = Absent
    <3>1. FrameOK'
      BY <1>5, <2>1, <1>0, <1>b, MoveType DEF GetLocalSchema, Pcs
    <3> QED
      BY <1>5, <2>1, <1>a, <3>1 DEF GetLocalSchema
  <2>2. CASE localSchema[Proc(f)] # Absent
    <3>1. Return(f, "ok") /\ UNCHANGED <<sharedHash, localSchema, localHash, lock, inbox, env>>
          /\ taken' = [taken EXCEPT ![Proc(f)] = localSchema[Proc(f)]]
      BY <1>5, <2>2 DEF GetLocalSchema
    <3> QED
      BY <3>1, <1>0, <1>a, <1>b, ReturnType
  <2> QED
    BY <2>1, <2>2
<1>6. CASE Increment(f)
  <2>1. lock + 1 \in Nat /\ Role(lock + 1) \in Pcs /\ "reset" \in Pcs
    BY DEF Role, Pcs
  <2>2. FrameOK'
    BY <1>6, <1>0, <1>b, <2>1, MoveType DEF Increment
  <2> QED
    BY <1>6, <1>a, <2>1, <2>2 DEF Increment
<1>7. CASE Reset(f)
  <2>1. FrameOK'
    BY <1>7, <1>0, <1>b, MoveType DEF Reset, Role, Pcs
  <2> QED
    BY <1>7, <1>a, <2>1 DEF Reset
<1>8. CASE Subscribe(f)
  <2>1. FrameOK'
    BY <1>8, <1>0, <1>b, MoveType DEF Subscribe, Pcs
  <2> QED
    BY <1>8, <1>0, <1>a, <2>1 DEF Subscribe
<1>9. CASE Timeout(f)
  <2>1. FrameOK'
    BY <1>9, <1>0, RunCallbacksFrames DEF Timeout
  <2> QED
    BY <1>9, <1>a, <1>c, <2>1 DEF Timeout, Faults
<1>10. CASE ReadDatabase(f)
  <2>1. FrameOK'
    BY <1>10, <1>0, <1>b, StretchType, MoveType DEF ReadDatabase, Pcs
  <2> QED
    BY <1>10, <1>a, <1>c, <2>1 DEF ReadDatabase, Faults
<1>17. CASE ReadRest(f)
  <2>1. FrameOK'
    BY <1>17, <1>0, <1>b, StretchType, MoveType DEF ReadRest, Pcs
  <2> QED
    BY <1>17, <1>a, <1>c, <2>1 DEF ReadRest, Faults
<1>11. CASE SetSharedHash(f)
  <2>1. FrameOK'
    BY <1>11, <1>0, <1>b, MoveType DEF SetSharedHash, Pcs
  <2> QED
    BY <1>11, <1>0, <1>a, <2>1 DEF SetSharedHash
<1>12. CASE SetLocalSchema(f)
  <2>1. FrameOK'
    BY <1>12, <1>0, <1>b, MoveType DEF SetLocalSchema, Pcs
  <2> QED
    BY <1>12, <1>0, <1>a, <2>1 DEF SetLocalSchema
<1>13. CASE SetLocalHash(f)
  <2>1. FrameOK'
    BY <1>13, <1>0, <1>b, MoveType DEF SetLocalHash, Pcs
  <2> QED
    BY <1>13, <1>0, <1>a, <2>1 DEF SetLocalHash
<1>14. CASE Release(f)
  <2>1. FrameOK'
    BY <1>14, <1>0, <1>b, MoveType DEF Release, Pcs
  <2> QED
    BY <1>14, <1>a, <2>1 DEF Release
<1>15. CASE Publish(f)
  BY <1>15, <1>0, <1>a, ReturnType DEF Publish
<1> QED
  BY <1>1, <1>2, <1>3, <1>4, <1>5, <1>6, <1>7, <1>8, <1>9, <1>10, <1>11,
     <1>12, <1>13, <1>14, <1>15, <1>16, <1>17 DEF Step

\* Every step of the specification keeps the types.
LEMMA NextType ==
    ASSUME TypeOK, [Next]_vars
    PROVE  TypeOK'
<1> USE DEF TypeOK, store, bus, env
<1>0. FrameOK
  BY DEF FrameOK
<1>1. CASE \E f \in Live : Step(f)
  BY <1>1, StepType
<1>2. ASSUME NEW p \in Procs, Subscribed(p)
      PROVE  TypeOK'
  BY <1>2 DEF Subscribed, Live
<1>3. ASSUME NEW p \in Procs, Deliver(p)
      PROVE  TypeOK'
  <2>1. FrameOK'
    BY <1>3, <1>0, RunCallbacksFrames DEF Deliver, Waiting
  <2> QED
    BY <1>3, <2>1 DEF Deliver, FrameOK
<1>4. CASE ClearShared
  BY <1>4, AbsentType DEF ClearShared, Live
<1>5. CASE ClearLocal
  <2>1. Absent \in Schema
    BY AbsentType
  <2>2. /\ localSchema' \in [Procs -> Schema] /\ localHash' \in [Procs -> Schema]
        /\ migration' \in {"none", "clearShared", "clearLocal"}
        /\ UNCHANGED <<sharedHash, taken, db, lock, frame, channel, inbox, status, faults>>
    BY <1>5, <2>1 DEF ClearLocal
  <2> QED
    BY <2>2 DEF Live
<1>6. ASSUME NEW c \in Calls, Call(c)
      PROVE  TypeOK'
  <2>1. NewFrame(c, 0) \in Frame
    BY NewFrameType
  <2>2. <<c>> \in Path
    BY DEF Path
  <2>3. FrameOK'
    BY <1>6, <1>0, <2>1, <2>2 DEF Call, FrameOK, Live
  <2> QED
    BY <1>6, <2>3 DEF Call, FrameOK
<1>7. CASE Migrate
  BY <1>7, BoundAssumption DEF Migrate, Live, Version
<1>8. ASSUME NEW p \in Procs, Crash(p)
      PROVE  TypeOK'
  <2>1. FrameOK'
    BY <1>8, <1>0 DEF Crash, FrameOK, Live
  <2>2. status' \in [Calls -> {"idle", "running", "lost"} \cup Outcomes]
    BY <1>8 DEF Crash
  <2>3. faults' \in [Faults -> Nat]
    BY <1>8 DEF Crash, Fault, Faults
  <2>4. /\ localSchema' \in [Procs -> Schema] /\ localHash' \in [Procs -> Schema]
        /\ channel' \in [Procs -> {"off", "pending", "on"}]
        /\ inbox' \in [Procs -> Nat]
    BY <1>8, AbsentType DEF Crash
  <2> QED
    BY <1>8, <2>1, <2>2, <2>3, <2>4 DEF Crash, FrameOK
<1>9. CASE UNCHANGED vars
  BY <1>9 DEF vars, Live
<1> QED
  BY <1>1, <1>2, <1>3, <1>4, <1>5, <1>6, <1>7, <1>8, <1>9 DEF Next, System

(* In every state the schema cache, the lock, the bus and the invocations  *)
(* of getSchema have their types, whatever the interleaving of processes.  *)
THEOREM TypeCorrect == Spec => []TypeOK
<1>1. Init => TypeOK
  BY InitType
<1>2. TypeOK /\ [Next]_vars => TypeOK'
  BY NextType
<1> QED
  BY <1>1, <1>2, PTL DEF Spec

-----------------------------------------------------------------------------
(* The lock.  A frame HOLDS the lock from the increment that took it from  *)
(* 0 to 1 until it deletes it.  Deleting somebody else's lock only ever    *)
(* sets it to 0, so a positive counter always has a holder.                *)

Holding(f) ==
    \/ frame[f].pc \in BuilderPcs
    \/ (frame[f].pc = "reset" /\ frame[f].pid = 1)

\* The lock stays held when it is not taken anew and no holder goes away.
LEMMA HolderStays ==
    ASSUME LockNotOrphaned, lock' = lock, faults'["crash"] = faults["crash"],
           \A g \in Live : Holding(g) => g \in Live' /\ Holding(g)'
    PROVE  LockNotOrphaned'
<1> SUFFICES ASSUME faults'["crash"] = 0, lock' > 0
             PROVE  \E g \in Live' : Holding(g)'
  BY DEF LockNotOrphaned, Holding
<1>1. PICK g \in Live : Holding(g)
  BY DEF LockNotOrphaned, Holding
<1> QED
  BY <1>1

\* Faults other than crashes leave the number of crashes alone.
LEMMA NoCrash ==
    ASSUME TypeOK, NEW k \in Faults \ {"crash"}, Fault(k)
    PROVE  faults'["crash"] = faults["crash"]
BY DEF TypeOK, Fault, Faults

\* A frame that moves to a builder's place, or did not hold the lock, does
\* not leave the lock without a holder.
LEMMA MoveKeepsHolders ==
    ASSUME FrameOK, NEW f \in Live, NEW pc \in Pcs, NEW v \in Schema,
           NEW out \in Outcomes,
           \/ Goto(f, pc) \/ GotoWith(f, pc, v)
           \/ frame' = [frame EXCEPT ![f].pc = pc, ![f].out = out],
           ~Holding(f) \/ pc \in BuilderPcs
    PROVE  \A g \in Live : Holding(g) => g \in Live' /\ Holding(g)'
<1>1. /\ Live' = Live /\ frame'[f].pc = pc
      /\ \A g \in Live \ {f} : frame'[g] = frame[g]
  BY MoveType, 0 \in Nat
<1> QED
  BY <1>1 DEF Holding

\* A frame that is not a builder and returns takes no holder away.
LEMMA ReturnKeepsHolders ==
    ASSUME FrameOK, NEW f \in Live, NEW out \in Outcomes, Return(f, out),
           ~Holding(f)
    PROVE  \A g \in Live : Holding(g) => g \in Live' /\ Holding(g)'
<1>1. /\ Live' \subseteq Live \ {f}
      /\ \A g \in Live' : frame'[g] = frame[g]
      /\ \A g \in Live \ {f} : frame[g].pc # "waiting" => g \in Live'
  BY SettleFrames DEF Return
<1> QED
  BY <1>1 DEF Holding, BuilderPcs

\* Running callbacks takes the lock from nobody who will delete it.
LEMMA CallbacksKeepHolders ==
    ASSUME FrameOK, NEW F \in SUBSET Live, RunCallbacks(F)
    PROVE  \A g \in Live : Holding(g) => g \in Live' /\ Holding(g)'
BY RunCallbacksFrames DEF Holding

\* Drawing a number from the lock makes a holder out of the first.
LEMMA IncrementLock ==
    ASSUME TypeOK, LockNotOrphaned, NEW f \in Live, Increment(f)
    PROVE  LockNotOrphaned'
<1>0. frame[f] \in Frame /\ FrameOK /\ faults' = faults
  BY DEF TypeOK, FrameOK, Increment, env
<1>1. DEFINE pc == IF lock + 1 >= MaxIterations THEN "reset" ELSE Role(lock + 1)
<1>2. /\ frame' = [frame EXCEPT ![f].pid = lock + 1, ![f].pc = pc]
      /\ lock' = lock + 1 /\ frame[f].pc = "increment"
  BY DEF Increment, At
<1>3. /\ Live' = Live /\ frame'[f].pid = lock + 1 /\ frame'[f].pc = pc
      /\ \A g \in Live \ {f} : frame'[g] = frame[g]
  BY <1>0, <1>2 DEF FrameOK, Frame, Live
<1>4. CASE lock = 0
  <2>1. Holding(f)'
    BY <1>3, <1>4 DEF Holding, Role, BuilderPcs
  <2> QED
    BY <1>3, <2>1 DEF LockNotOrphaned, Holding
<1>5. CASE lock # 0
  <2>1. lock > 0
    BY <1>5 DEF TypeOK
  <2>2. SUFFICES ASSUME faults["crash"] = 0
                 PROVE  LockNotOrphaned'
    BY <1>0 DEF LockNotOrphaned
  <2>3. PICK g \in Live : Holding(g)
    BY <2>1, <2>2 DEF LockNotOrphaned, Holding
  <2>4. g # f
    BY <2>3, <1>2 DEF Holding, BuilderPcs
  <2>5. g \in Live' /\ Holding(g)'
    BY <2>3, <2>4, <1>3 DEF Holding
  <2> QED
    BY <2>5 DEF LockNotOrphaned, Holding
<1> QED
  BY <1>4, <1>5

\* Whatever a frame does, a taken lock still has someone who will delete it.
LEMMA StepLock ==
    ASSUME TypeOK, LockNotOrphaned, NEW f \in Live, Step(f)
    PROVE  LockNotOrphaned'
<1> USE DEF store, bus, env
<1> DEFINE Kept == \A g \in Live : Holding(g) => g \in Live' /\ Holding(g)'
<1>0. /\ FrameOK /\ frame[f] \in Frame
      /\ sharedHash \in Schema /\ Absent \in Schema
      /\ Stretch(db, db) \in Schema /\ Stretch(frame[f].seen.from, db) \in Schema
      /\ "ok" \in Outcomes /\ "failed" \in Outcomes /\ "loop" \in Outcomes
  BY AbsentType DEF TypeOK, FrameOK, Frame, Schema, Stretch, Outcomes
<1>1. CASE GiveUp(f)
  <2>1. Kept
    BY <1>1, <1>0, ReturnKeepsHolders DEF GiveUp, At, Holding, BuilderPcs
  <2> QED
    BY <1>1, <2>1, HolderStays DEF GiveUp
<1>2. CASE ReadBypass(f) \/ ReadBypassRest(f)
  <2>1. ~Holding(f)
    BY <1>2 DEF ReadBypass, ReadBypassRest, At, Holding, BuilderPcs
  <2>2. Goto(f, "bypassRest") \/ Return(f, "ok") \/ Return(f, "failed")
    BY <1>2 DEF ReadBypass, ReadBypassRest
  <2>3. Kept
    BY <1>0, <2>1, <2>2, MoveKeepsHolders, ReturnKeepsHolders DEF Pcs
  <2>4. faults'["crash"] = faults["crash"] /\ lock' = lock
    BY <1>2, NoCrash DEF ReadBypass, ReadBypassRest, Faults
  <2> QED
    BY <2>3, <2>4, HolderStays
<1>3. CASE GetSharedHash(f)
  <2>1. ~Holding(f)
    BY <1>3 DEF GetSharedHash, At, Holding, BuilderPcs
  <2>2. Kept
    BY <1>3, <1>0, <2>1, MoveKeepsHolders DEF GetSharedHash, Pcs
  <2> QED
    BY <1>3, <2>2, HolderStays DEF GetSharedHash
<1>4. CASE GetLocalHash(f)
  <2>1. ~Holding(f)
    BY <1>4 DEF GetLocalHash, At, Holding, BuilderPcs
  <2>2. Kept
    BY <1>4, <1>0, <2>1, MoveKeepsHolders DEF GetLocalHash, Pcs
  <2> QED
    BY <1>4, <2>2, HolderStays DEF GetLocalHash
<1>5. CASE GetLocalSchema(f)
  <2>1. ~Holding(f)
    BY <1>5 DEF GetLocalSchema, At, Holding, BuilderPcs
  <2>2. Goto(f, "increment") \/ Return(f, "ok")
    BY <1>5 DEF GetLocalSchema
  <2>3. Kept
    BY <1>0, <2>1, <2>2, MoveKeepsHolders, ReturnKeepsHolders DEF Pcs
  <2> QED
    BY <1>5, <2>3, HolderStays DEF GetLocalSchema
<1>6. CASE Increment(f)
  BY <1>6, IncrementLock
<1>7. CASE Reset(f)
  BY <1>7 DEF Reset, LockNotOrphaned
<1>8. CASE Subscribe(f)
  <2>1. ~Holding(f)
    BY <1>8 DEF Subscribe, At, Holding, BuilderPcs
  <2>2. Kept
    BY <1>8, <1>0, <2>1, MoveKeepsHolders DEF Subscribe, Pcs
  <2> QED
    BY <1>8, <2>2, HolderStays DEF Subscribe
<1>9. CASE Timeout(f)
  <2>1. Kept
    BY <1>9, <1>0, CallbacksKeepHolders DEF Timeout
  <2>2. faults'["crash"] = faults["crash"]
    BY <1>9, NoCrash DEF Timeout, Faults
  <2> QED
    BY <1>9, <2>1, <2>2, HolderStays DEF Timeout
<1>10. CASE ReadDatabase(f) \/ ReadRest(f)
  <2>1. \/ GotoWith(f, "readRest", Stretch(db, db))
        \/ GotoWith(f, "setSharedHash", Stretch(frame[f].seen.from, db))
        \/ frame' = [frame EXCEPT ![f].pc = "release", ![f].out = "failed"]
    BY <1>10 DEF ReadDatabase, ReadRest
  <2>2. Kept
    BY <1>0, <2>1, MoveKeepsHolders DEF BuilderPcs, Pcs
  <2>3. faults'["crash"] = faults["crash"] /\ lock' = lock
    BY <1>10, NoCrash DEF ReadDatabase, ReadRest, Faults
  <2> QED
    BY <2>2, <2>3, HolderStays
<1>11. CASE SetSharedHash(f)
  <2>1. Kept
    BY <1>11, <1>0, MoveKeepsHolders DEF SetSharedHash, BuilderPcs, Pcs
  <2> QED
    BY <1>11, <2>1, HolderStays DEF SetSharedHash
<1>12. CASE SetLocalSchema(f)
  <2>1. Kept
    BY <1>12, <1>0, MoveKeepsHolders DEF SetLocalSchema, BuilderPcs, Pcs
  <2> QED
    BY <1>12, <2>1, HolderStays DEF SetLocalSchema
<1>13. CASE SetLocalHash(f)
  <2>1. Kept
    BY <1>13, <1>0, MoveKeepsHolders DEF SetLocalHash, BuilderPcs, Pcs
  <2> QED
    BY <1>13, <2>1, HolderStays DEF SetLocalHash
<1>14. CASE Release(f)
  BY <1>14 DEF Release, LockNotOrphaned
<1>15. CASE Publish(f)
  <2>1. Kept
    BY <1>15, <1>0, ReturnKeepsHolders DEF Publish, At, Holding, BuilderPcs, Frame
  <2> QED
    BY <1>15, <2>1, HolderStays DEF Publish
<1> QED
  BY <1>1, <1>2, <1>3, <1>4, <1>5, <1>6, <1>7, <1>8, <1>9, <1>10, <1>11,
     <1>12, <1>13, <1>14, <1>15 DEF Step

\* So it is for every step of the system, short of a crash.
LEMMA NextLock ==
    ASSUME TypeOK, LockNotOrphaned, [Next]_vars
    PROVE  LockNotOrphaned'
<1> USE DEF store, bus, env
<1>0. FrameOK
  BY DEF TypeOK, FrameOK
<1>1. CASE \E f \in Live : Step(f)
  BY <1>1, StepLock
<1>2. CASE UNCHANGED <<frame, lock, faults>>
  BY <1>2 DEF LockNotOrphaned, Live
<1>3. ASSUME NEW p \in Procs, Deliver(p)
      PROVE  LockNotOrphaned'
  <2>1. \A g \in Live : Holding(g) => g \in Live' /\ Holding(g)'
    BY <1>3, <1>0, CallbacksKeepHolders DEF Deliver, Waiting
  <2> QED
    BY <1>3, <2>1, HolderStays DEF Deliver
<1>4. ASSUME NEW c \in Calls, Call(c)
      PROVE  LockNotOrphaned'
  <2>1. \A g \in Live : Holding(g) => g \in Live' /\ Holding(g)'
    BY <1>4 DEF Call, Live, Holding
  <2> QED
    BY <1>4, <2>1, HolderStays DEF Call
<1>5. ASSUME NEW p \in Procs, Crash(p)
      PROVE  LockNotOrphaned'
  <2>1. faults'["crash"] # 0
    BY <1>5 DEF Crash, Fault, TypeOK, Faults
  <2> QED
    BY <2>1 DEF LockNotOrphaned
<1> QED
  BY <1>1, <1>2, <1>3, <1>4, <1>5
     DEF Next, System, Subscribed, ClearShared, ClearLocal, Migrate, vars

(* While no process crashes, a taken lock always belongs to an invocation  *)
(* that is still to delete it, for any number of resets of the counter by  *)
(* CACHE_SCHEMA_MAX_ITERATIONS and any interleaving.                       *)
THEOREM LockHeld == Spec => []LockNotOrphaned
<1>1. Init => TypeOK /\ LockNotOrphaned
  BY InitType DEF Init, LockNotOrphaned
<1>2. TypeOK /\ LockNotOrphaned /\ [Next]_vars => TypeOK' /\ LockNotOrphaned'
  BY NextType, NextLock
<1> QED
  BY <1>1, <1>2, PTL DEF Spec

-----------------------------------------------------------------------------
(* One builder at a time, as long as the counter stays below MaxIterations *)
(* (a reset lets a second builder in: nothing of this section holds then). *)

(* The builder is unique, holds the lock, and nobody is resetting it.      *)
Exclusive ==
    /\ \A f, g \in Builders : f = g
    /\ Builders # {} => lock > 0
    /\ \A f \in Live : frame[f].pc # "reset"

\* A step that lets nobody become a builder and leaves the lock alone.
LEMMA NoNewBuilder ==
    ASSUME Exclusive, Builders' \subseteq Builders, lock' = lock,
           \A f \in Live' : frame'[f].pc # "reset"
    PROVE  Exclusive'
BY DEF Exclusive

\* The builders after a frame moved to another place.
LEMMA MoveBuilders ==
    ASSUME FrameOK, Exclusive, NEW f \in Live, NEW pc \in Pcs \ {"reset"},
           NEW v \in Schema, NEW out \in Outcomes,
           \/ Goto(f, pc) \/ GotoWith(f, pc, v)
           \/ frame' = [frame EXCEPT ![f].pc = pc, ![f].out = out],
           pc \in BuilderPcs => f \in Builders
    PROVE  /\ Builders' \subseteq Builders
           /\ \A g \in Live' : frame'[g].pc # "reset"
           /\ pc \notin BuilderPcs => f \notin Builders'
<1>1. /\ Live' = Live /\ frame'[f].pc = pc
      /\ \A g \in Live \ {f} : frame'[g] = frame[g]
  BY MoveType, 0 \in Nat
<1> QED
  BY <1>1 DEF Builders, Exclusive

\* A frame that returns makes no other frame a builder.
LEMMA ReturnBuilders ==
    ASSUME FrameOK, Exclusive, NEW f \in Live, NEW out \in Outcomes, Return(f, out)
    PROVE  /\ Builders' \subseteq Builders
           /\ \A g \in Live' : frame'[g].pc # "reset"
<1>1. /\ Live' \subseteq Live \ {f}
      /\ \A g \in Live' : frame'[g] = frame[g]
  BY SettleFrames DEF Return
<1> QED
  BY <1>1 DEF Builders, Exclusive

\* Put together: moves and returns that leave the lock alone.
LEMMA MoveExclusive ==
    ASSUME FrameOK, Exclusive, NEW f \in Live, NEW pc \in Pcs \ {"reset"},
           NEW v \in Schema, NEW out \in Outcomes,
           \/ Goto(f, pc) \/ GotoWith(f, pc, v)
           \/ frame' = [frame EXCEPT ![f].pc = pc, ![f].out = out],
           pc \in BuilderPcs => frame[f].pc \in BuilderPcs,
           lock' = lock
    PROVE  Exclusive'
<1>1. pc \in BuilderPcs => f \in Builders
  BY DEF Builders
<1> QED
  BY <1>1, MoveBuilders, NoNewBuilder

\* ... and so a return that leaves the lock alone keeps Exclusive.
LEMMA ReturnExclusive ==
    ASSUME FrameOK, Exclusive, NEW f \in Live, NEW out \in Outcomes,
           Return(f, out), lock' = lock
    PROVE  Exclusive'
BY ReturnBuilders, NoNewBuilder

\* The frames that callbacks start do not build.
LEMMA CallbacksBuilders ==
    ASSUME FrameOK, Exclusive, NEW F \in SUBSET Live, RunCallbacks(F)
    PROVE  /\ Builders' \subseteq Builders
           /\ \A g \in Live' : frame'[g].pc # "reset"
<1>1. /\ \A g \in Live : frame'[g].pc = frame[g].pc
      /\ \A g \in Live' \ Live : frame'[g].pc \in {"loop", "bypass", "sharedHash"}
  BY RunCallbacksFrames
<1> QED
  BY <1>1 DEF Builders, BuilderPcs, Exclusive

\* Only who draws 1 becomes a builder, and then there was none.
LEMMA IncrementExclusive ==
    ASSUME TypeOK, Exclusive, lock' < MaxIterations,
           NEW f \in Live, Increment(f)
    PROVE  /\ Exclusive'
           /\ Builders' \subseteq Builders \cup {f}
           /\ \A g \in Live \ {f} : frame'[g] = frame[g]
           /\ Live' = Live /\ frame'[f].pc \in {"read", "subscribe"}
           /\ frame'[f].call = frame[f].call
<1>0. frame[f] \in Frame /\ FrameOK /\ lock \in Nat /\ frame[f].pc = "increment"
  BY DEF TypeOK, FrameOK, Increment, At
<1>1. /\ lock' = lock + 1
      /\ frame' = [frame EXCEPT ![f].pid = lock + 1, ![f].pc = Role(lock + 1)]
  <2>1. lock' = lock + 1
    BY DEF Increment
  <2>2. ~(lock + 1 >= MaxIterations)
    BY <2>1, <1>0, BoundAssumption
  <2> QED
    BY <2>1, <2>2 DEF Increment
<1>2. /\ Live' = Live /\ frame'[f].pc = Role(lock + 1)
      /\ frame'[f].call = frame[f].call
      /\ \A g \in Live \ {f} : frame'[g] = frame[g]
  BY <1>0, <1>1 DEF FrameOK, Frame, Live
<1>3. CASE lock = 0
  <2>1. Builders = {}
    BY <1>3 DEF Exclusive
  <2>2. Builders' \subseteq {f}
    BY <1>2, <2>1 DEF Builders
  <2>3. frame'[f].pc = "read" /\ lock' > 0
    BY <1>1, <1>2, <1>3 DEF Role
  <2>4. \A g \in Live' : frame'[g].pc # "reset"
    BY <1>2, <2>3 DEF Exclusive
  <2>5. Exclusive'
    BY <2>2, <2>3, <2>4 DEF Exclusive
  <2> QED
    BY <1>2, <2>2, <2>3, <2>5
<1>4. CASE lock # 0
  <2>1. frame'[f].pc = "subscribe"
    BY <1>0, <1>2, <1>4 DEF Role
  <2>2. Builders' \subseteq Builders
    BY <1>2, <2>1 DEF Builders, BuilderPcs
  <2>3. \A g \in Live' : frame'[g].pc # "reset"
    BY <1>2, <2>1 DEF Exclusive
  <2>4. lock' > 0
    BY <1>0, <1>1
  <2>5. Exclusive'
    BY <2>2, <2>3, <2>4 DEF Exclusive
  <2> QED
    BY <1>2, <2>1, <2>2, <2>5
<1> QED
  BY <1>3, <1>4

\* Below the maximum, whatever a frame does, at most one builds.
LEMMA StepExclusive ==
    ASSUME TypeOK, Exclusive, lock' < MaxIterations, NEW f \in Live, Step(f)
    PROVE  Exclusive'
<1> USE DEF store, bus, env
<1>0. /\ FrameOK /\ frame[f] \in Frame
      /\ sharedHash \in Schema /\ Absent \in Schema
      /\ Stretch(db, db) \in Schema /\ Stretch(frame[f].seen.from, db) \in Schema
      /\ "ok" \in Outcomes /\ "failed" \in Outcomes /\ "loop" \in Outcomes
  BY AbsentType DEF TypeOK, FrameOK, Frame, Schema, Stretch, Outcomes
<1>a. \A pc \in {"increment", "localHash", "localSchema", "waiting", "bypassRest"} :
         pc \in Pcs \ {"reset"} /\ pc \notin BuilderPcs
  BY DEF Pcs, BuilderPcs
<1>1. CASE GiveUp(f)
  BY <1>1, <1>0, ReturnExclusive DEF GiveUp
<1>2. CASE ReadBypass(f) \/ ReadBypassRest(f)
  <2>1. /\ Goto(f, "bypassRest") \/ Return(f, "ok") \/ Return(f, "failed")
        /\ lock' = lock
    BY <1>2 DEF ReadBypass, ReadBypassRest
  <2>2. CASE Goto(f, "bypassRest")
    BY <2>1, <2>2, <1>0, <1>a, MoveExclusive
  <2>3. CASE Return(f, "ok") \/ Return(f, "failed")
    BY <2>1, <2>3, <1>0, ReturnExclusive
  <2> QED
    BY <2>1, <2>2, <2>3
<1>3. CASE GetSharedHash(f)
  <2>1. (Goto(f, "increment") \/ GotoWith(f, "localHash", sharedHash)) /\ lock' = lock
    BY <1>3 DEF GetSharedHash
  <2> QED
    BY <2>1, <1>0, <1>a, MoveExclusive
<1>4. CASE GetLocalHash(f)
  <2>1. (Goto(f, "increment") \/ Goto(f, "localSchema")) /\ lock' = lock
    BY <1>4 DEF GetLocalHash
  <2> QED
    BY <2>1, <1>0, <1>a, MoveExclusive
<1>5. CASE GetLocalSchema(f)
  <2>1. (Goto(f, "increment") \/ Return(f, "ok")) /\ lock' = lock
    BY <1>5 DEF GetLocalSchema
  <2>2. CASE Goto(f, "increment")
    BY <2>1, <2>2, <1>0, <1>a, MoveExclusive
  <2>3. CASE Return(f, "ok")
    BY <2>1, <2>3, <1>0, ReturnExclusive
  <2> QED
    BY <2>1, <2>2, <2>3
<1>6. CASE Increment(f)
  BY <1>6, IncrementExclusive
<1>7. CASE Reset(f)
  BY <1>7 DEF Reset, At, Exclusive
<1>8. CASE Subscribe(f)
  <2>1. Goto(f, "waiting") /\ lock' = lock
    BY <1>8 DEF Subscribe
  <2> QED
    BY <2>1, <1>0, <1>a, MoveExclusive
<1>9. CASE Timeout(f)
  BY <1>9, <1>0, CallbacksBuilders, NoNewBuilder DEF Timeout
<1>10. CASE ReadDatabase(f) \/ ReadRest(f)
  <2>1. /\ \/ GotoWith(f, "readRest", Stretch(db, db))
           \/ GotoWith(f, "setSharedHash", Stretch(frame[f].seen.from, db))
           \/ frame' = [frame EXCEPT ![f].pc = "release", ![f].out = "failed"]
        /\ frame[f].pc \in BuilderPcs /\ lock' = lock
    BY <1>10 DEF ReadDatabase, ReadRest, At, BuilderPcs
  <2> QED
    BY <2>1, <1>0, MoveExclusive DEF Pcs
<1>11. CASE SetSharedHash(f)
  <2>1. Goto(f, "setLocalSchema") /\ frame[f].pc \in BuilderPcs /\ lock' = lock
    BY <1>11 DEF SetSharedHash, At, BuilderPcs
  <2> QED
    BY <2>1, <1>0, MoveExclusive DEF Pcs
<1>12. CASE SetLocalSchema(f)
  <2>1. Goto(f, "setLocalHash") /\ frame[f].pc \in BuilderPcs /\ lock' = lock
    BY <1>12 DEF SetLocalSchema, At, BuilderPcs
  <2> QED
    BY <2>1, <1>0, MoveExclusive DEF Pcs
<1>13. CASE SetLocalHash(f)
  <2>1. Goto(f, "release") /\ frame[f].pc \in BuilderPcs /\ lock' = lock
    BY <1>13 DEF SetLocalHash, At, BuilderPcs
  <2> QED
    BY <2>1, <1>0, MoveExclusive DEF Pcs
<1>14. CASE Release(f)
  <2>1. f \in Builders /\ Goto(f, "publish")
    BY <1>14 DEF Release, At, Builders, BuilderPcs
  <2>2. "publish" \in Pcs \ {"reset"} /\ "publish" \notin BuilderPcs
    BY DEF Pcs, BuilderPcs
  <2>3. /\ Builders' \subseteq Builders /\ f \notin Builders'
        /\ \A g \in Live' : frame'[g].pc # "reset"
    BY <2>1, <2>2, <1>0, MoveBuilders, MoveType, 0 \in Nat DEF Builders
  <2> QED
    BY <2>1, <2>3 DEF Exclusive
<1>15. CASE Publish(f)
  BY <1>15, <1>0, ReturnExclusive DEF Publish, Frame
<1> QED
  BY <1>1, <1>2, <1>3, <1>4, <1>5, <1>6, <1>7, <1>8, <1>9, <1>10, <1>11,
     <1>12, <1>13, <1>14, <1>15 DEF Step

\* So it is for every step of the system.
LEMMA NextExclusive ==
    ASSUME TypeOK, Exclusive, lock' < MaxIterations, [Next]_vars
    PROVE  Exclusive'
<1> USE DEF store, bus, env
<1>0. FrameOK
  BY DEF TypeOK, FrameOK
<1>1. CASE \E f \in Live : Step(f)
  BY <1>1, StepExclusive
<1>2. CASE UNCHANGED <<frame, lock>>
  BY <1>2 DEF Exclusive, Builders, Live
<1>3. ASSUME NEW p \in Procs, Deliver(p)
      PROVE  Exclusive'
  BY <1>3, <1>0, CallbacksBuilders, NoNewBuilder DEF Deliver, Waiting
<1>4. ASSUME NEW c \in Calls, Call(c)
      PROVE  Exclusive'
  <2>1. NewFrame(c, 0).pc \in {"loop", "bypass", "sharedHash"}
    BY NewFrameType, 0 \in Nat
  <2>2. /\ \A g \in Live : frame'[g] = frame[g]
        /\ \A g \in Live' \ Live : frame'[g] = NewFrame(c, 0)
    BY <1>4 DEF Call, Live
  <2> QED
    BY <1>4, <2>1, <2>2, NoNewBuilder DEF Call, Builders, BuilderPcs, Exclusive
<1>5. ASSUME NEW p \in Procs, Crash(p)
      PROVE  Exclusive'
  <2>1. Live' \subseteq Live /\ \A g \in Live' : frame'[g] = frame[g]
    BY <1>5 DEF Crash, Live
  <2> QED
    BY <1>5, <2>1, NoNewBuilder DEF Crash, Builders, Exclusive
<1> QED
  BY <1>1, <1>2, <1>3, <1>4, <1>5
     DEF Next, System, Subscribed, ClearShared, ClearLocal, Migrate, vars

\* Exclusive says what SingleBuilder counts.
LEMMA ExclusiveIsSingle == Exclusive => SingleBuilder
<1> SUFFICES ASSUME Exclusive
             PROVE  SingleBuilder
  OBVIOUS
<1>1. CASE Builders = {}
  BY <1>1, FS_EmptySet DEF SingleBuilder
<1>2. ASSUME NEW b \in Builders
      PROVE  SingleBuilder
  <2>1. Builders = {b}
    BY <1>2 DEF Exclusive
  <2>2. Cardinality({b}) = 1
    BY FS_Singleton
  <2> QED
    BY <2>1, <2>2 DEF SingleBuilder
<1> QED
  BY <1>1, <1>2

(* At most one invocation in the whole cluster builds the schema at a      *)
(* time, unless the counter reaches CACHE_SCHEMA_MAX_ITERATIONS.           *)
THEOREM OneBuilder == Spec /\ [](lock < MaxIterations) => []SingleBuilder
<1>1. Init => TypeOK /\ Exclusive
  <2>1. Init => Builders = {}
    BY DEF Init, Builders, Live
  <2>2. Init => Exclusive
    BY <2>1 DEF Init, Exclusive, Live
  <2> QED
    BY <2>2, InitType
<1>2. TypeOK /\ Exclusive /\ (lock < MaxIterations)' /\ [Next]_vars
        => TypeOK' /\ Exclusive'
  BY NextType, NextExclusive
<1>3. Exclusive => SingleBuilder
  BY ExclusiveIsSingle
<1> QED
  BY <1>1, <1>2, <1>3, PTL DEF Spec

-----------------------------------------------------------------------------
(* What the single builder buys: schemas are written in the order in which *)
(* they were read from the database.                                       *)

WriterPcs == {"readRest", "setSharedHash", "setLocalSchema", "setLocalHash"}
Cached(p) == {sharedHash, localSchema[p], localHash[p], taken[p]}
Within(s) == s.from <= s.upto /\ s.upto <= db

(* Nothing cached or taken into use was read ahead of the database ...     *)
NotAhead == \A p \in Procs : \A s \in Cached(p) : Within(s)

(* ... or after what the builder has read and is about to write, ...       *)
WriterIsNewest ==
    \A f \in Live : frame[f].pc \in WriterPcs =>
        /\ Within(frame[f].seen)
        /\ frame[f].pc = "readRest" => frame[f].seen.from = frame[f].seen.upto
        /\ \A p \in Procs : \A s \in Cached(p) : NotOlder(frame[f].seen, s)

(* ... a process's schema is not older than what it used before, ...       *)
LocalNotOlder ==
    \A p \in Procs : localSchema[p] # Absent => NotOlder(localSchema[p], taken[p])

(* ... what the builder wrote so far is still there or was cleared, ...    *)
WriterTraces ==
    \A f \in Live :
        /\ frame[f].pc \in {"setLocalSchema", "setLocalHash"}
              => sharedHash \in {Absent, frame[f].seen}
        /\ frame[f].pc = "setLocalHash"
              => localSchema[Proc(f)] \in {Absent, frame[f].seen}

(* ... and a process's hash is its schema's, except between two writes.    *)
HashOfSchema ==
    \A p \in Procs :
        \/ localHash[p] = Absent
        \/ localSchema[p] \in {Absent, localHash[p]}
        \/ \E f \in Live : frame[f].pc = "setLocalHash" /\ Proc(f) = p

Ordered == NotAhead /\ WriterIsNewest /\ LocalNotOlder /\ WriterTraces /\ HashOfSchema

\* The empty schema is older than any, and was not read ahead of anything.
LEMMA AbsentOldest ==
    ASSUME NEW s \in Schema, TypeOK
    PROVE  NotOlder(s, Absent) /\ Within(Absent)
<1>1. Absent.from = 0 /\ Absent.upto = 0
  BY DEF Absent, Stretch
<1>2. s.from \in Nat /\ db \in Nat
  BY DEF Schema, Version, TypeOK
<1> QED
  BY <1>1, <1>2 DEF NotOlder, Within

\* Every schema is as new as itself.
LEMMA NotOlderThanItself == \A s : NotOlder(s, s)
BY DEF NotOlder

(* The writers and what they hold are the same before and after a step.    *)
SameWriters ==
    /\ \A g \in Live' : frame'[g].pc \in WriterPcs =>
          g \in Live /\ frame[g].pc = frame'[g].pc
    /\ \A g \in Live : frame[g].pc \in WriterPcs =>
          /\ g \in Live' /\ frame'[g].pc = frame[g].pc
          /\ frame'[g].seen = frame[g].seen /\ frame'[g].call = frame[g].call

\* A step that moves no writer and no stored version keeps the order.
LEMMA OrderedStays ==
    ASSUME Ordered, SameWriters, UNCHANGED <<sharedHash, localSchema, localHash, taken, db>>
    PROVE  Ordered'
<1> USE DEF SameWriters, WriterPcs
<1>1. NotAhead'
  BY DEF Ordered, NotAhead, Cached, Within
<1>2. WriterIsNewest'
  BY DEF Ordered, WriterIsNewest, Cached, Within
<1>3. LocalNotOlder'
  BY DEF Ordered, LocalNotOlder
<1>4. WriterTraces'
  BY DEF Ordered, WriterTraces, Proc
<1>5. HashOfSchema'
  BY DEF Ordered, HashOfSchema, Proc
<1> QED
  BY <1>1, <1>2, <1>3, <1>4, <1>5 DEF Ordered

\* A frame that moves between steps that write nothing moves no writer.
LEMMA MoveWriters ==
    ASSUME FrameOK, NEW f \in Live, NEW pc \in Pcs \ WriterPcs, NEW v \in Schema,
           NEW n \in Nat, NEW out \in Outcomes,
           \/ Goto(f, pc) \/ GotoWith(f, pc, v)
           \/ frame' = [frame EXCEPT ![f].pid = n, ![f].pc = pc]
           \/ frame' = [frame EXCEPT ![f].pc = pc, ![f].out = out],
           frame[f].pc \notin WriterPcs
    PROVE  SameWriters
<1>1. /\ Live' = Live /\ frame'[f].pc = pc
      /\ \A g \in Live \ {f} : frame'[g] = frame[g]
  BY MoveType
<1> QED
  BY <1>1 DEF SameWriters

\* Neither does a frame that returns without having been one.
LEMMA ReturnWriters ==
    ASSUME FrameOK, NEW f \in Live, NEW out \in Outcomes, Return(f, out),
           frame[f].pc \notin WriterPcs
    PROVE  SameWriters
<1>1. /\ Live' \subseteq Live \ {f}
      /\ \A g \in Live' : frame'[g] = frame[g]
      /\ \A g \in Live \ {f} : frame[g].pc # "waiting" => g \in Live'
  BY SettleFrames DEF Return
<1> QED
  BY <1>1 DEF SameWriters, WriterPcs

\* Nor do callbacks.
LEMMA CallbacksWriters ==
    ASSUME FrameOK, NEW F \in SUBSET Live, RunCallbacks(F)
    PROVE  SameWriters
<1>1. /\ Live \subseteq Live'
      /\ \A g \in Live : /\ frame'[g].pc = frame[g].pc
                         /\ frame'[g].call = frame[g].call
                         /\ frame'[g].seen = frame[g].seen
      /\ \A g \in Live' \ Live : frame'[g].pc \in {"loop", "bypass", "sharedHash"}
  BY RunCallbacksFrames
<1> QED
  BY <1>1 DEF SameWriters, WriterPcs

\* The builder's own moves: it is the only writer there is.
LEMMA OnlyWriter ==
    ASSUME Exclusive, NEW f \in Live, frame[f].pc \in BuilderPcs
    PROVE  \A g \in Live \ {f} : frame[g].pc \notin WriterPcs
BY DEF Exclusive, Builders, BuilderPcs, WriterPcs

\* A builder's query that fails sends it to the finally, with nothing written.
LEMMA FailedReadOrdered ==
    ASSUME TypeOK, Exclusive, Ordered, NEW f \in Live,
           frame[f].pc \in {"read", "readRest"},
           frame' = [frame EXCEPT ![f].pc = "release", ![f].out = "failed"],
           UNCHANGED <<sharedHash, localSchema, localHash, taken, db>>
    PROVE  Ordered'
<1>0. FrameOK /\ \A g \in Live \ {f} : frame[g].pc \notin WriterPcs
  BY OnlyWriter DEF TypeOK, FrameOK, BuilderPcs
<1>1. /\ Live' = Live /\ frame'[f].pc = "release"
      /\ \A g \in Live \ {f} : frame'[g] = frame[g]
  BY <1>0 DEF FrameOK, Live, Frame
<1>2. \A g \in Live' : frame'[g].pc \notin WriterPcs
  BY <1>0, <1>1 DEF WriterPcs
<1>3. NotAhead' /\ LocalNotOlder'
  BY DEF Ordered, NotAhead, LocalNotOlder, Cached, Within
<1>4. WriterIsNewest' /\ WriterTraces'
  BY <1>2 DEF WriterIsNewest, WriterTraces, WriterPcs
<1>5. HashOfSchema'
  BY <1>0, <1>1 DEF Ordered, HashOfSchema, Proc, WriterPcs
<1> QED
  BY <1>3, <1>4, <1>5 DEF Ordered

\* What the builder begins to read is at least as new as anything cached.
LEMMA ReadDatabaseOrdered ==
    ASSUME TypeOK, Exclusive, Ordered, NEW f \in Live, ReadDatabase(f)
    PROVE  Ordered'
<1>0. /\ FrameOK /\ frame[f].pc = "read" /\ db \in Version /\ db \in Nat
      /\ \A g \in Live \ {f} : frame[g].pc \notin WriterPcs
      /\ UNCHANGED <<sharedHash, localSchema, localHash, taken, db>>
  BY OnlyWriter DEF TypeOK, FrameOK, ReadDatabase, At, BuilderPcs, store, Version
<1>1. CASE GotoWith(f, "readRest", Stretch(db, db))
  <2>1. /\ Live' = Live
        /\ frame'[f].pc = "readRest" /\ frame'[f].seen = Stretch(db, db)
        /\ \A g \in Live \ {f} : frame'[g] = frame[g]
    BY <1>0, <1>1 DEF FrameOK, Live, Frame, GotoWith
  <2>2. NotAhead' /\ LocalNotOlder'
    BY <1>0 DEF Ordered, NotAhead, LocalNotOlder, Cached, Within
  <2>3. /\ frame'[f].seen.from = db /\ frame'[f].seen.upto = db
        /\ \A p \in Procs : \A s \in Cached(p)' : s.upto <= db
    BY <1>0, <2>1, <2>2, StretchType DEF NotAhead, Within
  <2>4. WriterIsNewest'
    BY <1>0, <2>1, <2>3 DEF WriterIsNewest, Within, NotOlder
  <2>5. WriterTraces'
    BY <1>0, <2>1 DEF Ordered, WriterTraces, Proc
  <2>6. HashOfSchema'
    BY <1>0, <2>1 DEF Ordered, HashOfSchema, Proc, WriterPcs
  <2> QED
    BY <2>2, <2>4, <2>5, <2>6 DEF Ordered
<1>2. CASE frame' = [frame EXCEPT ![f].pc = "release", ![f].out = "failed"]
  BY <1>0, <1>2, FailedReadOrdered
<1> QED
  BY <1>1, <1>2 DEF ReadDatabase

\* What it ends to read began when it began to, whatever has changed since.
LEMMA ReadRestOrdered ==
    ASSUME TypeOK, Exclusive, Ordered, NEW f \in Live, ReadRest(f)
    PROVE  Ordered'
<1> DEFINE from == frame[f].seen.from
<1>0. /\ FrameOK /\ frame[f].pc = "readRest" /\ db \in Version /\ db \in Nat
      /\ from \in Version /\ from \in Nat /\ from = frame[f].seen.upto
      /\ \A g \in Live \ {f} : frame[g].pc \notin WriterPcs
      /\ UNCHANGED <<sharedHash, localSchema, localHash, taken, db>>
  BY OnlyWriter DEF TypeOK, FrameOK, ReadRest, At, BuilderPcs, store, Version,
     Frame, Schema, Ordered, WriterIsNewest, WriterPcs
<1>1. CASE GotoWith(f, "setSharedHash", Stretch(from, db))
  <2>1. /\ Live' = Live
        /\ frame'[f].pc = "setSharedHash" /\ frame'[f].seen = Stretch(from, db)
        /\ \A g \in Live \ {f} : frame'[g] = frame[g]
    BY <1>0, <1>1 DEF FrameOK, Live, Frame, GotoWith
  <2>2. NotAhead' /\ LocalNotOlder'
    BY <1>0 DEF Ordered, NotAhead, LocalNotOlder, Cached, Within
  <2>3. /\ Within(frame[f].seen)
        /\ \A p \in Procs : \A s \in Cached(p) : NotOlder(frame[f].seen, s)
    BY <1>0 DEF Ordered, WriterIsNewest, WriterPcs
  <2>4. \A p \in Procs : \A s \in Cached(p)' : s.upto <= from
    BY <1>0, <2>3 DEF NotOlder, Cached
  <2>5. frame'[f].seen.from = from /\ frame'[f].seen.upto = db /\ from <= db
    BY <1>0, <2>1, <2>3, StretchType DEF Within
  <2>6. WriterIsNewest'
    BY <1>0, <2>1, <2>4, <2>5 DEF WriterIsNewest, Within, NotOlder
  <2>7. WriterTraces'
    BY <1>0, <2>1 DEF Ordered, WriterTraces, Proc
  <2>8. HashOfSchema'
    BY <1>0, <2>1 DEF Ordered, HashOfSchema, Proc, WriterPcs
  <2> QED
    BY <2>2, <2>6, <2>7, <2>8 DEF Ordered
<1>2. CASE frame' = [frame EXCEPT ![f].pc = "release", ![f].out = "failed"]
  BY <1>0, <1>2, FailedReadOrdered
<1> QED
  BY <1>1, <1>2 DEF ReadRest

\* The builder writes the hash of what it read to the shared cache ...
LEMMA SetSharedHashOrdered ==
    ASSUME TypeOK, Exclusive, Ordered, NEW f \in Live, SetSharedHash(f)
    PROVE  Ordered'
<1>0. /\ FrameOK /\ frame[f].pc = "setSharedHash" /\ frame[f] \in Frame
      /\ \A g \in Live \ {f} : frame[g].pc \notin WriterPcs
      /\ sharedHash' = frame[f].seen
      /\ UNCHANGED <<localSchema, localHash, taken, db>>
  BY OnlyWriter DEF TypeOK, FrameOK, SetSharedHash, At, BuilderPcs, env
<1>1. /\ Live' = Live
      /\ frame'[f].pc = "setLocalSchema" /\ frame'[f].seen = frame[f].seen
      /\ \A g \in Live \ {f} : frame'[g] = frame[g]
  BY <1>0 DEF FrameOK, Live, Frame, SetSharedHash, Goto
<1>a. \A p \in Procs : \A s \in Cached(p) : NotOlder(frame[f].seen, s)
  BY <1>0 DEF Ordered, WriterIsNewest, WriterPcs
<1>b. Within(frame[f].seen) /\ NotOlder(frame[f].seen, frame[f].seen)
  BY <1>0, NotOlderThanItself DEF Ordered, WriterIsNewest, WriterPcs
<1>2. NotAhead'
  BY <1>0, <1>b DEF Ordered, NotAhead, Cached, Within
<1>3. LocalNotOlder'
  BY <1>0 DEF Ordered, LocalNotOlder
<1>4. WriterIsNewest'
  BY <1>0, <1>1, <1>a, <1>b DEF WriterIsNewest, Cached, Within
<1>5. WriterTraces'
  BY <1>0, <1>1 DEF WriterTraces, Proc, WriterPcs
<1>6. HashOfSchema'
  BY <1>0, <1>1 DEF Ordered, HashOfSchema, Proc, WriterPcs
<1> QED
  BY <1>2, <1>3, <1>4, <1>5, <1>6 DEF Ordered

\* ... then to its process's schema ...
LEMMA SetLocalSchemaOrdered ==
    ASSUME TypeOK, Exclusive, Ordered, NEW f \in Live, SetLocalSchema(f)
    PROVE  Ordered'
<1>0. /\ FrameOK /\ frame[f].pc = "setLocalSchema" /\ frame[f] \in Frame
      /\ \A g \in Live \ {f} : frame[g].pc \notin WriterPcs
      /\ localSchema' = [localSchema EXCEPT ![Proc(f)] = frame[f].seen]
      /\ localSchema \in [Procs -> Schema] /\ Proc(f) \in Procs
      /\ UNCHANGED <<sharedHash, localHash, taken, db>>
  BY OnlyWriter, HomeAssumption
     DEF TypeOK, FrameOK, SetLocalSchema, At, BuilderPcs, env, Proc, Frame
<1>1. /\ Live' = Live /\ frame'[f].call = frame[f].call
      /\ frame'[f].pc = "setLocalHash" /\ frame'[f].seen = frame[f].seen
      /\ \A g \in Live \ {f} : frame'[g] = frame[g]
  BY <1>0 DEF FrameOK, Live, Frame, SetLocalSchema, Goto
<1>a. \A p \in Procs : \A s \in Cached(p) : NotOlder(frame[f].seen, s)
  BY <1>0 DEF Ordered, WriterIsNewest, WriterPcs
<1>b. Within(frame[f].seen) /\ NotOlder(frame[f].seen, frame[f].seen)
  BY <1>0, NotOlderThanItself DEF Ordered, WriterIsNewest, WriterPcs
<1>c. \A p \in Procs : localSchema'[p] \in {localSchema[p], frame[f].seen}
  BY <1>0
<1>2. NotAhead'
  BY <1>0, <1>b, <1>c DEF Ordered, NotAhead, Cached, Within
<1>3. LocalNotOlder'
  BY <1>0, <1>a, <1>c DEF Ordered, LocalNotOlder, Cached
<1>4. WriterIsNewest'
  BY <1>0, <1>1, <1>a, <1>b, <1>c DEF WriterIsNewest, Cached, Within
<1>5. WriterTraces'
  BY <1>0, <1>1 DEF Ordered, WriterTraces, Proc, WriterPcs
<1>6. HashOfSchema'
  <2>1. \A p \in Procs \ {Proc(f)} : localSchema'[p] = localSchema[p]
    BY <1>0
  <2>2. Proc(f)' = Proc(f)
    BY <1>1 DEF Proc
  <2> QED
    BY <1>0, <1>1, <2>1, <2>2 DEF Ordered, HashOfSchema, Proc, WriterPcs
<1> QED
  BY <1>2, <1>3, <1>4, <1>5, <1>6 DEF Ordered

\* ... and to its process's hash; it takes nothing older into use.
LEMMA SetLocalHashOrdered ==
    ASSUME TypeOK, Exclusive, Ordered, NEW f \in Live, SetLocalHash(f)
    PROVE  Ordered' /\ NotOlder(taken'[Proc(f)], taken[Proc(f)])
<1>0. /\ FrameOK /\ frame[f].pc = "setLocalHash" /\ frame[f] \in Frame
      /\ \A g \in Live \ {f} : frame[g].pc \notin WriterPcs
      /\ localHash' = [localHash EXCEPT ![Proc(f)] = frame[f].seen]
      /\ taken' = [taken EXCEPT ![Proc(f)] = frame[f].seen]
      /\ localHash \in [Procs -> Schema] /\ taken \in [Procs -> Schema]
      /\ Proc(f) \in Procs
      /\ UNCHANGED <<sharedHash, localSchema, db>>
  BY OnlyWriter, HomeAssumption
     DEF TypeOK, FrameOK, SetLocalHash, At, BuilderPcs, env, Proc, Frame
<1>1. /\ Live' = Live /\ frame'[f].call = frame[f].call
      /\ frame'[f].pc = "release" /\ frame'[f].seen = frame[f].seen
      /\ \A g \in Live \ {f} : frame'[g] = frame[g]
  BY <1>0 DEF FrameOK, Live, Frame, SetLocalHash, Goto
<1>a. \A p \in Procs : \A s \in Cached(p) : NotOlder(frame[f].seen, s)
  BY <1>0 DEF Ordered, WriterIsNewest, WriterPcs
<1>b. Within(frame[f].seen) /\ NotOlder(frame[f].seen, frame[f].seen)
  BY <1>0, NotOlderThanItself DEF Ordered, WriterIsNewest, WriterPcs
<1>c. /\ \A p \in Procs \ {Proc(f)} : localHash'[p] = localHash[p] /\ taken'[p] = taken[p]
      /\ localHash'[Proc(f)] = frame[f].seen /\ taken'[Proc(f)] = frame[f].seen
  BY <1>0
<1>d. localSchema[Proc(f)] \in {Absent, frame[f].seen}
  BY <1>0 DEF Ordered, WriterTraces
<1>e. \A g \in Live' : frame'[g].pc \notin WriterPcs
  BY <1>0, <1>1 DEF WriterPcs
<1>2. NotAhead'
  BY <1>0, <1>b, <1>c DEF Ordered, NotAhead, Cached, Within
<1>3. LocalNotOlder'
  BY <1>0, <1>b, <1>c, <1>d DEF Ordered, LocalNotOlder
<1>4. WriterIsNewest'
  BY <1>e DEF WriterIsNewest
<1>5. WriterTraces'
  BY <1>e DEF WriterTraces, WriterPcs
<1>6. HashOfSchema'
  BY <1>0, <1>1, <1>c, <1>d DEF Ordered, HashOfSchema, Proc, WriterPcs
<1>7. NotOlder(taken'[Proc(f)], taken[Proc(f)])
  BY <1>0, <1>a, <1>c DEF Cached
<1> QED
  BY <1>2, <1>3, <1>4, <1>5, <1>6, <1>7 DEF Ordered

\* A hit serves a version that is not older than the last one used.
LEMMA GetLocalSchemaOrdered ==
    ASSUME TypeOK, Ordered, NEW f \in Live, GetLocalSchema(f)
    PROVE  Ordered' /\ NotOlder(taken'[Proc(f)], taken[Proc(f)])
<1>0. /\ FrameOK /\ frame[f].pc = "localSchema" /\ frame[f].pc \notin WriterPcs
      /\ Proc(f) \in Procs /\ taken \in [Procs -> Schema]
      /\ localSchema \in [Procs -> Schema] /\ Absent \in Schema
      /\ UNCHANGED <<sharedHash, localSchema, localHash, db>>
  BY HomeAssumption, AbsentType
     DEF TypeOK, FrameOK, GetLocalSchema, At, WriterPcs, env, Proc, Frame
<1>1. CASE localSchema[Proc(f)] = Absent
  <2>1. Goto(f, "increment") /\ taken' = taken
    BY <1>1 DEF GetLocalSchema
  <2>2. "increment" \in Pcs \ WriterPcs /\ "ok" \in Outcomes
    BY DEF Pcs, WriterPcs, Outcomes
  <2>3. SameWriters
    BY <1>0, <2>1, <2>2, MoveWriters, 0 \in Nat
  <2> QED
    BY <1>0, <2>1, <2>3, OrderedStays, NotOlderThanItself
<1>2. CASE localSchema[Proc(f)] # Absent
  <2>1. Return(f, "ok") /\ taken' = [taken EXCEPT ![Proc(f)] = localSchema[Proc(f)]]
    BY <1>2 DEF GetLocalSchema
  <2>2. SameWriters
    BY <1>0, <2>1, ReturnWriters DEF Outcomes
  <2>3. \A p \in Procs : taken'[p] \in {taken[p], localSchema[p]}
    BY <1>0, <2>1
  <2>4. taken'[Proc(f)] = localSchema[Proc(f)]
    BY <1>0, <2>1
  <2>5. NotAhead'
    BY <1>0, <2>3 DEF Ordered, NotAhead, Cached, Within
  <2>6. LocalNotOlder'
    BY <1>0, <2>3, NotOlderThanItself DEF Ordered, LocalNotOlder
  <2>7. WriterIsNewest'
    BY <1>0, <2>2, <2>3 DEF Ordered, WriterIsNewest, Cached, SameWriters, Within
  <2>8. WriterTraces'
    BY <1>0, <2>2 DEF Ordered, WriterTraces, Proc, SameWriters, WriterPcs
  <2>9. HashOfSchema'
    BY <1>0, <2>2 DEF Ordered, HashOfSchema, Proc, SameWriters, WriterPcs
  <2>10. NotOlder(taken'[Proc(f)], taken[Proc(f)])
    BY <1>0, <1>2, <2>4 DEF Ordered, LocalNotOlder
  <2> QED
    BY <2>5, <2>6, <2>7, <2>8, <2>9, <2>10 DEF Ordered
<1> QED
  BY <1>1, <1>2

\* A step of one frame keeps the order, and no process goes back.
LEMMA StepOrdered ==
    ASSUME TypeOK, Exclusive, Ordered, NEW f \in Live, Step(f)
    PROVE  Ordered' /\ \A p \in Procs : NotOlder(taken'[p], taken[p])
<1> USE DEF store, bus, env
<1> DEFINE Same == UNCHANGED <<sharedHash, localSchema, localHash, taken, db>>
<1>0. /\ FrameOK /\ frame[f] \in Frame /\ sharedHash \in Schema
      /\ taken \in [Procs -> Schema] /\ Proc(f) \in Procs /\ Absent \in Schema
      /\ "ok" \in Outcomes /\ "failed" \in Outcomes /\ "loop" \in Outcomes
      /\ lock + 1 \in Nat
  BY HomeAssumption, AbsentType
     DEF TypeOK, FrameOK, Outcomes, Proc, Frame
<1>a. ASSUME SameWriters, Same
      PROVE  Ordered' /\ \A p \in Procs : NotOlder(taken'[p], taken[p])
  BY <1>0, <1>a, OrderedStays, NotOlderThanItself
<1>b. ASSUME frame[f].pc \notin WriterPcs, Same,
             NEW pc \in Pcs \ WriterPcs, NEW v \in Schema,
             Goto(f, pc) \/ GotoWith(f, pc, v)
      PROVE  Ordered' /\ \A p \in Procs : NotOlder(taken'[p], taken[p])
  <2>1. SameWriters
    BY <1>0, <1>b, MoveWriters
  <2> QED
    BY <1>a, <1>b, <2>1
<1>c. ASSUME frame[f].pc \notin WriterPcs, Same,
             NEW out \in Outcomes, Return(f, out)
      PROVE  Ordered' /\ \A p \in Procs : NotOlder(taken'[p], taken[p])
  BY <1>0, <1>a, <1>c, ReturnWriters
<1>d. \A pc \in {"increment", "localHash", "localSchema", "waiting", "publish",
               "bypassRest"} :
         pc \in Pcs \ WriterPcs
  BY DEF Pcs, WriterPcs
<1>1. CASE GiveUp(f)
  BY <1>1, <1>0, <1>c DEF GiveUp, At, WriterPcs
<1>2. CASE ReadBypass(f) \/ ReadBypassRest(f)
  <2>1. /\ frame[f].pc \notin WriterPcs /\ Same
        /\ Goto(f, "bypassRest") \/ Return(f, "ok") \/ Return(f, "failed")
    BY <1>2 DEF ReadBypass, ReadBypassRest, At, WriterPcs
  <2> QED
    BY <2>1, <1>0, <1>b, <1>c, <1>d
<1>3. CASE GetSharedHash(f)
  <2>1. /\ frame[f].pc \notin WriterPcs /\ Same
        /\ Goto(f, "increment") \/ GotoWith(f, "localHash", sharedHash)
    BY <1>3 DEF GetSharedHash, At, WriterPcs
  <2> QED
    BY <2>1, <1>0, <1>b, <1>d
<1>4. CASE GetLocalHash(f)
  <2>1. /\ frame[f].pc \notin WriterPcs /\ Same
        /\ Goto(f, "increment") \/ Goto(f, "localSchema")
    BY <1>4 DEF GetLocalHash, At, WriterPcs
  <2> QED
    BY <2>1, <1>0, <1>b, <1>d
<1>5. CASE GetLocalSchema(f)
  <2>1. \A p \in Procs \ {Proc(f)} : taken'[p] = taken[p]
    BY <1>5, <1>0 DEF GetLocalSchema
  <2> QED
    BY <1>5, <1>0, <2>1, GetLocalSchemaOrdered, NotOlderThanItself
<1>6. CASE Increment(f)
  <2> DEFINE pc == IF lock + 1 >= MaxIterations THEN "reset" ELSE Role(lock + 1)
  <2>1. pc \in Pcs \ WriterPcs
    BY DEF Role, Pcs, WriterPcs
  <2>2. frame' = [frame EXCEPT ![f].pid = lock + 1, ![f].pc = pc]
    BY <1>6 DEF Increment
  <2>3. frame[f].pc \notin WriterPcs /\ Same
    BY <1>6 DEF Increment, At, WriterPcs
  <2>4. SameWriters
    BY <2>1, <2>2, <2>3, <1>0, MoveWriters
  <2> QED
    BY <2>3, <2>4, <1>a
<1>7. CASE Reset(f)
  BY <1>7 DEF Reset, At, Exclusive
<1>8. CASE Subscribe(f)
  <2>1. /\ frame[f].pc \notin WriterPcs /\ Same /\ Goto(f, "waiting")
    BY <1>8 DEF Subscribe, At, WriterPcs
  <2> QED
    BY <2>1, <1>0, <1>b, <1>d
<1>9. CASE Timeout(f)
  <2>1. SameWriters
    BY <1>9, <1>0, CallbacksWriters DEF Timeout
  <2> QED
    BY <1>9, <2>1, <1>a DEF Timeout
<1>10. CASE ReadDatabase(f)
  BY <1>10, <1>0, ReadDatabaseOrdered, NotOlderThanItself DEF ReadDatabase
<1>16. CASE ReadRest(f)
  BY <1>16, <1>0, ReadRestOrdered, NotOlderThanItself DEF ReadRest
<1>11. CASE SetSharedHash(f)
  BY <1>11, <1>0, SetSharedHashOrdered, NotOlderThanItself DEF SetSharedHash
<1>12. CASE SetLocalSchema(f)
  <2>1. taken' = taken
    BY <1>12 DEF SetLocalSchema
  <2> QED
    BY <1>12, <1>0, <2>1, SetLocalSchemaOrdered, NotOlderThanItself
<1>13. CASE SetLocalHash(f)
  <2>1. \A p \in Procs \ {Proc(f)} : taken'[p] = taken[p]
    BY <1>13, <1>0 DEF SetLocalHash
  <2> QED
    BY <1>13, <1>0, <2>1, SetLocalHashOrdered, NotOlderThanItself
<1>14. CASE Release(f)
  <2>1. /\ frame[f].pc \notin WriterPcs /\ Same /\ Goto(f, "publish")
    BY <1>14 DEF Release, At, WriterPcs
  <2> QED
    BY <2>1, <1>0, <1>b, <1>d
<1>15. CASE Publish(f)
  <2>1. /\ frame[f].pc \notin WriterPcs /\ Same /\ Return(f, frame[f].out)
        /\ frame[f].out \in Outcomes
    BY <1>15, <1>0 DEF Publish, At, WriterPcs, Frame
  <2> QED
    BY <2>1, <1>c
<1> QED
  BY <1>1, <1>2, <1>3, <1>4, <1>5, <1>6, <1>7, <1>8, <1>9, <1>10, <1>11,
     <1>12, <1>13, <1>14, <1>15, <1>16 DEF Step

\* A crash takes the crashed process's cache with its frames.
LEMMA CrashOrdered ==
    ASSUME TypeOK, Ordered, NEW p \in Procs, Crash(p)
    PROVE  Ordered'
<1>0. /\ Live' = {g \in Live : Proc(g) # p}
      /\ \A g \in Live' : frame'[g] = frame[g]
      /\ UNCHANGED <<sharedHash, taken, db>>
      /\ \A q \in Procs \ {p} : localSchema'[q] = localSchema[q] /\ localHash'[q] = localHash[q]
      /\ localSchema'[p] = Absent /\ localHash'[p] = Absent
  BY DEF Crash, Live, TypeOK
<1>a. Within(Absent)
  BY AbsentOldest, AbsentType
<1>1. NotAhead'
  BY <1>0, <1>a DEF Ordered, NotAhead, Cached, Within
<1>2. WriterIsNewest'
  <2> SUFFICES ASSUME NEW g \in Live', frame'[g].pc \in WriterPcs
               PROVE  /\ Within(frame'[g].seen)
                      /\ frame'[g].pc = "readRest" => frame'[g].seen.from = frame'[g].seen.upto
                      /\ \A q \in Procs : \A s \in Cached(q)' : NotOlder(frame'[g].seen, s)
    BY <1>0 DEF WriterIsNewest, Within
  <2>1. g \in Live /\ frame'[g] = frame[g] /\ frame[g].seen \in Schema
    BY <1>0 DEF TypeOK, Frame
  <2>2. /\ Within(frame[g].seen)
        /\ frame[g].pc = "readRest" => frame[g].seen.from = frame[g].seen.upto
        /\ \A q \in Procs : \A s \in Cached(q) : NotOlder(frame[g].seen, s)
    BY <2>1 DEF Ordered, WriterIsNewest
  <2>3. NotOlder(frame[g].seen, Absent)
    BY <2>1, AbsentOldest
  <2> QED
    BY <1>0, <2>1, <2>2, <2>3 DEF Cached
<1>3. LocalNotOlder'
  BY <1>0 DEF Ordered, LocalNotOlder
<1>4. WriterTraces'
  <2> SUFFICES ASSUME NEW g \in Live'
               PROVE  /\ frame'[g].pc \in {"setLocalSchema", "setLocalHash"}
                            => sharedHash' \in {Absent, frame'[g].seen}
                      /\ frame'[g].pc = "setLocalHash"
                            => localSchema'[Home[frame'[g].call]] \in {Absent, frame'[g].seen}
    BY DEF WriterTraces, Proc
  <2>1. g \in Live /\ frame'[g] = frame[g] /\ Proc(g) \in Procs \ {p}
    BY <1>0, HomeAssumption DEF TypeOK, Frame, Proc
  <2> QED
    BY <1>0, <2>1 DEF Ordered, WriterTraces, Proc
<1>5. HashOfSchema'
  <2> SUFFICES ASSUME NEW q \in Procs
               PROVE  \/ localHash'[q] = Absent
                      \/ localSchema'[q] \in {Absent, localHash'[q]}
                      \/ \E g \in Live' : /\ frame'[g].pc = "setLocalHash"
                                          /\ Home[frame'[g].call] = q
    BY DEF HashOfSchema, Proc
  <2>1. CASE q = p
    BY <1>0, <2>1
  <2>2. CASE q # p
    BY <1>0, <2>2 DEF Ordered, HashOfSchema, Proc
  <2> QED
    BY <2>1, <2>2
<1> QED
  BY <1>1, <1>2, <1>3, <1>4, <1>5 DEF Ordered

\* Clearing a cache and changing the database keep the order.
LEMMA MigrationOrdered ==
    ASSUME TypeOK, Ordered, Migrate \/ ClearShared \/ ClearLocal
    PROVE  Ordered'
<1>0. /\ frame' = frame /\ Live' = Live /\ taken' = taken
      /\ db \in Nat /\ db' \in {db, db + 1}
      /\ sharedHash' \in {sharedHash, Absent}
      /\ \A p \in Procs : \/ localSchema'[p] = localSchema[p] /\ localHash'[p] = localHash[p]
                          \/ localSchema'[p] = Absent /\ localHash'[p] = Absent
  BY DEF Migrate, ClearShared, ClearLocal, store, Live, TypeOK, Version
<1>1. \A p \in Procs : \A s \in Cached(p)' : s \in Cached(p) \cup {Absent}
  BY <1>0 DEF Cached
<1>2. \A p \in Procs : \A s \in Cached(p) : s \in Schema
  BY DEF TypeOK, Cached
<1>a. ASSUME NEW s \in Schema, Within(s)
      PROVE  Within(s)'
  <2>1. s.upto \in Nat
    BY DEF Schema, Version
  <2> QED
    BY <1>0, <1>a, <2>1 DEF Within
<1>b. Within(Absent)
  BY AbsentOldest, AbsentType
<1>3. NotAhead'
  <2> SUFFICES ASSUME NEW p \in Procs, NEW s \in Cached(p)'
               PROVE  Within(s)'
    BY DEF NotAhead
  <2>1. s \in Schema /\ Within(s)
    BY <1>1, <1>2, <1>b, AbsentType DEF Ordered, NotAhead
  <2> QED
    BY <1>a, <2>1
<1>4. WriterIsNewest'
  <2> SUFFICES ASSUME NEW g \in Live, frame[g].pc \in WriterPcs
               PROVE  /\ Within(frame[g].seen)'
                      /\ frame[g].pc = "readRest" => frame[g].seen.from = frame[g].seen.upto
                      /\ \A q \in Procs : \A s \in Cached(q)' : NotOlder(frame[g].seen, s)
    BY <1>0 DEF WriterIsNewest, Within
  <2>1. frame[g].seen \in Schema
    BY DEF TypeOK, Frame
  <2>2. /\ Within(frame[g].seen)
        /\ frame[g].pc = "readRest" => frame[g].seen.from = frame[g].seen.upto
        /\ \A q \in Procs : \A s \in Cached(q) : NotOlder(frame[g].seen, s)
    BY DEF Ordered, WriterIsNewest
  <2>3. NotOlder(frame[g].seen, Absent)
    BY <2>1, AbsentOldest
  <2>4. frame'[g].seen = frame[g].seen
    BY <1>0
  <2>5. Within(frame[g].seen)'
    <3>1. frame[g].seen.upto \in Nat
      BY <2>1 DEF Schema, Version
    <3> QED
      BY <1>0, <2>2, <2>4, <3>1 DEF Within
  <2> QED
    BY <1>1, <2>2, <2>3, <2>5
<1>5. LocalNotOlder'
  BY <1>0 DEF Ordered, LocalNotOlder
<1>6. WriterTraces'
  <2>1. \A g \in Live : Proc(g) \in Procs
    BY HomeAssumption DEF TypeOK, Frame, Proc
  <2> QED
    BY <1>0, <2>1 DEF Ordered, WriterTraces, Proc
<1>7. HashOfSchema'
  BY <1>0 DEF Ordered, HashOfSchema, Proc
<1> QED
  BY <1>3, <1>4, <1>5, <1>6, <1>7 DEF Ordered

\* Every step of the system keeps the order and takes nothing older into use.
LEMMA NextOrdered ==
    ASSUME TypeOK, Exclusive, Ordered, [Next]_vars
    PROVE  Ordered' /\ \A p \in Procs : NotOlder(taken'[p], taken[p])
<1> USE DEF store, bus, env
<1>0. FrameOK /\ \A p \in Procs : NotOlder(taken[p], taken[p])
  BY NotOlderThanItself DEF TypeOK, FrameOK
<1>1. CASE \E f \in Live : Step(f)
  BY <1>1, StepOrdered
<1>2. CASE UNCHANGED <<frame, store, db>>
  <2>1. SameWriters
    BY <1>2 DEF SameWriters, Live
  <2> QED
    BY <1>0, <1>2, <2>1, OrderedStays
<1>3. ASSUME NEW p \in Procs, Deliver(p)
      PROVE  Ordered' /\ taken' = taken
  <2>1. SameWriters
    BY <1>3, <1>0, CallbacksWriters DEF Deliver, Waiting
  <2> QED
    BY <1>3, <2>1, OrderedStays DEF Deliver
<1>4. ASSUME NEW c \in Calls, Call(c)
      PROVE  Ordered' /\ taken' = taken
  <2>1. NewFrame(c, 0).pc \in {"loop", "bypass", "sharedHash"}
    BY NewFrameType, 0 \in Nat
  <2>2. /\ Live \subseteq Live'
        /\ \A g \in Live : frame'[g] = frame[g]
        /\ \A g \in Live' \ Live : frame'[g] = NewFrame(c, 0)
    BY <1>4 DEF Call, Live
  <2>3. SameWriters
    BY <2>1, <2>2 DEF SameWriters, WriterPcs
  <2> QED
    BY <1>4, <2>3, OrderedStays DEF Call
<1>5. CASE Migrate \/ ClearShared \/ ClearLocal
  <2>1. taken' = taken
    BY <1>5 DEF Migrate, ClearShared, ClearLocal
  <2> QED
    BY <1>0, <1>5, <2>1, MigrationOrdered
<1>6. ASSUME NEW p \in Procs, Crash(p)
      PROVE  Ordered' /\ taken' = taken
  BY <1>6, CrashOrdered DEF Crash
<1>7. CASE \E p \in Procs : Subscribed(p)
  BY <1>7, <1>2 DEF Subscribed
<1>8. CASE UNCHANGED vars
  BY <1>8, <1>2 DEF vars
<1> QED
  BY <1>0, <1>1, <1>3, <1>4, <1>5, <1>6, <1>7, <1>8 DEF Next, System

\* With nothing stored and nobody building, there is nothing out of order.
LEMMA InitOrdered == Init => Ordered /\ Exclusive
<1> SUFFICES ASSUME Init
             PROVE  Ordered /\ Exclusive
  OBVIOUS
<1>1. Live = {} /\ Builders = {}
  BY DEF Init, Live, Builders
<1>2. \A p \in Procs : Cached(p) = {Absent}
  BY DEF Init, Cached
<1>3. Within(Absent)
  BY InitType, AbsentOldest, AbsentType
<1> QED
  BY <1>1, <1>2, <1>3 DEF Init, Ordered, NotAhead, WriterIsNewest, LocalNotOlder,
     WriterTraces, HashOfSchema, Exclusive

\* A local hash comes from the local schema, so equal hashes mean equal schemas.
LEMMA OrderedIsCoherent == Ordered => Coherent
BY DEF Ordered, Coherent, HashOfSchema, WriterTraces

(* A process whose hash agrees with the shared one serves the schema that  *)
(* hash was computed from, unless the counter reaches its maximum.         *)
THEOREM CacheCoherent == Spec /\ [](lock < MaxIterations) => []Coherent
<1>1. Init => TypeOK /\ Exclusive /\ Ordered
  BY InitType, InitOrdered
<1>2. TypeOK /\ Exclusive /\ Ordered /\ (lock < MaxIterations)' /\ [Next]_vars
        => TypeOK' /\ Exclusive' /\ Ordered'
  BY NextType, NextExclusive, NextOrdered
<1>3. Ordered => Coherent
  BY OrderedIsCoherent
<1> QED
  BY <1>1, <1>2, <1>3, PTL DEF Spec

(* No process ever takes an older schema into use than one it has used,    *)
(* across schema changes, cache clears and crashes, unless the counter     *)
(* reaches its maximum.                                                    *)
THEOREM NeverGoesBack == Spec /\ [](lock < MaxIterations) => NeverOlder
<1>1. Init => TypeOK /\ Exclusive /\ Ordered
  BY InitType, InitOrdered
<1>2. TypeOK /\ Exclusive /\ Ordered /\ (lock < MaxIterations)' /\ [Next]_vars
        => TypeOK' /\ Exclusive' /\ Ordered'
  BY NextType, NextExclusive, NextOrdered
<1>3. TypeOK /\ Exclusive /\ Ordered /\ [Next]_vars
        => [\A p \in Procs : NotOlder(taken'[p], taken[p])]_vars
  BY NextOrdered
<1> QED
  BY <1>1, <1>2, <1>3, PTL DEF Spec, NeverOlder

-----------------------------------------------------------------------------
(* Nobody waits in vain: what a waiting invocation's callback awaits is    *)
(* alive, and will settle it.                                              *)

\* The first element of an invocation's path is its caller's call; only a
\* waiting invocation's callback ever ran, and the last one awaits a live one.
Rooted(f) == f # <<>> /\ f[1] = frame[f].call
Awaited(f) == Append(f, frame[f].fired)
Woken(f) == frame[f].fired > 0 => frame[f].pc = "waiting" /\ Awaited(f) \in Live
WakeInv == \A f \in Live : Rooted(f) /\ Woken(f)

\* What an invocation's path says of the invocation above it: it starts in
\* the same call, and it is a prefix of every path this one is a prefix of.
LEMMA PathAbove ==
    ASSUME NEW g \in Path, g # <<>>, NEW x \in Calls \cup Nat
    PROVE  /\ Append(g, x) \in Path /\ Append(g, x) # <<>>
           /\ Append(g, x)[1] = g[1]
           /\ g = SubSeq(Append(g, x), 1, Len(g))
           /\ Len(g) \in 1 .. Len(Append(g, x)) - 1
           /\ \A f \in Path : \A n \in 1 .. Len(f) :
                 Append(g, x) = SubSeq(f, 1, n) =>
                     g = SubSeq(f, 1, Len(g)) /\ Len(g) \in 1 .. Len(f) - 1
<1> DEFINE T == Calls \cup Nat
<1>1. g \in Seq(T) /\ x \in T /\ Path = Seq(T)
  BY DEF Path
<1> HIDE DEF T
<1>2. /\ Append(g, x) \in Seq(T) /\ Len(Append(g, x)) = Len(g) + 1
      /\ Len(g) \in Nat \ {0}
      /\ \A i \in 1 .. Len(g) : Append(g, x)[i] = g[i]
  BY <1>1
<1>3. g = SubSeq(Append(g, x), 1, Len(g))
  BY <1>1, <1>2
<1>4. ASSUME NEW f \in Path, NEW n \in 1 .. Len(f), Append(g, x) = SubSeq(f, 1, n)
      PROVE  g = SubSeq(f, 1, Len(g)) /\ Len(g) \in 1 .. Len(f) - 1
  <2>1. f \in Seq(T) /\ Len(f) \in Nat /\ n \in Nat /\ n >= 1 /\ n <= Len(f)
    BY <1>1, <1>4
  <2>2. /\ Len(SubSeq(f, 1, n)) = n
        /\ \A i \in 1 .. n : SubSeq(f, 1, n)[i] = f[i]
    BY <2>1
  <2>3. n = Len(g) + 1
    BY <1>2, <1>4, <2>2
  <2>4. \A i \in 1 .. Len(g) : g[i] = f[i]
    BY <1>2, <1>4, <2>1, <2>2, <2>3
  <2> QED
    BY <1>1, <1>2, <2>1, <2>3, <2>4
<1> QED
  BY <1>1, <1>2, <1>3, <1>4

\* What is left of the invocations keeps the invariant when each keeps its
\* call, and each whose callback ran keeps waiting for one that is left.
LEMMA WakeStays ==
    ASSUME WakeInv, Live' \subseteq Live,
           \A g \in Live' : /\ frame'[g].call = frame[g].call
                            /\ frame'[g].fired = frame[g].fired
                            /\ frame[g].fired > 0 => /\ frame'[g].pc = frame[g].pc
                                                     /\ Awaited(g) \in Live'
    PROVE  WakeInv'
BY DEF WakeInv, Rooted, Woken, Awaited

\* A frame that moves in the code is not waiting.
LEMMA MoveWake ==
    ASSUME FrameOK, WakeInv, NEW f \in Live, frame[f].pc # "waiting",
           NEW pc \in Pcs, NEW v \in Schema, NEW n \in Nat, NEW out \in Outcomes,
           \/ Goto(f, pc) \/ GotoWith(f, pc, v)
           \/ frame' = [frame EXCEPT ![f].pid = n, ![f].pc = pc]
           \/ frame' = [frame EXCEPT ![f].pc = pc, ![f].out = out]
    PROVE  WakeInv'
<1>1. frame[f] \in Frame /\ frame[f].fired \in Nat
  BY DEF FrameOK, Frame
<1>2. frame'[f].fired = frame[f].fired
  BY <1>1 DEF Goto, GotoWith, FrameOK, Frame
<1>3. ~(frame[f].fired > 0)
  BY DEF WakeInv, Woken
<1>4. /\ Live' = Live
      /\ frame'[f].call = frame[f].call
      /\ \A g \in Live \ {f} : frame'[g] = frame[g]
  BY MoveType
<1>5. \A g \in Live : frame[g].fired > 0 => Awaited(g) \in Live
  BY DEF WakeInv, Woken
<1> QED
  BY <1>2, <1>3, <1>4, <1>5, WakeStays

\* An invocation that settles takes with it whoever awaited it.
LEMMA ReturnWake ==
    ASSUME FrameOK, WakeInv, NEW f \in Live, NEW out \in Outcomes, Return(f, out)
    PROVE  WakeInv'
<1> DEFINE ended == {f} \cup Above(f)
<1>1. frame' = [g \in Live \ ended |-> frame[g]]
  BY DEF Return, Settle
<1>2. Live' = Live \ ended /\ \A g \in Live' : frame'[g] = frame[g]
  BY <1>1 DEF Live
<1>3. ASSUME NEW g \in Live', frame[g].fired > 0
      PROVE  Awaited(g) \in Live'
  <2>1. g \in Live /\ g \in Path /\ f \in Path /\ g # <<>> /\ frame[g].fired \in Nat
    BY <1>2 DEF FrameOK, Frame, WakeInv, Rooted
  <2>2. frame[g].pc = "waiting" /\ Awaited(g) \in Live
    BY <1>3, <2>1 DEF WakeInv, Woken
  <2>3. SUFFICES ASSUME Awaited(g) \in ended PROVE FALSE
    BY <1>2, <2>2
  <2>4. g = SubSeq(f, 1, Len(g)) /\ Len(g) \in 1 .. Len(f) - 1
    <3>1. CASE Awaited(g) = f
      BY <3>1, <2>1, PathAbove DEF Awaited
    <3>2. CASE Awaited(g) \in Above(f)
      <4>1. PICK n \in 1 .. Len(f) - 1 : Awaited(g) = SubSeq(f, 1, n)
        BY <3>2 DEF Above
      <4>2. n \in 1 .. Len(f)
        BY <4>1, <2>1 DEF Path
      <4> QED
        BY <4>1, <4>2, <2>1, PathAbove DEF Awaited
    <3> QED
      BY <2>3, <3>1, <3>2
  <2>5. g \in Above(f)
    BY <2>1, <2>2, <2>4 DEF Above
  <2> QED
    BY <1>2, <2>5
<1> HIDE DEF ended
<1> QED
  BY <1>2, <1>3, WakeStays

\* A callback that runs leaves its frame with a new invocation to await.
LEMMA CallbacksWake ==
    ASSUME FrameOK, WakeInv, NEW F \in SUBSET Live, RunCallbacks(F),
           \A f \in F : frame[f].pc = "waiting"
    PROVE  WakeInv'
<1> DEFINE Up(g) == CHOOSE f \in F : g = Child(f)
           New(g) == NewFrame(frame[Up(g)].call, frame[Up(g)].attempt + 1)
           D == Live \cup {Child(f) : f \in F}
<1>1. frame' = [g \in D |-> IF g \in F THEN [frame[g] EXCEPT !.fired = @ + 1]
                            ELSE IF g \in Live THEN frame[g] ELSE New(g)]
  BY DEF RunCallbacks
<1>2. Live' = D
  BY <1>1 DEF Live
<1>3. \A g \in Live : g \in Path /\ frame[g] \in Frame /\ frame[g].fired \in Nat
  BY DEF FrameOK, Frame
<1>4. ASSUME NEW g \in F
      PROVE  Rooted(g)' /\ Woken(g)'
  <2>1. frame'[g] = [frame[g] EXCEPT !.fired = @ + 1]
    BY <1>1
  <2>2. /\ frame'[g].fired = frame[g].fired + 1 /\ frame'[g].pc = "waiting"
        /\ frame'[g].call = frame[g].call
    BY <1>3, <2>1 DEF Frame
  <2>3. Child(g) \in Live'
    BY <1>2
  <2> QED
    BY <2>2, <2>3 DEF WakeInv, Rooted, Woken, Awaited, Child
<1>5. ASSUME NEW g \in Live \ F
      PROVE  Rooted(g)' /\ Woken(g)'
  <2>1. frame'[g] = frame[g]
    BY <1>1
  <2> QED
    BY <1>2, <2>1 DEF WakeInv, Rooted, Woken, Awaited
<1>6. ASSUME NEW g \in D \ Live
      PROVE  Rooted(g)' /\ Woken(g)'
  <2>1. Up(g) \in F /\ g = Child(Up(g))
    OBVIOUS
  <2>2. frame'[g] = New(g)
    BY <1>1
  <2> HIDE DEF Up
  <2>3. frame'[g].fired = 0 /\ frame'[g].call = frame[Up(g)].call
    BY <2>2 DEF NewFrame
  <2>4. g # <<>> /\ g[1] = Up(g)[1]
    <3>1. /\ Up(g) \in Path /\ Up(g) # <<>>
          /\ frame[Up(g)].fired + 1 \in Calls \cup Nat
      BY <1>3, <2>1 DEF WakeInv, Rooted
    <3> QED
      BY <2>1, <3>1, PathAbove DEF Child
  <2>5. Up(g)[1] = frame[Up(g)].call
    BY <2>1 DEF WakeInv, Rooted
  <2> QED
    BY <2>3, <2>4, <2>5 DEF Rooted, Woken
<1> QED
  BY <1>2, <1>4, <1>5, <1>6 DEF WakeInv

\* One frame's step.
LEMMA StepWake ==
    ASSUME TypeOK, WakeInv, NEW f \in Live, Step(f)
    PROVE  WakeInv'
<1>0. /\ FrameOK /\ frame[f] \in Frame /\ frame[f].out \in Outcomes
      /\ frame[f].pid \in Nat /\ lock \in Nat /\ lock + 1 \in Nat
      /\ sharedHash \in Schema /\ Absent \in Schema
      /\ Stretch(db, db) \in Schema /\ Stretch(frame[f].seen.from, db) \in Schema
      /\ "ok" \in Outcomes /\ "failed" \in Outcomes /\ "loop" \in Outcomes
  BY AbsentType DEF TypeOK, FrameOK, Frame, Schema, Stretch, Outcomes
<1>1. CASE \/ GiveUp(f) \/ ReadBypassRest(f) \/ Publish(f)
  <2>1. \E out \in Outcomes : Return(f, out)
    BY <1>1, <1>0 DEF GiveUp, ReadBypassRest, Publish
  <2> QED
    BY <1>0, <2>1, ReturnWake
<1>2. CASE GetLocalSchema(f)
  <2>1. frame[f].pc # "waiting" /\ (Goto(f, "increment") \/ Return(f, "ok"))
    BY <1>2 DEF GetLocalSchema, At
  <2> QED
    BY <1>0, <2>1, MoveWake, ReturnWake DEF Pcs
<1>5. CASE ReadBypass(f)
  <2>1. /\ frame[f].pc # "waiting"
        /\ Goto(f, "bypassRest") \/ Return(f, "failed")
    BY <1>5 DEF ReadBypass, At
  <2> QED
    BY <1>0, <2>1, MoveWake, ReturnWake DEF Pcs
<1>3. CASE Timeout(f)
  <2>1. RunCallbacks({f}) /\ frame[f].pc = "waiting"
    BY <1>3 DEF Timeout, At
  <2> QED
    BY <1>0, <2>1, CallbacksWake
<1>4. CASE \/ GetSharedHash(f) \/ GetLocalHash(f) \/ Increment(f) \/ Reset(f)
           \/ Subscribe(f) \/ ReadDatabase(f) \/ ReadRest(f) \/ SetSharedHash(f)
           \/ SetLocalSchema(f) \/ SetLocalHash(f) \/ Release(f)
  <2>1. frame[f].pc # "waiting"
    BY <1>4 DEF At, GetSharedHash, GetLocalHash, Increment, Reset, Subscribe,
                ReadDatabase, ReadRest, SetSharedHash, SetLocalSchema, SetLocalHash, Release
  <2>2. \E pc \in Pcs, v \in Schema, n \in Nat, out \in Outcomes :
            \/ Goto(f, pc) \/ GotoWith(f, pc, v)
            \/ frame' = [frame EXCEPT ![f].pid = n, ![f].pc = pc]
            \/ frame' = [frame EXCEPT ![f].pc = pc, ![f].out = out]
    <3>1. CASE GetSharedHash(f)
      BY <3>1, <1>0 DEF GetSharedHash, Pcs
    <3>2. CASE GetLocalHash(f)
      BY <3>2, <1>0 DEF GetLocalHash, Pcs
    <3>3. CASE Increment(f)
      <4>1. (IF lock + 1 >= MaxIterations THEN "reset" ELSE Role(lock + 1)) \in Pcs
        BY DEF Role, Pcs
      <4> QED
        BY <3>3, <4>1, <1>0 DEF Increment
    <3>4. CASE Reset(f)
      <4>1. Role(frame[f].pid) \in Pcs
        BY DEF Role, Pcs
      <4> QED
        BY <3>4, <4>1, <1>0 DEF Reset
    <3>5. CASE ReadDatabase(f)
      BY <3>5, <1>0 DEF ReadDatabase, Pcs
    <3>7. CASE ReadRest(f)
      BY <3>7, <1>0 DEF ReadRest, Pcs
    <3>6. CASE \/ Subscribe(f) \/ SetSharedHash(f) \/ SetLocalSchema(f)
               \/ SetLocalHash(f) \/ Release(f)
      <4>1. \E pc \in Pcs : Goto(f, pc)
        BY <3>6 DEF Subscribe, SetSharedHash, SetLocalSchema, SetLocalHash, Release, Pcs
      <4> QED
        BY <4>1, <1>0
    <3> QED
      BY <1>4, <3>1, <3>2, <3>3, <3>4, <3>5, <3>6, <3>7
  <2> QED
    BY <1>0, <2>1, <2>2, MoveWake
<1> QED
  BY <1>1, <1>2, <1>3, <1>4, <1>5 DEF Step

\* Every step of the system, crashes included: the invocations of a process
\* die together, and what an invocation awaits runs in its own process.
LEMMA NextWake ==
    ASSUME TypeOK, WakeInv, [Next]_vars
    PROVE  WakeInv'
<1>0. FrameOK
  BY DEF TypeOK, FrameOK
<1>1. CASE \E f \in Live : Step(f)
  BY <1>1, StepWake
<1>2. CASE UNCHANGED frame
  BY <1>2 DEF WakeInv, Rooted, Woken, Awaited, Live
<1>3. ASSUME NEW p \in Procs, Deliver(p)
      PROVE  WakeInv'
  <2>1. /\ Waiting(p) \in SUBSET Live /\ RunCallbacks(Waiting(p))
        /\ \A f \in Waiting(p) : frame[f].pc = "waiting"
    BY <1>3 DEF Deliver, Waiting
  <2> QED
    BY <1>0, <2>1, CallbacksWake
<1>4. ASSUME NEW c \in Calls, Call(c)
      PROVE  WakeInv'
  <2>1. frame' = [g \in Live \cup {<<c>>} |->
                    IF g \in Live THEN frame[g] ELSE NewFrame(c, 0)]
    BY <1>4 DEF Call
  <2>2. Live' = Live \cup {<<c>>} /\ \A g \in Live : frame'[g] = frame[g]
    BY <2>1 DEF Live
  <2>3. ASSUME NEW g \in Live
        PROVE  Rooted(g)' /\ Woken(g)'
    BY <2>2 DEF WakeInv, Rooted, Woken, Awaited
  <2>4. ASSUME <<c>> \notin Live
        PROVE  Rooted(<<c>>)' /\ Woken(<<c>>)'
    <3>1. frame'[<<c>>].fired = 0 /\ frame'[<<c>>].call = c
      BY <2>1, <2>4 DEF NewFrame
    <3> QED
      BY <3>1 DEF Rooted, Woken
  <2> QED
    BY <2>2, <2>3, <2>4 DEF WakeInv
<1>5. ASSUME NEW p \in Procs, Crash(p)
      PROVE  WakeInv'
  <2>1. frame' = [f \in {g \in Live : Proc(g) # p} |-> frame[f]]
    BY <1>5 DEF Crash
  <2>2. Live' = {g \in Live : Proc(g) # p} /\ \A g \in Live' : frame'[g] = frame[g]
    BY <2>1 DEF Live
  <2>3. ASSUME NEW g \in Live', frame[g].fired > 0
        PROVE  Awaited(g) \in Live'
    <3>1. g \in Live /\ g \in Path /\ g # <<>> /\ frame[g].fired \in Nat
      BY <1>0, <2>2 DEF FrameOK, Frame, WakeInv, Rooted
    <3>2. Awaited(g) \in Live
      BY <2>3, <3>1 DEF WakeInv, Woken
    <3>3. Awaited(g)[1] = g[1]
      BY <3>1, PathAbove DEF Awaited
    <3>4. frame[Awaited(g)].call = frame[g].call
      BY <3>1, <3>2, <3>3 DEF WakeInv, Rooted
    <3> QED
      BY <2>2, <3>2, <3>4 DEF Proc
  <2> QED
    BY <2>2, <2>3, WakeStays
<1> QED
  BY <1>1, <1>2, <1>3, <1>4, <1>5
     DEF Next, System, Subscribed, ClearShared, ClearLocal, Migrate, vars

(* No invocation waits in vain: one whose callback has run, and whose      *)
(* timer is therefore spent, has a live invocation below it that settles   *)
(* it when it returns, whatever crashes, fails or is reset meanwhile.      *)
THEOREM WaitersAreWoken == Spec => []WaiterHasWakeup
<1>1. Init => TypeOK /\ WakeInv
  BY InitType DEF Init, WakeInv, Live
<1>2. TypeOK /\ WakeInv /\ [Next]_vars => TypeOK' /\ WakeInv'
  BY NextType, NextWake
<1>3. TypeOK /\ WakeInv => WaiterHasWakeup
  <2> SUFFICES ASSUME TypeOK, WakeInv, NEW f \in Live,
                      frame[f].pc = "waiting", frame[f].fired > 0
               PROVE  \E g \in Live : f \in Above(g)
    BY DEF WaiterHasWakeup
  <2>1. f \in Path /\ f # <<>> /\ frame[f].fired \in Calls \cup Nat
    BY DEF TypeOK, Frame, WakeInv, Rooted
  <2>2. Awaited(f) \in Live
    BY DEF WakeInv, Woken
  <2>3. /\ f = SubSeq(Awaited(f), 1, Len(f))
        /\ Len(f) \in 1 .. Len(Awaited(f)) - 1
    BY <2>1, PathAbove DEF Awaited
  <2>4. f \in Above(Awaited(f))
    BY <2>3 DEF Above
  <2> QED
    BY <2>2, <2>4
<1> QED
  BY <1>1, <1>2, <1>3, PTL DEF Spec

-----------------------------------------------------------------------------
(* getSchema implements what MonotonicReads promises.                      *)

\* A step that changes what processes have taken into use is one of a single
\* invocation, that leaves the database alone.
LEMMA StepTakes ==
    ASSUME NEW f \in Live, Step(f), TypeOK
    PROVE  /\ db' = db
           /\ \E v \in Schema : taken' = [taken EXCEPT ![Proc(f)] = v]
<1> USE DEF store, bus, env
<1>0. /\ Proc(f) \in Procs /\ frame[f].seen \in Schema
      /\ localSchema[Proc(f)] \in Schema /\ taken[Proc(f)] \in Schema
      /\ taken = [taken EXCEPT ![Proc(f)] = taken[Proc(f)]]
  BY HomeAssumption DEF TypeOK, Frame, Proc
<1>1. CASE GetLocalSchema(f)
  BY <1>0, <1>1 DEF GetLocalSchema
<1>2. CASE SetLocalHash(f)
  BY <1>0, <1>2 DEF SetLocalHash
<1>3. CASE ~GetLocalSchema(f) /\ ~SetLocalHash(f)
  <2>1. taken' = taken /\ db' = db
    BY <1>3 DEF Step, GiveUp, ReadBypass, ReadBypassRest, GetSharedHash, GetLocalHash, Increment,
       Reset, Subscribe, Timeout, ReadDatabase, ReadRest, SetSharedHash, SetLocalSchema,
       Release, Publish
  <2> QED
    BY <1>0, <2>1
<1> QED
  BY <1>1, <1>2, <1>3

\* Every step of the system is a change of the database, a schema that one
\* process takes into use, or neither.
LEMMA NextTakes ==
    ASSUME TypeOK, Exclusive, Ordered, [Next]_vars
    PROVE  [Reads!Next]_<<db, taken>>
<1>0. TypeOK' /\ Ordered' /\ \A p \in Procs : NotOlder(taken'[p], taken[p])
  BY NextType, NextOrdered
<1>1. CASE \E f \in Live : Step(f)
  <2>1. PICK f \in Live : Step(f)
    BY <1>1
  <2>2. Proc(f) \in Procs
    BY HomeAssumption DEF TypeOK, Frame, Proc
  <2>3. PICK s \in Schema : taken' = [taken EXCEPT ![Proc(f)] = s]
    BY <2>1, StepTakes
  <2>4. db' = db
    BY <2>1, StepTakes
  <2>5. taken'[Proc(f)] = s
    BY <2>2, <2>3 DEF TypeOK
  <2>6. s.from <= s.upto /\ s.upto <= db
    BY <1>0, <2>2, <2>4, <2>5 DEF Ordered, NotAhead, Cached, Within
  <2>7. CASE s = taken[Proc(f)]
    <3>1. taken' = taken
      BY <2>2, <2>3, <2>7 DEF TypeOK
    <3> QED
      BY <2>4, <3>1
  <2>8. CASE s # taken[Proc(f)]
    <3>1. taken[Proc(f)].upto <= s.from
      BY <1>0, <2>2, <2>5, <2>8 DEF NotOlder
    <3>2. /\ s.from \in Nat /\ s.upto \in Nat /\ db \in Nat
          /\ taken[Proc(f)].upto \in Nat
      BY <2>2 DEF TypeOK, Schema, Version
    <3>3. s.from \in taken[Proc(f)].upto .. db /\ s.upto \in s.from .. db
      BY <2>6, <3>1, <3>2
    <3>4. s = [from |-> s.from, upto |-> s.upto]
      BY DEF Schema
    <3>5. Reads!Take(Proc(f))
      BY <2>3, <2>4, <3>3, <3>4 DEF Reads!Take
    <3> QED
      BY <2>2, <3>5 DEF Reads!Next
  <2> QED
    BY <2>7, <2>8
<1>2. CASE Migrate
  BY <1>2 DEF Migrate, store, Reads!Next, Reads!Change
<1>3. CASE UNCHANGED <<db, taken>>
  BY <1>3
<1> QED
  BY <1>1, <1>2, <1>3
     DEF Next, System, Subscribed, Deliver, ClearShared, ClearLocal, Call, Crash,
         vars, store, env

(* getSchema implements MonotonicReads while the counter stays below its   *)
(* maximum.  A schema is read by several queries without a transaction and *)
(* may mix the versions of a stretch of the database's history; but these  *)
(* stretches follow one another in every process, and none is ahead of the *)
(* database, across schema changes, cache clears and crashes.              *)
THEOREM ReadsAreMonotonic == Spec /\ [](lock < MaxIterations) => Monotonic
<1>1. Init => TypeOK /\ Exclusive /\ Ordered
  BY InitType, InitOrdered
<1>2. Init => Reads!Init
  BY DEF Init, Reads!Init, Absent, Stretch
<1>3. TypeOK /\ Exclusive /\ Ordered /\ (lock < MaxIterations)' /\ [Next]_vars
        => TypeOK' /\ Exclusive' /\ Ordered'
  BY NextType, NextExclusive, NextOrdered
<1>4. TypeOK /\ Exclusive /\ Ordered /\ [Next]_vars
        => [Reads!Next]_<<db, taken>>
  BY NextTakes
<1> QED
  BY <1>1, <1>2, <1>3, <1>4, PTL DEF Spec, Monotonic, Reads!Spec
=============================================================================
