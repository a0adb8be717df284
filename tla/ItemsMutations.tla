--------------------------- MODULE ItemsMutations ---------------------------
(***************************************************************************)
(* The mutations of ItemsService (api/src/services/items.ts) by one        *)
(* process of the API: what they write in a transaction (api/src/utils/    *)
(* transaction.ts), which action events they emit, and when they purge the *)
(* response cache, with GET requests that fill and use that cache          *)
(* (api/src/middleware/cache.ts and respond.ts).                           *)
(*                                                                         *)
(* A mutation has a number of payloads, each with a related item nested in *)
(* it or not.  A write, and the event that announces it, is named by the   *)
(* mutation, the payload, whether it is the payload's own row or the       *)
(* nested item's, and the attempt it was made in: a retried transaction    *)
(* makes other rows.  What a GET returns is the number of transactions     *)
(* that had committed when it was read.                                    *)
(***************************************************************************)
EXTENDS Naturals, Sequences, FiniteSets

CONSTANTS
    Mutations,    \* the calls of mutating operations, each made once
    Menu,         \* what may be called, a set of calls
    Cockroach,    \* whether the database is CockroachDB
    MaxAttempts,  \* 1 + MAX_ATTEMPTS of transaction()
    MaxBatch,     \* MAX_BATCH_MUTATION
    SharedCache,  \* whether CACHE_STORE is redis, and outlives the process
    Readers,      \* clients that GET, one request at a time
    MaxGets,      \* bound: how many GETs are made
    MaxFaults     \* bound: errors, failed cache fills and crashes

Creating == {"create", "createMany"}
Changing == {"update", "delete"}
InTransaction == {"updateBatch", "upsertMany"}   \* emit before the commit
Single == {"create", "update", "delete"}         \* one payload, or one for all keys

\* An operation, how many payloads it has, and whether each nests an item.
Call == [op : Creating \cup Changing \cup InTransaction,
         payloads : Nat \ {0}, nested : BOOLEAN]

ASSUME MenuAssumption ==
    /\ Menu \subseteq Call
    /\ \A c \in Menu : /\ c.op \in Single => c.payloads = 1
                       /\ c.op = "delete" => ~c.nested
ASSUME SettingsAssumption ==
    /\ Cockroach \in BOOLEAN /\ SharedCache \in BOOLEAN
    /\ MaxAttempts \in Nat \ {0} /\ MaxBatch \in Nat \ {0}
    /\ MaxGets \in Nat /\ MaxFaults \in Nat

VARIABLES
    call,     \* what each mutation was called with; <<>> before
    pc,       \* where each mutation stands
    item,     \* the payload it is at
    attempt,  \* which attempt of its transaction is under way
    tracked,  \* mutationCount of its MutationTracker
    queue,    \* nestedActionEvents: the events put off until the commit
    emitted,  \* history: the events emitted
    commits,  \* the mutations whose transaction committed, in that order
    cache,    \* the response cache: no entry or one
    reader,   \* where each client's GET stands
    gets,     \* how many GETs were made
    faults    \* how many faults happened

vars == <<call, pc, item, attempt, tracked, queue, emitted, commits, cache, reader, gets, faults>>
mutation == <<call, pc, item, attempt, tracked, queue, emitted, commits>>
client == <<reader, gets>>

Pcs == {"idle", "child", "purgeChild", "own", "commit", "announce", "purge",
        "finally", "done", "failed", "lost"}
Running(m) == pc[m] \notin {"idle", "done", "failed", "lost"}

Write == [of : Mutations, item : Nat, kind : {"own", "child"}, attempt : Nat]

\* snap: the commits the response shows; at: the commits when it was cached.
Entry == [snap : Nat, at : Nat]
Get == [pc : {"idle", "lookup", "read", "fill", "replied"}, since : Nat, snap : Nat, at : Nat]

WriteOf(m, kind) == [of |-> m, item |-> item[m], kind |-> kind, attempt |-> attempt[m]]
Committed == {commits[i] : i \in DOMAIN commits}

Op(m) == call[m].op
Payloads(m) == call[m].payloads
Nested(m) == call[m].nested

\* The first step of a payload.
Start(m) == IF Nested(m) THEN "child" ELSE "own"

Init ==
    /\ call = [m \in Mutations |-> <<>>]
    /\ pc = [m \in Mutations |-> "idle"]
    /\ item = [m \in Mutations |-> 1]
    /\ attempt = [m \in Mutations |-> 1]
    /\ tracked = [m \in Mutations |-> 0]
    /\ queue = [m \in Mutations |-> {}]
    /\ emitted = {}
    /\ commits = <<>>
    /\ cache = {}
    /\ reader = [q \in Readers |-> [pc |-> "idle", since |-> 0, snap |-> 0, at |-> 0]]
    /\ gets = 0
    /\ faults = 0

Fault == faults < MaxFaults /\ faults' = faults + 1
Goto(m, step) == pc' = [pc EXCEPT ![m] = step]

-----------------------------------------------------------------------------
(* Inside the transaction.                                                 *)

\* One mutation is tracked at once by create, update and delete, which
\* precede their transaction; the others track each payload inside it.
Begin(m) ==
    /\ pc[m] = "idle"
    /\ \E c \in Menu :
        /\ call' = [call EXCEPT ![m] = c]
        /\ Goto(m, IF c.nested THEN "child" ELSE "own")
        /\ tracked' = [tracked EXCEPT ![m] = IF c.op \in Single THEN 1 ELSE 0]
    /\ UNCHANGED <<item, attempt, queue, emitted, commits, cache, client, faults>>

\* Mutant of Tracks: nested items are not counted.
TracksOwn(m) == pc[m] = "own" /\ Op(m) \notin Single

\* Whether the next write counts as a mutation.
Tracks(m) == pc[m] = "child" \/ (pc[m] = "own" /\ Op(m) \notin Single)

OverLimit(m) == Tracks(m) /\ tracked[m] + 1 > MaxBatch

Track(m) == tracked' = [tracked EXCEPT ![m] = IF Tracks(m) THEN @ + 1 ELSE @]

\* PayloadService saves the related item with a service of its own ...
WriteChild(m) ==
    /\ pc[m] = "child"
    /\ ~OverLimit(m)
    /\ Track(m)
    /\ Goto(m, "purgeChild")
    /\ UNCHANGED <<call, item, attempt, queue, emitted, commits, cache, client, faults>>

\* ... that purges the cache while the transaction is open.
PurgeChild(m) ==
    /\ pc[m] = "purgeChild"
    /\ cache' = {}
    /\ Goto(m, "own")
    /\ UNCHANGED <<call, item, attempt, tracked, queue, emitted, commits, client, faults>>

\* Mutant of Deferred: createMany lets its services emit.
DeferredSingle(m) == Op(m) \in Single

\* Whether the events wait for the end of the transaction.
Deferred(m) == Op(m) \notin InTransaction

\* Mutant of PayloadEvents: the nested services' events are dropped.
OwnEvents(m) == {WriteOf(m, "own")}

\* The events of the payload just written.
PayloadEvents(m) ==
    {WriteOf(m, "own")} \cup (IF Nested(m) THEN {WriteOf(m, "child")} ELSE {})

\* The row itself, and where its events go.
WriteOwn(m) ==
    /\ pc[m] = "own"
    /\ ~OverLimit(m)
    /\ Track(m)
    /\ \/ /\ Deferred(m)
          /\ queue' = [queue EXCEPT ![m] = @ \cup
                (IF Op(m) \in Single THEN PayloadEvents(m) \ {WriteOf(m, "own")}
                 ELSE PayloadEvents(m))]
          /\ UNCHANGED emitted
       \/ /\ ~Deferred(m)
          /\ emitted' = emitted \cup PayloadEvents(m)
          /\ UNCHANGED queue
    /\ \/ item[m] < Payloads(m) /\ item' = [item EXCEPT ![m] = @ + 1] /\ Goto(m, Start(m))
       \/ item[m] = Payloads(m) /\ UNCHANGED item /\ Goto(m, "commit")
    /\ UNCHANGED <<call, attempt, commits, cache, client, faults>>

-----------------------------------------------------------------------------
(* The transaction ends.                                                   *)

\* Mutant of Kept: createMany collects its events outside of the transaction.
KeptAlways(m) == queue[m]

\* createOne and updateMany collect nested events outside of the handler
\* that transaction() runs again, createMany inside.
Kept(m) == IF Op(m) \in Single THEN queue[m] ELSE {}

\* Mutant of MayRetry: off by one.
MayRetryMore(m) == attempt[m] <= MaxAttempts

MayRetry(m) == attempt[m] < MaxAttempts

InDatabase(m) == pc[m] \in {"child", "own", "commit"}

\* The transaction is rolled back for good.  updateBatch purges in a finally.
Abort(m) ==
    /\ Goto(m, IF Op(m) = "updateBatch" THEN "finally" ELSE "failed")
    /\ queue' = [queue EXCEPT ![m] = {}]
    /\ UNCHANGED <<call, item, attempt, tracked, emitted, commits>>

\* A hook, the validation, the database or the limit on mutations refuses.
Fail(m) ==
    /\ InDatabase(m)
    /\ \/ OverLimit(m) /\ UNCHANGED faults
       \/ Fault
    /\ Abort(m)
    /\ UNCHANGED <<cache, client>>

\* CockroachDB asks to restart the transaction (code 40001).
Conflict(m) ==
    /\ Cockroach
    /\ InDatabase(m)
    /\ \/ /\ ~MayRetry(m)
          /\ Abort(m)
       \/ /\ MayRetry(m)
          /\ attempt' = [attempt EXCEPT ![m] = @ + 1]
          /\ item' = [item EXCEPT ![m] = 1]
          /\ Goto(m, Start(m))
          /\ queue' = [queue EXCEPT ![m] = Kept(m)]
          /\ UNCHANGED <<call, tracked, emitted, commits>>
    /\ UNCHANGED <<cache, client, faults>>

\* Mutant of After: updates announce before they purge, as creations do.
AfterAsCreated(m) ==
    CASE pc[m] = "commit" -> IF Deferred(m) THEN "announce" ELSE "purge"
      [] pc[m] = "announce" -> "purge"
      [] pc[m] = "purge" -> "done"
      [] pc[m] = "finally" -> "failed"

\* What follows the commit: creations announce, then purge; updates and
\* deletions purge, then announce; the others only purge.
After(m) ==
    CASE pc[m] = "commit" -> IF Op(m) \in Creating THEN "announce" ELSE "purge"
      [] pc[m] = "announce" -> IF Op(m) \in Creating THEN "purge" ELSE "done"
      [] pc[m] = "purge" -> IF Op(m) \in Changing THEN "announce" ELSE "done"
      [] pc[m] = "finally" -> "failed"

Commit(m) ==
    /\ pc[m] = "commit"
    /\ commits' = Append(commits, m)
    /\ Goto(m, After(m))
    /\ UNCHANGED <<call, item, attempt, tracked, queue, emitted, cache, client, faults>>

\* emitter.emitAction, for all the events without a pause.
Announce(m) ==
    /\ pc[m] = "announce"
    /\ emitted' = emitted \cup queue[m] \cup {WriteOf(m, "own")}
    /\ queue' = [queue EXCEPT ![m] = {}]
    /\ Goto(m, After(m))
    /\ UNCHANGED <<call, item, attempt, tracked, commits, cache, client, faults>>

\* cache.clear()
Purge(m) ==
    /\ pc[m] \in {"purge", "finally"}
    /\ cache' = {}
    /\ Goto(m, After(m))
    /\ UNCHANGED <<call, item, attempt, tracked, queue, emitted, commits, client, faults>>

-----------------------------------------------------------------------------
(* GET requests, the time to live of the cache, and crashes.               *)

\* How many of the first commits include all those of the mutations in M.
UpTo(M) ==
    CHOOSE n \in 0 .. Len(commits) :
        /\ n = 0 \/ commits[n] \in M
        /\ \A i \in n + 1 .. Len(commits) : commits[i] \notin M

\* The mutations clients know of: those answered, and the changes announced.
Known ==
    {m \in Mutations :
        \/ pc[m] = "done"
        \/ pc[m] # "idle" /\ Op(m) \in Changing /\ \E w \in emitted : w.of = m /\ w.kind = "own"}

Request(q) ==
    /\ reader[q].pc \in {"idle", "replied"}
    /\ gets < MaxGets
    /\ gets' = gets + 1
    /\ reader' = [reader EXCEPT ![q] =
                    [pc |-> "lookup", since |-> UpTo(Known), snap |-> 0, at |-> 0]]
    /\ UNCHANGED <<mutation, cache, faults>>

\* The cache middleware answers from the cache or passes the request on.
Lookup(q) ==
    /\ reader[q].pc = "lookup"
    /\ \/ \E e \in cache :
            reader' = [reader EXCEPT ![q] = [@ EXCEPT
                        !.pc = "replied", !.snap = e.snap, !.at = e.at]]
       \/ /\ cache = {}
          /\ reader' = [reader EXCEPT ![q].pc = "read"]
    /\ UNCHANGED <<mutation, cache, gets, faults>>

Read(q) ==
    /\ reader[q].pc = "read"
    /\ reader' = [reader EXCEPT ![q] = [@ EXCEPT !.pc = "fill", !.snap = Len(commits)]]
    /\ UNCHANGED <<mutation, cache, gets, faults>>

\* respond() puts the response into the cache; an error is only logged.
Fill(q) ==
    /\ reader[q].pc = "fill"
    /\ reader' = [reader EXCEPT ![q] = [@ EXCEPT !.pc = "replied", !.at = Len(commits)]]
    /\ \/ /\ cache' = {[snap |-> reader[q].snap, at |-> Len(commits)]}
          /\ UNCHANGED faults
       \/ Fault /\ UNCHANGED cache
    /\ UNCHANGED <<mutation, gets>>

\* CACHE_TTL has passed.
Expire ==
    /\ cache # {}
    /\ cache' = {}
    /\ UNCHANGED <<mutation, client, faults>>

\* The process dies: transactions are rolled back, a cache in memory is lost.
Crash ==
    /\ Fault
    /\ pc' = [m \in Mutations |-> IF Running(m) THEN "lost" ELSE pc[m]]
    /\ queue' = [m \in Mutations |-> {}]
    /\ reader' = [q \in Readers |-> [pc |-> "idle", since |-> 0, snap |-> 0, at |-> 0]]
    /\ cache' = IF SharedCache THEN cache ELSE {}
    /\ UNCHANGED <<call, item, attempt, tracked, emitted, commits, gets>>

Next ==
    \/ \E m \in Mutations :
        \/ Begin(m) \/ WriteChild(m) \/ PurgeChild(m) \/ WriteOwn(m)
        \/ Fail(m) \/ Conflict(m) \/ Commit(m) \/ Announce(m) \/ Purge(m)
    \/ \E q \in Readers : Request(q) \/ Lookup(q) \/ Read(q) \/ Fill(q)
    \/ Expire
    \/ Crash

Spec == Init /\ [][Next]_vars

-----------------------------------------------------------------------------
(* Properties.                                                             *)

TypeOK ==
    /\ call \in [Mutations -> Call \cup {<<>>}]
    /\ pc \in [Mutations -> Pcs]
    /\ item \in [Mutations -> Nat \ {0}] /\ attempt \in [Mutations -> 1 .. MaxAttempts]
    /\ tracked \in [Mutations -> Nat]
    /\ queue \in [Mutations -> SUBSET Write] /\ emitted \subseteq Write
    /\ commits \in Seq(Mutations)
    /\ cache \subseteq Entry /\ reader \in [Readers -> Get]
    /\ gets \in Nat /\ faults \in Nat

\* The writes in the database: those of the committed attempts.
Rows ==
    UNION {[of : {m}, item : 1 .. Payloads(m), attempt : {attempt[m]},
            kind : IF Nested(m) THEN {"own", "child"} ELSE {"own"}] : m \in Committed}

(* Action events run after the fact: one that waits for the end of its     *)
(* transaction announces a row that is in the database.  Those of nested   *)
(* items in a retried createOne or updateMany are the exception.           *)
DeferredEventsHappened ==
    \A w \in emitted :
        Op(w.of) \notin InTransaction =>
            /\ w.of \in Committed
            /\ w.attempt = attempt[w.of] \/ (w.kind = "child" /\ Op(w.of) \in Single)

(* A mutation that is answered has announced every row it wrote.           *)
AnsweredIsAnnounced ==
    \A w \in Rows : pc[w.of] = "done" => w \in emitted

(* A response that was current when it was cached is not served to a       *)
(* request made after a client could know of a newer commit, by its        *)
(* answer or by its event.                                                 *)
ServedFresh ==
    \A q \in Readers :
        LET r == reader[q] IN r.pc = "replied" /\ r.snap < r.since => r.snap < r.at

(* No transaction of more than MaxBatch items commits, however they are    *)
(* nested and whether or not it was retried.                               *)
LimitHolds ==
    \A m \in Committed : Cardinality({w \in Rows : w.of = m}) <= MaxBatch

(* "Action hooks execute after a defined event": no event is emitted for a  *)
(* mutation that fails and leaves nothing in the database.                 *)
NoEventOfFailure == \A w \in emitted : pc[w.of] # "failed"
=============================================================================
