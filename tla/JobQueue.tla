------------------------------ MODULE JobQueue ------------------------------
(***************************************************************************)
(* JobQueue (api/src/utils/job-queue.ts): jobs run one after the other.    *)
(* The job that runs is no longer in jobs.  A job that rejects ends run()  *)
(* with running still set, so a queue may be running with nothing to run.  *)
(***************************************************************************)
EXTENDS Naturals, Sequences

Queues(Jobs) == [running : BOOLEAN, jobs : Seq(Jobs)]

Quiet == [running |-> FALSE, jobs |-> <<>>]

\* Whether a job that is enqueued now runs at once, up to its first await.
RunsAtOnce(q) == ~q.running

Enqueue(q, job) ==
    IF RunsAtOnce(q) THEN [q EXCEPT !.running = TRUE]
                     ELSE [q EXCEPT !.jobs = Append(@, job)]

Waiting(q) == q.jobs # <<>>

\* Mutant of Continue: a run is one job.
ContinueOnce(q) == [q EXCEPT !.running = FALSE]

\* The job has resolved: the next one is shifted, or run() ends.
Continue(q) == IF Waiting(q) THEN [q EXCEPT !.jobs = Tail(@)] ELSE Quiet

Size(q) == Len(q.jobs)
=============================================================================
