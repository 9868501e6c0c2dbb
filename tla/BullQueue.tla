----------------------------- MODULE BullQueue -----------------------------
(***************************************************************************)
(* A Bull queue in Redis, as the services use it: one named processor of   *)
(* concurrency one, one attempt per job, default settings.  The queue is   *)
(* durable; a job that is being processed is protected by a lock that the  *)
(* process renews.  A job found active without its lock (the process died, *)
(* or its event loop was blocked for longer than the lock lasts) is        *)
(* `stalled': it is put back at the head of the queue, at most             *)
(* MaxStalledCount times, and fails after that.                            *)
(***************************************************************************)
EXTENDS Integers, Sequences

CONSTANTS
    Job,
    MaxStalledCount     \* Bull's setting, 1 by default

VARIABLES
    wait,       \* the jobs waiting, in the order they will be taken
    active,     \* the jobs being processed, or left behind by a dead process
    locked,     \* the active jobs whose lock is held
    stalls      \* how often each job was found stalled

queueVars == <<wait, active, locked, stalls>>

QueueTypeOK ==
    /\ wait \in Seq(Job)
    /\ active \subseteq Job
    /\ locked \subseteq active
    /\ stalls \in [Job -> Nat]

QueueInit ==
    /\ wait = <<>>
    /\ active = {}
    /\ locked = {}
    /\ stalls = [j \in Job |-> 0]

\* queue.add: one Redis script, atomic.
Add(j) ==
    /\ wait' = Append(wait, j)
    /\ UNCHANGED <<active, locked, stalls>>

\* getNextJob: the job becomes active and its lock is taken.
Take(j) ==
    /\ wait # <<>>
    /\ j = Head(wait)
    /\ wait' = Tail(wait)
    /\ active' = active \cup {j}
    /\ locked' = locked \cup {j}
    /\ UNCHANGED stalls

\* moveToCompleted and moveToFailed: refused unless the lock is still held.
Settle(j) ==
    /\ j \in locked
    /\ active' = active \ {j}
    /\ locked' = locked \ {j}
    /\ UNCHANGED <<wait, stalls>>

\* The lock of a job that is being processed runs out before it is renewed.
LoseLock(j) ==
    /\ j \in locked
    /\ locked' = locked \ {j}
    /\ UNCHANGED <<wait, active, stalls>>

\* The process dies: nobody renews its locks.
LoseAllLocks ==
    /\ locked' = {}
    /\ UNCHANGED <<wait, active, stalls>>

\* moveUnlockedJobsToWait: an active job without a lock is taken up again ...
Requeue(j) ==
    /\ j \in active \ locked
    /\ stalls[j] < MaxStalledCount
    /\ wait' = <<j>> \o wait
    /\ active' = active \ {j}
    /\ stalls' = [stalls EXCEPT ![j] = @ + 1]
    /\ UNCHANGED locked

\* ... or fails for good: `job stalled more than allowable limit'.
GiveUp(j) ==
    /\ j \in active \ locked
    /\ stalls[j] >= MaxStalledCount
    /\ active' = active \ {j}
    /\ stalls' = [stalls EXCEPT ![j] = @ + 1]
    /\ UNCHANGED <<wait, locked>>
=============================================================================
