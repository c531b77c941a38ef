--------------------------- MODULE ProjectionQueue ---------------------------
(***************************************************************************)
(* The queue that keeps the twin of a purchase order up to date.  A         *)
(* business transaction that touches the order enqueues a projection job   *)
(* (packages/persistence/src/twin-projection-enqueue.ts); the manufacturing *)
(* context worker leases the jobs (packages/context/src/projection-queue.ts) *)
(* and projects the order as it stands, whatever revision the job is of     *)
(* (apps/api/src/manufacturing-context-worker.ts).                         *)
(*                                                                         *)
(* One order and one worker: the runtime polls with a flag that keeps two   *)
(* batches of a process apart.  The jobs one transaction enqueues, for the  *)
(* order, its lines and events, are one.  Times are left out: a lease is    *)
(* live or has run out, and the wait before a retry has no length.         *)
(***************************************************************************)
EXTENDS Naturals, Sequences

CONSTANTS
  MaxProjections,   \* attempts of a job (8 in the code)
  MaxDisturbances   \* bound on crashes, leases that run out too early and people's interventions

ASSUME ProjectionAssumption == MaxProjections \in Nat \ {0} /\ MaxDisturbances \in Nat

VARIABLES
  jobs,         \* job k was enqueued by the k-th transaction that touched the order
  twin,         \* the last transaction the twin shows
  batch,        \* jobs the worker has claimed and not settled
  projected,    \* the job of the batch that is projected and not yet settled, or 0
  disturbances  \* how many of them happened so far

queue == <<jobs, twin, batch, projected>>

Job == [status : {"queued", "processing", "retry_wait", "succeeded", "dead_letter"},
        attempts : 0..MaxProjections, leased : BOOLEAN]

QueueTypeOK ==
  /\ jobs \in Seq(Job)
  /\ twin \in 0..Len(jobs)
  /\ batch \subseteq 1..Len(jobs)
  /\ projected \in batch \cup {0}
  /\ disturbances \in 0..MaxDisturbances

QueueInit ==
  /\ jobs = <<>>
  /\ twin = 0
  /\ batch = {}
  /\ projected = 0
  /\ disturbances = 0

\* A bounded number of times something goes wrong, or a person steps in.
Disturb ==
  /\ disturbances < MaxDisturbances
  /\ disturbances' = disturbances + 1

-----------------------------------------------------------------------------
\* The attempts of a job that is done count for nothing any more.
Unattempted(status) == [status |-> status, attempts |-> 0, leased |-> FALSE]

\* enqueueTwinProjectionInCurrentTransaction: the job is part of the transaction.
EnqueueProjection == jobs' = Append(jobs, Unattempted("queued"))

Expired(k) == jobs[k].status = "processing" /\ ~jobs[k].leased

\* Wrong: a job whose lease ran out is not looked at again.
NeverReclaimed(k) ==
  /\ jobs[k].attempts < MaxProjections
  /\ jobs[k].status \in {"queued", "retry_wait"}

Claimable(k) ==
  /\ jobs[k].attempts < MaxProjections
  /\ jobs[k].status \in {"queued", "retry_wait"} \/ Expired(k)

Exhausted(k) == Expired(k) /\ jobs[k].attempts >= MaxProjections

\* SqliteTwinProjectionQueue.claim, at the start of the worker's runOnce.
ClaimJobs ==
  /\ batch = {}
  /\ \E k \in DOMAIN jobs : Claimable(k) \/ Exhausted(k)
  /\ jobs' = [k \in DOMAIN jobs |->
       IF Exhausted(k) THEN Unattempted("dead_letter")
       ELSE IF Claimable(k)
         THEN [status |-> "processing", attempts |-> jobs[k].attempts + 1, leased |-> TRUE]
         ELSE jobs[k]]
  /\ batch' = {k \in DOMAIN jobs : Claimable(k)}
  /\ UNCHANGED <<twin, projected, disturbances>>

\* Wrong: a job is projected up to the transaction it was enqueued by.
ProjectOwnRevision(k) ==
  /\ k \in batch
  /\ projected = 0
  /\ twin' = k
  /\ projected' = k
  /\ UNCHANGED <<jobs, batch, disturbances>>

\* The projector reads the order's current rows.
Project(k) ==
  /\ k \in batch
  /\ projected = 0
  /\ twin' = Len(jobs)
  /\ projected' = k
  /\ UNCHANGED <<jobs, batch, disturbances>>

\* succeed and fail are refused once the lease ran out: the job stays as it is.
Settle(k, outcome) == jobs' = IF jobs[k].leased THEN [jobs EXCEPT ![k] = outcome] ELSE jobs

\* SqliteTwinProjectionQueue.succeed; a lost lease is swallowed by the worker.
Succeed(k) ==
  /\ projected = k
  /\ k \in batch
  /\ Settle(k, Unattempted("succeeded"))
  /\ batch' = batch \ {k}
  /\ projected' = 0
  /\ UNCHANGED <<twin, disturbances>>

\* The projector throws: SqliteTwinProjectionQueue.fail.
FailProjection(k) ==
  /\ k \in batch
  /\ projected = 0
  /\ Settle(k, IF jobs[k].attempts >= MaxProjections
                 THEN Unattempted("dead_letter")
                 ELSE [jobs[k] EXCEPT !.status = "retry_wait", !.leased = FALSE])
  /\ batch' = batch \ {k}
  /\ UNCHANGED <<twin, projected, disturbances>>

\* Wrong: the job under way is remembered.
WorkerDiesHalfway ==
  /\ batch # {}
  /\ Disturb
  /\ batch' = {}
  /\ UNCHANGED <<jobs, twin, projected>>

\* The process stops within a batch.
WorkerDies ==
  /\ batch # {}
  /\ Disturb
  /\ batch' = {}
  /\ projected' = 0
  /\ UNCHANGED <<jobs, twin>>

\* 60 seconds after the claim.  A batch that takes longer is disturbed by it.
JobLeaseEnds(k) ==
  /\ k \in DOMAIN jobs
  /\ jobs[k].status = "processing" /\ jobs[k].leased
  /\ IF k \in batch THEN Disturb ELSE UNCHANGED disturbances
  /\ jobs' = [jobs EXCEPT ![k].leased = FALSE]
  /\ UNCHANGED <<twin, batch, projected>>

\* SqliteTwinProjectionQueue.replayDeadLetter, asked for by a person.
ReplayDeadLetter(k) ==
  /\ k \in DOMAIN jobs
  /\ jobs[k].status = "dead_letter"
  /\ Disturb
  /\ jobs' = [jobs EXCEPT ![k] = Unattempted("queued")]
  /\ UNCHANGED <<twin, batch, projected>>

\* runOnce: the jobs claimed are projected and settled one by one.
WorkerStep == ClaimJobs \/ \E k \in batch : Project(k) \/ Succeed(k) \/ FailProjection(k)

QueueNext ==
  \/ WorkerStep \/ WorkerDies
  \/ \E k \in DOMAIN jobs : JobLeaseEnds(k) \/ ReplayDeadLetter(k)

-----------------------------------------------------------------------------
\* A change of the order that the twin does not show is owed by a job: one that is
\* still to be done, or a dead letter a person can replay.  No crash, lost lease or
\* failure between the projection and its settlement may lose it (projection-queue.ts).
TwinIsOwed ==
  \A k \in DOMAIN jobs : k > twin => jobs[k].status # "succeeded"

\* Every change reaches the twin, unless its own job is a dead letter (runOnce,
\* projectionRetryAt): behind a slow or failing job no other one is forgotten.
TwinCatchesUp ==
  twin < Len(jobs) ~> \A k \in DOMAIN jobs : k > twin => jobs[k].status = "dead_letter"
=============================================================================
