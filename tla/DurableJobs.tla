----------------------------- MODULE DurableJobs -----------------------------
(***************************************************************************)
(* The durable verification queue (crates/dvm-storage/src/jobs.rs), its    *)
(* caller run_one_job and the lease recovery of reconcile.                 *)
(*                                                                         *)
(* Time is relative: instead of lease_until and available_at a job has the *)
(* ticks left until each is due, and Tick lets one pass.  The `now` of a   *)
(* call is a value its caller read before it waited for the mutex: the     *)
(* call judges, and sets, every deadline as of up to MaxWait ticks ago.    *)
(* run_one_job gives the `now` of its claim to complete_job as well, so to *)
(* it its own lease is never due.  Jobs are numbered in queue order        *)
(* (priority, created_at, id).  Calls are serialised by the mutex and each *)
(* is one step, but complete_job reads the original from the file system   *)
(* before its transaction: the environment and the clock come in between.  *)
(***************************************************************************)
EXTENDS Integers

CONSTANTS
  JobCount,     \* verification jobs the vault may enqueue
  MaxAttempts,  \* jobs.max_attempts (5 in schema.sql)
  Lease,        \* lease length in ticks
  MaxWait,      \* bound: ticks a call may wait for the mutex with its `now`
  None          \* no worker

ASSUME QueueAssumption ==
  /\ JobCount \in Nat /\ MaxAttempts \in Nat \ {0} /\ Lease \in Nat \ {0}
  /\ MaxWait \in Nat
  /\ None \notin Nat

Jobs == 1..JobCount
Waits == 0..MaxWait
LongDue == -MaxWait   \* due to every caller; also a deadline that is NULL

VARIABLES
  \* the jobs table
  status, attempts, leasedBy,
  leaseLeft,   \* ticks until lease_until, negative once it is past
  waitLeft,    \* ticks until available_at, likewise
  \* the live Vault value and the bytes it guards
  open, healthy,
  holding,     \* the lease whose complete_job has verified the original and
               \* keeps the mutex for its transaction (a set of at most one)
  damaged,     \* jobs whose canonical original the environment damaged
  \* callers
  leases,      \* JobLease values callers still hold (they may be replayed)
  claims,      \* worker ids drawn so far: each claim draws a fresh one
  \* history
  owed         \* ticks left of the last lease its holder did not give up

table == <<status, attempts, leasedBy, leaseLeft, waitLeft>>
vault == <<open, healthy, holding, damaged>>
vars == <<table, vault, leases, claims, owed>>

Terminal == {"DONE", "FAILED_TERMINAL", "CANCELLED"}
Statuses == {"none", "PENDING", "PROCESSING"} \cup Terminal

\* 2^min(attempt,8) seconds plus up to as much jitter.
Base(a) == <<2, 4, 8, 16, 32, 64, 128, 256>>[IF a < 8 THEN a ELSE 8]
Backoff(a) == Base(a) .. 2 * Base(a)

\* A lease is a value; `byService` tells the one run_one_job holds on its stack.
LeaseToken == [job : Jobs, worker : Nat, attempt : 1..MaxAttempts, byService : BOOLEAN]

TypeOK ==
  /\ status \in [Jobs -> Statuses]
  /\ attempts \in [Jobs -> 0..MaxAttempts]
  /\ leasedBy \in [Jobs -> Nat \cup {None}]
  /\ leaseLeft \in [Jobs -> LongDue..Lease]
  /\ waitLeft \in [Jobs -> Int]
  /\ open \in BOOLEAN /\ healthy \in BOOLEAN /\ damaged \subseteq Jobs
  /\ leases \subseteq LeaseToken /\ holding \subseteq leases
  /\ claims \in Nat
  /\ owed \in [Jobs -> 0..Lease]

Writable == open /\ healthy                 \* admitted by writable_db
Due(left, w) == left <= -w                  \* as of w ticks ago

-----------------------------------------------------------------------------
(* Decisions of the code; those marked "mutant" are slips the properties   *)
(* must detect and are not used.                                           *)

AnyOwner(t) == TRUE                         \* mutant: leased_by, attempts not compared
Owner(t) == leasedBy[t.job] = t.worker /\ attempts[t.job] = t.attempt

AnyTime(t, w) == TRUE                       \* mutant: lease_until is not compared
InTime(t, w) == t.byService \/ ~Due(leaseLeft[t.job], w)

\* validate_lease.  A DONE job keeps leased_by, so its owner's replay is valid.
Validates(t, w) ==
  /\ Owner(t)
  /\ \/ status[t.job] = "DONE"
     \/ status[t.job] = "PROCESSING" /\ InTime(t, w)

FailsDone(t, w) == Validates(t, w)          \* mutant: fail_job forgets the DONE check
Failable(t, w) == Validates(t, w) /\ status[t.job] = "PROCESSING"

NeverWaits == TRUE                          \* mutant: guard dropped once verified
Free == holding = {}

RetriesAlways(t) == TRUE                    \* mutant: the attempt limit is not read
MayRetry(t) == t.attempt < MaxAttempts

UncheckedOriginal(j) == TRUE                \* mutant: ACK without verify_canonical
Verified(j) == j \notin damaged

AnyLease(j, w) == status[j] = "PROCESSING"  \* mutant: reopening frees every lease
Expired(j, w) == status[j] = "PROCESSING" /\ Due(leaseLeft[j], w)

CountedTwice(j) == attempts[j] + 2          \* mutant: the UPDATE counts a counted value
NextAttempt(j) == attempts[j] + 1

Unchecked == TRUE                           \* mutant: open admits without authenticating
OriginalsSound == damaged = {}

\* mutant: attempts + 1 < max_attempts in the query of claim_job
NeverTheLast(j, w) == status[j] = "PENDING" /\ Due(waitLeft[j], w) /\ attempts[j] + 1 < MaxAttempts

\* mutant: available_at is not read
Unripe(j, w) == status[j] = "PENDING" /\ attempts[j] < MaxAttempts
Runnable(j, w) == status[j] = "PENDING" /\ Due(waitLeft[j], w) /\ attempts[j] < MaxAttempts

-----------------------------------------------------------------------------
Init ==
  /\ status = [j \in Jobs |-> "none"]
  /\ attempts = [j \in Jobs |-> 0]
  /\ leasedBy = [j \in Jobs |-> None]
  /\ leaseLeft = [j \in Jobs |-> LongDue] /\ waitLeft = [j \in Jobs |-> LongDue]
  /\ open = TRUE /\ healthy = TRUE /\ holding = {} /\ damaged = {}
  /\ leases = {} /\ claims = 0
  /\ owed = [j \in Jobs |-> 0]

\* enqueue_verification, in the transaction of commit_import, at the time of the
\* database.  created_at counts whole seconds and ids are random: a later job may
\* come first in the queue.
Enqueue(j) ==
  /\ Writable /\ Free
  /\ status[j] = "none"
  /\ status' = [status EXCEPT ![j] = "PENDING"]
  /\ waitLeft' = [waitLeft EXCEPT ![j] = 0]
  /\ UNCHANGED <<attempts, leasedBy, leaseLeft, vault, leases, claims, owed>>

\* claim_job, by run_one_job or by another caller of the port.
Claim(j, byService, w) ==
  /\ Writable /\ Free
  /\ Runnable(j, w) /\ \A k \in 1..(j - 1) : ~Runnable(k, w)
  /\ status' = [status EXCEPT ![j] = "PROCESSING"]
  /\ attempts' = [attempts EXCEPT ![j] = NextAttempt(j)]
  /\ leasedBy' = [leasedBy EXCEPT ![j] = claims + 1]
  /\ leaseLeft' = [leaseLeft EXCEPT ![j] = Lease - w]
  /\ owed' = [owed EXCEPT ![j] = IF w < Lease THEN Lease - w ELSE 0]
  /\ claims' = claims + 1
  /\ leases' = leases \cup {[job |-> j, worker |-> claims + 1,
                             attempt |-> attempts[j] + 1, byService |-> byService]}
  /\ UNCHANGED <<waitLeft, vault>>

\* The lease leaves run_one_job's stack with the call; another caller keeps it.
Returned(t) == IF t.byService THEN leases \ {t} ELSE leases

\* complete_job up to its transaction: a replay changes nothing; a damaged original
\* latches the vault; beside an intact one the mutex is kept.
Complete(t, w) ==
  /\ Writable /\ Free
  /\ Validates(t, w)
  /\ \/ /\ status[t.job] = "PROCESSING" /\ Verified(t.job)
        /\ holding' = {t}
        /\ UNCHANGED <<healthy, leases>>
     \/ /\ status[t.job] = "PROCESSING" /\ ~Verified(t.job)
        /\ healthy' = FALSE
        /\ holding' = {} /\ leases' = Returned(t)
     \/ /\ status[t.job] = "DONE"
        /\ holding' = {} /\ leases' = Returned(t)
        /\ healthy' = healthy
  /\ UNCHANGED <<table, open, damaged, claims, owed>>

\* Its transaction: verified_at and DONE.
Acknowledge(t) ==
  /\ t \in holding
  /\ status' = [status EXCEPT ![t.job] = "DONE"]
  /\ leaseLeft' = [leaseLeft EXCEPT ![t.job] = LongDue]
  /\ owed' = [owed EXCEPT ![t.job] = 0]
  /\ holding' = {} /\ leases' = Returned(t)
  /\ UNCHANGED <<attempts, leasedBy, waitLeft, open, healthy, damaged, claims>>

\* The transaction fails and is rolled back.
AcknowledgeFails(t) ==
  /\ t \in holding
  /\ holding' = {} /\ leases' = Returned(t)
  /\ UNCHANGED <<table, open, healthy, damaged, claims, owed>>

\* run_one_job returns an error: a refused or failed complete_job.  It never
\* calls fail_job, so the job stays PROCESSING.
ServiceGivesUp(t) ==
  /\ t.byService /\ t \notin holding
  /\ leases' = leases \ {t}
  /\ UNCHANGED <<table, vault, claims, owed>>

\* fail_job needs an open vault, not a healthy one.  The backoff counts from `now`.
Fail(t, retryable, w) ==
  /\ open /\ Free
  /\ ~t.byService /\ Failable(t, w)
  /\ IF retryable /\ MayRetry(t)
       THEN /\ status' = [status EXCEPT ![t.job] = "PENDING"]
            /\ \E d \in Backoff(t.attempt) : waitLeft' = [waitLeft EXCEPT ![t.job] = d - w]
       ELSE /\ status' = [status EXCEPT ![t.job] = "FAILED_TERMINAL"]
            /\ waitLeft' = waitLeft   \* available_at of a finished job is never read
  /\ leasedBy' = [leasedBy EXCEPT ![t.job] = None]
  /\ leaseLeft' = [leaseLeft EXCEPT ![t.job] = LongDue]
  /\ owed' = [owed EXCEPT ![t.job] = 0]
  /\ UNCHANGED <<attempts, vault, leases, claims>>

\* cancel_pending_job.
Cancel(j) ==
  /\ open /\ Free
  /\ status[j] = "PENDING"
  /\ status' = [status EXCEPT ![j] = "CANCELLED"]
  /\ UNCHANGED <<attempts, leasedBy, leaseLeft, waitLeft, vault, leases, claims, owed>>

-----------------------------------------------------------------------------
(* The vault around the queue (see VaultStorage).                          *)

Damage(j) ==
  /\ status[j] # "none"
  /\ damaged' = damaged \cup {j}
  /\ UNCHANGED <<table, open, healthy, holding, leases, claims, owed>>

\* recover, or a duplicate import, finds the damage first.
Discover ==
  /\ open /\ Free
  /\ damaged # {}
  /\ healthy' = FALSE
  /\ UNCHANGED <<table, open, holding, damaged, leases, claims, owed>>

\* No call borrows the vault; leases held by other callers outlive it.
Close ==
  /\ open /\ holding = {}
  /\ \A t \in leases : ~t.byService
  /\ open' = FALSE
  /\ UNCHANGED <<table, healthy, holding, damaged, leases, claims, owed>>

\* The process dies with every lease value in it.
Crash ==
  /\ open' = FALSE
  /\ leases' = {} /\ holding' = {}
  /\ owed' = [j \in Jobs |-> 0]
  /\ UNCHANGED <<table, healthy, damaged, claims>>

\* open and reconcile: originals are authenticated (an orphan also denies
\* writes), leases that are due by the `now` of the opening end.
Reopen(w) ==
  /\ ~open
  /\ open' = TRUE
  /\ healthy' \in {FALSE, OriginalsSound}
  /\ status' = [j \in Jobs |->
       IF ~Expired(j, w) THEN status[j]
       ELSE IF attempts[j] >= MaxAttempts THEN "FAILED_TERMINAL" ELSE "PENDING"]
  /\ leasedBy' = [j \in Jobs |-> IF Expired(j, w) THEN None ELSE leasedBy[j]]
  /\ leaseLeft' = [j \in Jobs |-> IF Expired(j, w) THEN LongDue ELSE leaseLeft[j]]
  /\ waitLeft' = [j \in Jobs |-> IF Expired(j, w) THEN -w ELSE waitLeft[j]]
  /\ UNCHANGED <<attempts, holding, damaged, leases, claims, owed>>

Pred(n, floor) == IF n > floor THEN n - 1 ELSE floor
Tick ==
  /\ leaseLeft' = [j \in Jobs |-> Pred(leaseLeft[j], LongDue)]
  /\ waitLeft' = [j \in Jobs |-> Pred(waitLeft[j], LongDue)]
  /\ owed' = [j \in Jobs |-> Pred(owed[j], 0)]
  /\ UNCHANGED <<status, attempts, leasedBy, vault, leases, claims>>

CallEnds(t) == Acknowledge(t) \/ AcknowledgeFails(t)

Next ==
  \/ \E j \in Jobs : Enqueue(j) \/ Cancel(j) \/ Damage(j)
  \/ \E j \in Jobs, s \in BOOLEAN, w \in Waits : Claim(j, s, w)
  \/ \E t \in leases : ServiceGivesUp(t) \/ CallEnds(t)
  \/ \E t \in leases, w \in Waits : Complete(t, w)
  \/ \E t \in leases, r \in BOOLEAN, w \in Waits : Fail(t, r, w)
  \/ \E w \in Waits : Reopen(w)
  \/ Discover \/ Close \/ Crash \/ Tick

Spec == Init /\ [][Next]_vars

\* Time passes, whoever holds the mutex gives it back, a caller keeps polling
\* run_one_job whenever the vault admits writes, and a call it started ends.  The
\* repository has no such caller yet: this is what its queue offers to one.
ServicePoll == \E j \in Jobs, w \in Waits : Claim(j, TRUE, w)
ServiceReturns ==
  \E t \in leases : t.byService /\ (ServiceGivesUp(t) \/ \E w \in Waits : Complete(t, w))
MutexReturns == \E t \in leases : CallEnds(t)
PollingSpec ==
  Spec /\ WF_vars(Tick) /\ WF_vars(MutexReturns) /\ SF_vars(ServicePoll) /\ WF_vars(ServiceReturns)

\* In addition a vault that was closed, or died, is opened again.
RestartingSpec == PollingSpec /\ WF_vars(\E w \in Waits : Reopen(w))

-----------------------------------------------------------------------------
(* Properties.                                                             *)

\* ADR-0005, "worker UUID plus attempt is a lease generation": of all the leases
\* ever handed out for a job, at most one can still end it, however long ago their
\* holders read the clock.
OneOwner ==
  \A t, u \in leases, v, w \in Waits :
    t.job = u.job /\ Validates(t, v) /\ Validates(u, w) => t = u

\* A finished job is never reopened, refailed or recounted, whatever stale or
\* replayed call, cancellation or recovery comes after.
FinishedStaysFinished ==
  [][\A j \in Jobs : status[j] \in Terminal
       => status'[j] = status[j] /\ attempts'[j] = attempts[j]]_vars

\* ADR-0005, "rather than remaining stranded": a job that waits can be claimed
\* again; one that has used its attempts has left the queue by every path.
NeverStranded == \A j \in Jobs : status[j] = "PENDING" => attempts[j] < MaxAttempts

\* INV-009, "without creating duplicate canonical results": a job is not leased
\* again while a caller that may still be working holds an unexpired lease.
NoOverlappingLeases ==
  [][\A j \in Jobs : attempts'[j] # attempts[j] => owed[j] = 0]_vars

\* The vault as the queue knows it, and as VaultStorage provides it.
Gate == INSTANCE VaultGate WITH writable <- Writable, damage <- damaged
ReliesOnGate == Gate!GateSpec

\* How far the caller of a job is: it has time left; its time is over but a call
\* that read the clock before may still come through the mutex; or nobody is left.
Late(j) ==
  \E t \in leases :
    /\ t.job = j /\ Owner(t) /\ status[j] = "PROCESSING"
    /\ ~t.byService /\ ~Due(leaseLeft[j], MaxWait)
Stage(j) == IF owed[j] > 0 THEN "working" ELSE IF Late(j) THEN "calling" ELSE "none"

\* Claims, replays, deadlines judged by an old clock, retries, restarts and recovery
\* implement a queue in which a job has one caller at a time, rests between attempts,
\* ends once, and is verified only if its original was found intact by a call that
\* nothing but damage, time or a crash has disturbed since.
Queue == INSTANCE VerificationQueue WITH
  writable <- Writable, damage <- damaged, tries <- attempts,
  caller <- [j \in Jobs |-> Stage(j)],
  resting <- {j \in Jobs : waitLeft[j] > 0},
  attested <- {t.job : t \in holding}
ImplementsQueue == Queue!Spec

\* With a caller that keeps polling, the queue order and the backoff starve no
\* job: each one is claimed or cancelled, unless the vault stops admitting writes.
NoStarvation ==
  \A j \in Jobs : status[j] = "PENDING" ~> status[j] # "PENDING" \/ ~Writable

\* ADR-0005:11 "Stale or expired owners cannot ACK": complete_job judges its owner
\* once, in validate_lease, and acknowledges for those that pass.
ExpiredOwnerCannotAck == [][\A t \in holding' \ holding : owed[t.job] > 0]_vars

\* Digital_Vault_of_Memories_Blueprint_v2.md:842 "PROCESSING with expired lease
\* --startup/worker recovery--> PENDING": also while the vault stays usable.
ExpiredLeaseRecovered ==
  \A j \in Jobs : Expired(j, 0) /\ Writable ~> ~(Expired(j, 0) /\ Writable)
=============================================================================
