-------------------------- MODULE DurableJobs_proofs --------------------------
(***************************************************************************)
(* Proofs about DurableJobs for any number of jobs, any attempt limit, any *)
(* lease length and any bound on how old the `now` of a call may be.       *)
(***************************************************************************)
EXTENDS DurableJobs, TLAPS

\* A worker id is drawn once, so it names one lease.
LeaseInv ==
  /\ \A t \in leases : t.worker \in 1..claims
  /\ \A t, u \in leases : t.worker = u.worker => t = u

Left(n) == IF n > 0 THEN n ELSE 0

\* Only a claimed job can be owed to a caller, and for no longer than its lease;
\* its backoff is over.
QueueInv ==
  \A j \in Jobs :
    /\ status[j] = "none" => attempts[j] = 0 /\ waitLeft[j] <= 0
    /\ status[j] = "PROCESSING" => owed[j] <= Left(leaseLeft[j]) /\ waitLeft[j] <= 0
    /\ status[j] # "PROCESSING" => owed[j] = 0

\* A caller that still holds the lease of a claimed job has all the time that is
\* left of it: only a crash cuts the two apart, and takes the caller with it.
HolderInv ==
  \A t \in leases :
    Owner(t) /\ status[t.job] = "PROCESSING" => owed[t.job] = Left(leaseLeft[t.job])

\* Whoever keeps the mutex for its transaction is alone, was admitted, and still
\* owns the job it is going to acknowledge.
HoldingInv ==
  /\ holding # {} => Writable
  /\ \A t \in holding : holding = {t} /\ Owner(t) /\ status[t.job] = "PROCESSING"

IInv == TypeOK /\ LeaseInv /\ QueueInv /\ HolderInv /\ HoldingInv /\ NeverStranded

-----------------------------------------------------------------------------
(* IInv is inductive.                                                      *)

\* A retry waits for at least a tick.
LEMMA BackoffIsNat == \A a \in 1..MaxAttempts : Backoff(a) \subseteq Nat \ {0}
  BY QueueAssumption DEF Backoff, Base

\* The initial states satisfy the invariant.
LEMMA InitEstablishes == Init => IInv
  BY QueueAssumption
     DEF Init, IInv, TypeOK, LeaseInv, QueueInv, HolderInv, HoldingInv, NeverStranded, Statuses,
         Terminal, LongDue

\* Every step preserves the invariant, action by action.
LEMMA StepPreserves == IInv /\ [Next]_vars => IInv'
  <1> SUFFICES ASSUME IInv, [Next]_vars PROVE IInv'
    OBVIOUS
  <1> USE QueueAssumption
      DEF IInv, TypeOK, LeaseInv, QueueInv, HolderInv, HoldingInv, NeverStranded, Statuses, Terminal,
          LeaseToken, table, vault, Free, Owner, Writable, Left, LongDue, Waits
  <1>1. ASSUME NEW j \in Jobs, Enqueue(j) PROVE IInv'
    BY <1>1 DEF Enqueue
  <1>2. ASSUME NEW j \in Jobs, NEW s \in BOOLEAN, NEW w \in Waits, Claim(j, s, w) PROVE IInv'
    <2>1. TypeOK'
      BY <1>2 DEF Claim, Runnable, NextAttempt, Due
    <2>2. LeaseInv'
      BY <1>2 DEF Claim, Runnable, NextAttempt, Due
    <2>3. QueueInv'
      BY <1>2 DEF Claim, Runnable, NextAttempt, Due
    <2>4. HolderInv'
      BY <1>2 DEF Claim, Runnable, NextAttempt, Due
    <2>5. HoldingInv'
      BY <1>2 DEF Claim, Runnable, NextAttempt, Due
    <2>6. NeverStranded'
      BY <1>2 DEF Claim, Runnable, NextAttempt, Due
    <2>7. QED
      BY <2>1, <2>2, <2>3, <2>4, <2>5, <2>6
  <1>3. ASSUME NEW t \in leases, NEW w \in Waits, Complete(t, w) PROVE IInv'
    <2>1. TypeOK'
      <3>1. holding' \subseteq leases' /\ leases' \subseteq leases
        BY <1>3 DEF Complete, Returned
      <3>2. healthy' \in BOOLEAN
        BY <1>3, Zenon DEF Complete
      <3>3. UNCHANGED <<table, open, damaged, claims, owed>>
        BY <1>3, Zenon DEF Complete
      <3>4. QED
        BY <3>1, <3>2, <3>3
    <2>2. LeaseInv'
      BY <1>3 DEF Complete, Validates, Returned
    <2>3. QueueInv'
      BY <1>3 DEF Complete, Validates, Returned
    <2>4. HolderInv'
      BY <1>3 DEF Complete, Validates, Returned
    <2>5. HoldingInv'
      BY <1>3 DEF Complete, Validates, Returned
    <2>6. NeverStranded'
      BY <1>3 DEF Complete, Validates, Returned
    <2>7. QED
      BY <2>1, <2>2, <2>3, <2>4, <2>5, <2>6
  <1>4. ASSUME NEW t \in leases, Acknowledge(t) PROVE IInv'
    <2>1. TypeOK'
      BY <1>4 DEF Acknowledge, Returned
    <2>2. LeaseInv'
      BY <1>4 DEF Acknowledge, Returned
    <2>3. QueueInv'
      BY <1>4 DEF Acknowledge, Returned
    <2>4. HolderInv'
      BY <1>4 DEF Acknowledge, Returned
    <2>5. HoldingInv'
      BY <1>4 DEF Acknowledge, Returned
    <2>6. NeverStranded'
      BY <1>4 DEF Acknowledge, Returned
    <2>7. QED
      BY <2>1, <2>2, <2>3, <2>4, <2>5, <2>6
  <1>5. ASSUME NEW t \in leases, AcknowledgeFails(t) PROVE IInv'
    <2>1. TypeOK'
      BY <1>5 DEF AcknowledgeFails, Returned
    <2>2. LeaseInv'
      BY <1>5 DEF AcknowledgeFails, Returned
    <2>3. QueueInv'
      BY <1>5 DEF AcknowledgeFails, Returned
    <2>4. HolderInv'
      BY <1>5 DEF AcknowledgeFails, Returned
    <2>5. HoldingInv'
      BY <1>5 DEF AcknowledgeFails, Returned
    <2>6. NeverStranded'
      BY <1>5 DEF AcknowledgeFails, Returned
    <2>7. QED
      BY <2>1, <2>2, <2>3, <2>4, <2>5, <2>6
  <1>6. ASSUME NEW t \in leases, ServiceGivesUp(t) PROVE IInv'
    BY <1>6 DEF ServiceGivesUp
  <1>7. ASSUME NEW t \in leases, NEW r \in BOOLEAN, NEW w \in Waits, Fail(t, r, w) PROVE IInv'
    <2>1. TypeOK'
      BY <1>7, BackoffIsNat DEF Fail, Failable, Validates, MayRetry
    <2>2. LeaseInv'
      BY <1>7 DEF Fail, Failable, Validates, MayRetry
    <2>3. QueueInv'
      BY <1>7 DEF Fail, Failable, Validates, MayRetry
    <2>4. HolderInv'
      BY <1>7 DEF Fail, Failable, Validates, MayRetry
    <2>5. HoldingInv'
      BY <1>7 DEF Fail, Failable, Validates, MayRetry
    <2>6. NeverStranded'
      BY <1>7 DEF Fail, Failable, Validates, MayRetry
    <2>7. QED
      BY <2>1, <2>2, <2>3, <2>4, <2>5, <2>6
  <1>8. ASSUME NEW j \in Jobs, Cancel(j) PROVE IInv'
    BY <1>8 DEF Cancel
  <1>9. ASSUME NEW j \in Jobs, Damage(j) PROVE IInv'
    BY <1>9 DEF Damage
  <1>10. ASSUME Discover PROVE IInv'
    BY <1>10 DEF Discover
  <1>11. ASSUME Close PROVE IInv'
    BY <1>11 DEF Close
  <1>12. ASSUME Crash PROVE IInv'
    <2>1. TypeOK'
      <3>1. open' \in BOOLEAN /\ healthy' \in BOOLEAN
        BY <1>12, Zenon DEF Crash
      <3>2. owed' \in [Jobs -> 0..Lease]
        BY <1>12 DEF Crash
      <3>3. /\ status' = status /\ attempts' = attempts /\ leasedBy' = leasedBy
            /\ leaseLeft' = leaseLeft /\ waitLeft' = waitLeft
            /\ damaged' = damaged /\ claims' = claims /\ leases' = {} /\ holding' = {}
        BY <1>12, Zenon DEF Crash
      <3>4. QED
        BY <3>1, <3>2, <3>3
    <2>2. LeaseInv'
      BY <1>12 DEF Crash
    <2>3. QueueInv'
      BY <1>12 DEF Crash
    <2>4. HolderInv'
      BY <1>12 DEF Crash
    <2>5. HoldingInv'
      BY <1>12 DEF Crash
    <2>6. NeverStranded'
      BY <1>12 DEF Crash
    <2>7. QED
      BY <2>1, <2>2, <2>3, <2>4, <2>5, <2>6
  <1>13. ASSUME NEW w \in Waits, Reopen(w) PROVE IInv'
    <2>1. TypeOK'
      <3>1. open' \in BOOLEAN /\ healthy' \in BOOLEAN
        BY <1>13 DEF Reopen, OriginalsSound
      <3>2. /\ status' \in [Jobs -> Statuses] /\ leasedBy' \in [Jobs -> Nat \cup {None}]
            /\ leaseLeft' \in [Jobs -> LongDue..Lease] /\ waitLeft' \in [Jobs -> Int]
        BY <1>13 DEF Reopen
      <3>3. UNCHANGED <<attempts, holding, damaged, leases, claims, owed>>
        BY <1>13, Zenon DEF Reopen
      <3>4. QED
        BY <3>1, <3>2, <3>3
    <2>2. LeaseInv'
      BY <1>13 DEF Reopen, Expired, Due, OriginalsSound
    <2>3. QueueInv'
      BY <1>13 DEF Reopen, Expired, Due, OriginalsSound
    <2>4. HolderInv'
      BY <1>13 DEF Reopen, Expired, Due, OriginalsSound
    <2>5. HoldingInv'
      BY <1>13 DEF Reopen, Expired, Due, OriginalsSound
    <2>6. NeverStranded'
      BY <1>13 DEF Reopen, Expired, Due, OriginalsSound
    <2>7. QED
      BY <2>1, <2>2, <2>3, <2>4, <2>5, <2>6
  <1>14. ASSUME Tick PROVE IInv'
    <2>1. TypeOK'
      BY <1>14 DEF Tick, Pred
    <2>2. LeaseInv'
      BY <1>14 DEF Tick, Pred
    <2>3. QueueInv'
      BY <1>14 DEF Tick, Pred
    <2>4. HolderInv'
      BY <1>14 DEF Tick, Pred
    <2>5. HoldingInv'
      BY <1>14 DEF Tick, Pred
    <2>6. NeverStranded'
      BY <1>14 DEF Tick, Pred
    <2>7. QED
      BY <2>1, <2>2, <2>3, <2>4, <2>5, <2>6
  <1>15. CASE UNCHANGED vars
    BY <1>15 DEF vars
  <1>16. QED
    BY <1>1, <1>2, <1>3, <1>4, <1>5, <1>6, <1>7, <1>8, <1>9, <1>10, <1>11, <1>12, <1>13, <1>14, <1>15
       DEF Next, CallEnds

\* The invariant holds in every reachable state.
LEMMA Invariance == Spec => []IInv
  BY InitEstablishes, StepPreserves, PTL DEF Spec

-----------------------------------------------------------------------------
(* Invariants.                                                             *)

\* Every variable keeps its type: attempts never exceed the limit.
THEOREM SpecTypeOK == Spec => []TypeOK
  <1>1. IInv => TypeOK
    BY DEF IInv
  <1>2. QED
    BY <1>1, Invariance, PTL

\* At most one of the leases ever handed out for a job can still end it.
THEOREM SpecOneOwner == Spec => []OneOwner
  <1>1. IInv => OneOwner
    BY DEF IInv, TypeOK, LeaseInv, LeaseToken, OneOwner, Validates, Owner
  <1>2. QED
    BY <1>1, Invariance, PTL

\* A waiting job always has an attempt left.
THEOREM SpecNeverStranded == Spec => []NeverStranded
  <1>1. IInv => NeverStranded
    BY DEF IInv
  <1>2. QED
    BY <1>1, Invariance, PTL

-----------------------------------------------------------------------------
(* The jobs table, the leases and the clock implement one queue.           *)

\* What the callers, the backoffs and the attestation of the queue are.
Caller == [j \in Jobs |-> Stage(j)]
Resting == {j \in Jobs : waitLeft[j] > 0}
Attested == {t.job : t \in holding}

\* A job that is not being processed has no caller.
LEMMA NoCaller ==
  ASSUME IInv, NEW j \in Jobs, status[j] # "PROCESSING" PROVE Stage(j) = "none"
  BY DEF IInv, TypeOK, QueueInv, Stage, Late

\* A step that leaves the row of a job, the time owed for it and the leases of others
\* than run_one_job on it alone leaves its caller alone.
LEMMA SameCaller ==
  ASSUME NEW j \in Jobs,
         status'[j] = status[j], leasedBy'[j] = leasedBy[j], attempts'[j] = attempts[j],
         leaseLeft'[j] = leaseLeft[j], owed'[j] = owed[j],
         \A t : t.job = j /\ ~t.byService => (t \in leases' <=> t \in leases)
  PROVE  Stage(j)' = Stage(j)
  BY DEF Stage, Late, Owner

\* A step outside the table that takes away at most leases of run_one_job changes no
\* caller and no backoff.
LEMMA QuietTable ==
  ASSUME UNCHANGED <<table, owed>>,
         \A t : ~t.byService => (t \in leases' <=> t \in leases)
  PROVE  Caller' = Caller /\ Resting' = Resting
  <1>1. \A j \in Jobs : Stage(j)' = Stage(j)
    BY SameCaller DEF table
  <1>2. QED
    BY <1>1 DEF table, Caller, Resting

\* Nothing is attested while the mutex is free.
LEMMA FreeIsUndisturbed ==
  ASSUME holding = {}, holding' = {} PROVE Attested = {} /\ Attested' = {}
  BY DEF Attested

\* A new job has no caller yet.
LEMMA EnqueueEnters ==
  ASSUME IInv, NEW j \in Jobs, Enqueue(j) PROVE Queue!Enqueue(j)
  <1> USE QueueAssumption DEF IInv, TypeOK, Enqueue, vault
  <1>1. ASSUME NEW k \in Jobs PROVE Stage(k)' = Stage(k)
    <2>1. CASE k # j
      BY <2>1, SameCaller
    <2>2. CASE k = j
      BY <2>2, NoCaller DEF Stage, Late, QueueInv
    <2>3. QED
      BY <2>1, <2>2
  <1>2. Resting' = Resting
    BY DEF Resting, QueueInv
  <1>3. Caller' = Caller
    BY <1>1 DEF Caller
  <1>4. UNCHANGED <<open, Writable, damaged>> /\ holding = {} /\ holding' = {}
    BY DEF Writable, Free
  <1>5. QED
    BY <1>2, <1>3, <1>4, FreeIsUndisturbed
       DEF Queue!Enqueue, Queue!Moves, Queue!gate, Queue!Undisturbed, Caller, Resting, Attested

\* A claim begins an attempt: no caller is left on the job and its backoff is over.
LEMMA ClaimBegins ==
  ASSUME IInv, NEW j \in Jobs, NEW s \in BOOLEAN, NEW w \in Waits, Claim(j, s, w)
  PROVE  Queue!Begin(j)
  <1> USE QueueAssumption DEF IInv, TypeOK, Claim, Runnable, NextAttempt, vault
  <1>1. /\ Writable /\ status[j] = "PENDING" /\ attempts[j] < MaxAttempts
        /\ status' = [status EXCEPT ![j] = "PROCESSING"]
        /\ attempts' = [attempts EXCEPT ![j] = @ + 1]
    OBVIOUS
  <1>2. Stage(j) = "none" /\ waitLeft[j] <= 0
    BY NoCaller DEF Due, Waits
  <1>3. ASSUME NEW k \in Jobs, k # j PROVE Stage(k)' = Stage(k)
    BY <1>3, SameCaller
  <1>4. Stage(j)' \in Queue!Stages
    BY DEF Stage, Queue!Stages
  <1>5. Caller' = [Caller EXCEPT ![j] = Stage(j)']
    BY <1>3 DEF Caller
  <1>6. Resting' = Resting /\ j \notin Resting /\ Caller[j] = "none"
    BY <1>2 DEF Resting, Caller
  <1>7. UNCHANGED <<open, Writable, damaged>> /\ holding = {} /\ holding' = {}
    BY DEF Writable, Free
  <1>8. QED
    BY <1>1, <1>4, <1>5, <1>6, <1>7, FreeIsUndisturbed
       DEF Queue!Begin, Queue!Moves, Queue!gate, Queue!Undisturbed, Caller, Resting, Attested

\* complete_job attests the original of its job, finds its damage, or replays.
LEMMA CompleteAttests ==
  ASSUME IInv, NEW t \in leases, NEW w \in Waits, Complete(t, w)
  PROVE  \/ Queue!Attest(t.job)
         \/ Queue!Discover /\ Queue!Undisturbed /\ UNCHANGED Queue!queue
         \/ UNCHANGED Queue!vars
  <1> USE DEF IInv, TypeOK, LeaseToken, Complete
  <1>1. t.job \in Jobs /\ Writable /\ holding = {} /\ UNCHANGED <<table, open, damaged, owed>>
    BY DEF Free
  <1>2. Caller' = Caller /\ Resting' = Resting
    BY <1>1, QuietTable DEF Returned
  <1>3. UNCHANGED <<status, attempts>>
    BY <1>1 DEF table
  <1>4. CASE status[t.job] = "PROCESSING" /\ Verified(t.job) /\ holding' = {t} /\ healthy' = healthy
    <2>1. Attested = {} /\ Attested' = {t.job}
      BY <1>1, <1>4 DEF Attested
    <2>2. QED
      BY <1>1, <1>2, <1>3, <1>4, <2>1
         DEF Queue!Attest, Queue!gate, Verified, Writable, Caller, Resting, Attested
  <1>5. CASE ~Verified(t.job) /\ healthy' = FALSE /\ holding' = {}
    BY <1>1, <1>2, <1>3, <1>5, FreeIsUndisturbed
       DEF Queue!Discover, Queue!Undisturbed, Queue!queue, Verified, Writable, Caller, Resting, Attested
  <1>6. CASE healthy' = healthy /\ holding' = {}
    BY <1>1, <1>2, <1>3, <1>6, FreeIsUndisturbed
       DEF Queue!vars, Queue!gate, Queue!queue, Writable, Caller, Resting, Attested
  <1>7. QED
    BY <1>4, <1>5, <1>6

\* The transaction verifies the job that the call has attested.
LEMMA AcknowledgeVerifies ==
  ASSUME IInv, NEW t \in leases, Acknowledge(t) PROVE Queue!Verify(t.job)
  <1> USE DEF IInv, TypeOK, LeaseToken, Acknowledge
  <1>1. t.job \in Jobs /\ t \in holding /\ Writable /\ status[t.job] = "PROCESSING"
    BY DEF HoldingInv
  <1>2. Attested' = {} /\ t.job \in Attested
    BY <1>1 DEF Attested
  <1>3. ASSUME NEW k \in Jobs, k # t.job PROVE Stage(k)' = Stage(k)
    BY <1>3, SameCaller DEF Returned
  <1>4. Stage(t.job)' = "none"
    BY <1>1 DEF Stage, Late
  <1>5. Caller' = [Caller EXCEPT ![t.job] = "none"] /\ Resting' = Resting
    BY <1>3, <1>4 DEF Caller, Resting
  <1>6. UNCHANGED <<open, Writable, damaged, attempts>>
    BY DEF Writable
  <1>7. QED
    BY <1>1, <1>2, <1>5, <1>6
       DEF Queue!Verify, Queue!Moves, Queue!gate, Caller, Resting, Attested

\* A caller that fails its job has time left, or its call was begun when it had.
LEMMA FailGivesUp ==
  ASSUME IInv, NEW t \in leases, NEW r \in BOOLEAN, NEW w \in Waits, Fail(t, r, w)
  PROVE  Queue!GiveUp(t.job)
  <1> USE QueueAssumption DEF IInv, TypeOK, LeaseToken, Fail, Failable, Validates, InTime, Waits, Due
  <1>1. /\ t.job \in Jobs /\ t.attempt \in 1..MaxAttempts /\ open /\ status[t.job] = "PROCESSING"
        /\ Owner(t) /\ attempts[t.job] = t.attempt /\ UNCHANGED <<vault, attempts, leases>>
    BY DEF Owner
  <1>2. Late(t.job)
    BY <1>1 DEF Late
  <1>3. Caller[t.job] # "none"
    BY <1>1, <1>2 DEF Caller, Stage
  <1>4. ASSUME NEW k \in Jobs, k # t.job PROVE Stage(k)' = Stage(k)
    BY <1>4, SameCaller
  <1>5. Stage(t.job)' = "none"
    BY <1>1 DEF Stage, Late
  <1>6. Caller' = [Caller EXCEPT ![t.job] = "none"]
    BY <1>4, <1>5 DEF Caller
  <1>7. UNCHANGED <<open, Writable, damaged>> /\ holding = {} /\ holding' = {}
    BY <1>1 DEF vault, Writable, Free
  <1>8. CASE r /\ MayRetry(t)
    <2>1. PICK d \in Backoff(t.attempt) : waitLeft' = [waitLeft EXCEPT ![t.job] = d - w]
      BY <1>8
    <2>2. waitLeft[t.job] <= 0
      BY <1>1 DEF QueueInv
    <2>3. Resting' \in {Resting, Resting \cup {t.job}}
      BY <1>1, <2>1, <2>2 DEF Resting
    <2>4. attempts[t.job] < MaxAttempts /\ status' = [status EXCEPT ![t.job] = "PENDING"]
      BY <1>1, <1>8 DEF MayRetry
    <2>5. QED
      BY <1>1, <1>3, <1>6, <1>7, <2>3, <2>4, FreeIsUndisturbed
         DEF Queue!GiveUp, Queue!Moves, Queue!gate, Queue!Undisturbed, Caller, Resting, Attested
  <1>9. CASE ~(r /\ MayRetry(t))
    <2>1. Resting' = Resting /\ status' = [status EXCEPT ![t.job] = "FAILED_TERMINAL"]
      BY <1>9 DEF Resting
    <2>2. QED
      BY <1>1, <1>3, <1>6, <1>7, <2>1, FreeIsUndisturbed
         DEF Queue!GiveUp, Queue!Moves, Queue!gate, Queue!Undisturbed, Caller, Resting, Attested
  <1>10. QED
    BY <1>8, <1>9

\* Cancelling takes a job that has no caller out of the queue.
LEMMA CancelTakesOut ==
  ASSUME IInv, NEW j \in Jobs, Cancel(j) PROVE Queue!Cancel(j)
  <1> USE DEF IInv, TypeOK, Cancel, vault
  <1>1. ASSUME NEW k \in Jobs PROVE Stage(k)' = Stage(k)
    <2>1. CASE k # j
      BY <2>1, SameCaller
    <2>2. CASE k = j
      BY <2>2, NoCaller DEF Stage, Late, QueueInv
    <2>3. QED
      BY <2>1, <2>2
  <1>2. Caller' = Caller /\ Resting' = Resting
    BY <1>1 DEF Caller, Resting
  <1>3. UNCHANGED <<open, Writable, damaged>> /\ holding = {} /\ holding' = {}
    BY DEF Writable, Free
  <1>4. QED
    BY <1>2, <1>3, FreeIsUndisturbed
       DEF Queue!Cancel, Queue!Moves, Queue!gate, Queue!Undisturbed, Caller, Resting, Attested

\* Recovery takes back jobs whose lease is due, so from no caller with time left.
LEMMA ReopenTakesBack ==
  ASSUME IInv, NEW w \in Waits, Reopen(w) PROVE Queue!Reopen
  <1> USE QueueAssumption DEF IInv, TypeOK, Reopen
  <1> DEFINE Taken == {j \in Jobs : Expired(j, w)}
  <1>1. ASSUME NEW j \in Taken PROVE status[j] = "PROCESSING" /\ owed[j] = 0 /\ waitLeft[j] <= 0
    BY DEF QueueInv, Expired, Due, Waits, Left
  <1>2. status' = [j \in Jobs |-> IF j \in Taken THEN Queue!AfterAttempt(attempts[j]) ELSE status[j]]
    BY DEF Queue!AfterAttempt
  <1>3. ASSUME NEW j \in Jobs PROVE Stage(j)' = IF j \in Taken THEN "none" ELSE Stage(j)
    <2>1. CASE j \in Taken
      BY <1>1, <2>1 DEF Stage, Late
    <2>2. CASE j \notin Taken
      BY <2>2, SameCaller
    <2>3. QED
      BY <2>1, <2>2
  <1>4. Caller' = [j \in Jobs |-> IF j \in Taken THEN "none" ELSE Caller[j]]
    BY <1>3 DEF Caller
  <1>5. Resting' = Resting
    BY <1>1 DEF Resting, Waits
  <1>6. /\ ~open /\ open' = TRUE /\ damaged' = damaged /\ Writable' \in BOOLEAN
        /\ Writable' => damaged = {}
    BY DEF Writable, OriginalsSound
  <1>7. \A j \in Taken : status[j] = "PROCESSING" /\ Caller[j] # "working"
    BY <1>1 DEF Caller, Stage
  <1>8. Queue!Admit
    BY <1>6 DEF Queue!Admit
  <1>9. holding = {} /\ holding' = {}
    BY DEF HoldingInv, Writable
  <1>10. UNCHANGED attempts
    OBVIOUS
  <1> HIDE DEF Taken
  <1>11. Taken \in SUBSET Jobs
    BY DEF Taken
  <1>12. QED
    BY <1>2, <1>4, <1>5, <1>7, <1>8, <1>9, <1>10, <1>11, FreeIsUndisturbed
       DEF Queue!Reopen, Queue!Undisturbed, Caller, Resting, Attested

\* As time passes callers run out of it and backoffs end.
LEMMA TickLapses ==
  ASSUME IInv, Tick PROVE Queue!Lapse
  <1> USE QueueAssumption DEF IInv, TypeOK, Tick, Pred
  <1>1. ASSUME NEW j \in Jobs PROVE Stage(j)' \in Queue!Later(Stage(j)) /\ Stage(j)' \in Queue!Stages
    <2>1. owed'[j] > 0 => owed[j] > 0
      OBVIOUS
    <2>2. Late(j)' => Late(j)
      BY DEF Late, Owner, Due, LongDue
    <2>3. QED
      BY <2>1, <2>2 DEF Stage, Queue!Later, Queue!Stages
  <1>2. Resting' \subseteq Resting
    BY DEF Resting, LongDue
  <1>3. UNCHANGED <<open, Writable, damaged, Attested>>
    BY DEF vault, Writable, Attested
  <1>4. QED
    BY <1>1, <1>2, <1>3 DEF Queue!Lapse, Queue!gate, Caller, Resting, Attested

\* A transaction that fails only ends the attestation.
LEMMA FailedAcknowledgeLapses ==
  ASSUME IInv, NEW t \in leases, AcknowledgeFails(t) PROVE Queue!Lapse
  <1> USE DEF AcknowledgeFails
  <1>1. Caller' = Caller /\ Resting' = Resting
    BY QuietTable DEF Returned
  <1>2. \A j \in Jobs : Stage(j)' = Stage(j) /\ Stage(j) \in Queue!Stages
    BY SameCaller DEF table, Returned, Stage, Queue!Stages
  <1>3. Attested' = {} /\ UNCHANGED <<open, Writable, damaged, status, attempts>>
    BY DEF Attested, Writable, table
  <1>4. QED
    BY <1>1, <1>2, <1>3
       DEF Queue!Lapse, Queue!Later, Queue!Stages, Queue!gate, Caller, Resting, Attested

\* Every step is a step of the queue or of the vault around it, or no step.
LEMMA StepAdvances == IInv /\ [Next]_vars => [Queue!Next]_Queue!vars
  <1> SUFFICES ASSUME IInv, [Next]_vars PROVE Queue!Next \/ UNCHANGED Queue!vars
    OBVIOUS
  <1>0. \A t \in leases : t.job \in Jobs
    BY DEF IInv, TypeOK, LeaseToken
  <1>1. ASSUME NEW j \in Jobs, Enqueue(j) PROVE Queue!Next
    BY <1>1, EnqueueEnters DEF Queue!Next
  <1>2. ASSUME NEW j \in Jobs, NEW s \in BOOLEAN, NEW w \in Waits, Claim(j, s, w) PROVE Queue!Next
    BY <1>2, ClaimBegins DEF Queue!Next
  <1>3. ASSUME NEW t \in leases, NEW w \in Waits, Complete(t, w) PROVE Queue!Next \/ UNCHANGED Queue!vars
    BY <1>0, <1>3, CompleteAttests DEF Queue!Next
  <1>4. ASSUME NEW t \in leases, ServiceGivesUp(t) PROVE UNCHANGED Queue!vars
    <2>1. UNCHANGED <<table, vault, owed>> /\ Caller' = Caller /\ Resting' = Resting
      BY <1>4, QuietTable DEF ServiceGivesUp
    <2>2. QED
      BY <2>1 DEF table, vault, Queue!vars, Queue!gate, Queue!queue, Writable, Caller, Resting
  <1>5. ASSUME NEW t \in leases, NEW r \in BOOLEAN, NEW w \in Waits, Fail(t, r, w) PROVE Queue!Next
    BY <1>0, <1>5, FailGivesUp DEF Queue!Next
  <1>6. ASSUME NEW t \in leases, Acknowledge(t) PROVE Queue!Next
    BY <1>0, <1>6, AcknowledgeVerifies DEF Queue!Next
  <1>7. ASSUME NEW t \in leases, AcknowledgeFails(t) PROVE Queue!Next
    BY <1>7, FailedAcknowledgeLapses DEF Queue!Next
  <1>8. ASSUME NEW j \in Jobs, Cancel(j) PROVE Queue!Next
    BY <1>8, CancelTakesOut DEF Queue!Next
  <1>9. ASSUME NEW j \in Jobs, Damage(j) PROVE Queue!Next
    <2>1. Caller' = Caller /\ Resting' = Resting
      BY <1>9, QuietTable DEF Damage
    <2>2. QED
      BY <1>9, <2>1
         DEF Damage, table, Writable, Queue!Next, Queue!Spread, Queue!queue, Caller, Resting
  <1>10. ASSUME Discover \/ Close PROVE Queue!Next
    <2>1. UNCHANGED table /\ Caller' = Caller /\ Resting' = Resting
      BY <1>10, QuietTable DEF Discover, Close
    <2>2. Attested = {} /\ Attested' = {}
      BY <1>10, FreeIsUndisturbed DEF Discover, Close, Free
    <2>3. QED
      BY <1>10, <2>1, <2>2
         DEF Discover, Close, table, Writable, Queue!Next, Queue!Discover, Queue!Withdraw,
             Queue!Undisturbed, Queue!queue, Caller, Resting, Attested
  <1>11. ASSUME Crash PROVE Queue!Next
    <2>1. Caller' = [j \in Jobs |-> "none"] /\ Attested' = {} /\ Resting' = Resting
      BY <1>11 DEF Crash, Caller, Stage, Late, Attested, Resting, table
    <2>2. Queue!Die
      BY <1>11, <2>1 DEF Crash, Queue!Die, Queue!Withdraw, Writable, table, Caller, Attested, Resting
    <2>3. QED
      BY <2>2 DEF Queue!Next
  <1>12. ASSUME NEW w \in Waits, Reopen(w) PROVE Queue!Next
    BY <1>12, ReopenTakesBack DEF Queue!Next
  <1>13. ASSUME Tick PROVE Queue!Next
    BY <1>13, TickLapses DEF Queue!Next
  <1>14. CASE UNCHANGED vars
    <2>1. Caller' = Caller /\ Resting' = Resting
      BY <1>14, QuietTable DEF vars
    <2>2. QED
      BY <1>14, <2>1 DEF vars, vault, table, Queue!vars, Queue!gate, Queue!queue, Writable, Caller, Resting
  <1>15. QED
    BY <1>1, <1>2, <1>3, <1>4, <1>5, <1>6, <1>7, <1>8, <1>9, <1>10, <1>11, <1>12, <1>13, <1>14
       DEF Next, CallEnds

\* Replays, deadlines judged by an old clock, retries, crashes and recovery stay
\* within a queue in which a job has one caller at a time, rests between attempts,
\* ends once, and is verified only by a call that found its original intact and
\* that nothing but damage and time has come in between.
THEOREM SpecImplementsQueue == Spec => ImplementsQueue
  <1>1. Init => Queue!Init
    BY QueueAssumption DEF Init, Queue!Init, Queue!GateInit, Writable, Stage, Late, LongDue
  <1>2. QED
    BY <1>1, StepAdvances, Invariance, PTL DEF Spec, ImplementsQueue, Queue!Spec

\* The abstract queue lives in a vault that keeps the gate.
LEMMA QueueKeepsGate == [Queue!Next]_Queue!vars => [Gate!GateNext]_Gate!gate
  BY DEF Queue!Next, Queue!vars, Queue!gate, Queue!queue, Queue!Enqueue, Queue!Begin, Queue!Attest,
         Queue!Verify, Queue!GiveUp, Queue!Cancel, Queue!Lapse, Queue!Die, Queue!Reopen, Queue!Spread,
         Queue!Discover, Queue!Withdraw, Queue!Admit, Gate!gate, Gate!GateNext, Gate!Spread,
         Gate!Discover, Gate!Withdraw, Gate!Admit

-----------------------------------------------------------------------------
(* What the queue promises, whatever implements it keeps.  TLC checks the  *)
(* refinement and the types; this is what follows from them.               *)

StaysFinished == \A j \in Jobs : status[j] \in Terminal
                   => status'[j] = status[j] /\ attempts'[j] = attempts[j]
LeasesApart == \A j \in Jobs : attempts'[j] # attempts[j] => owed[j] = 0
Untried == \A j \in Jobs : status[j] = "none" => attempts[j] = 0
Claimable == NeverStranded /\ Untried

\* Of the steps of the queue each moves a job as it should.
LEMMA QueueMoves ==
  ASSUME TypeOK, Queue!Next
  PROVE StaysFinished /\ LeasesApart /\ (Claimable => Claimable')
  <1> DEFINE Goal == StaysFinished /\ LeasesApart /\ (Claimable => Claimable')
  <1> USE QueueAssumption DEF TypeOK, Statuses, Terminal, Queue!Moves, StaysFinished, LeasesApart,
          NeverStranded, Untried, Claimable, Stage, Late
  <1>1. ASSUME NEW j \in Jobs, Queue!Enqueue(j) PROVE Goal
    BY <1>1 DEF Queue!Enqueue
  <1>2. ASSUME NEW j \in Jobs, Queue!Begin(j) PROVE Goal
    BY <1>2 DEF Queue!Begin
  <1>3. ASSUME NEW j \in Jobs, Queue!Verify(j) PROVE Goal
    BY <1>3 DEF Queue!Verify
  <1>4. ASSUME NEW j \in Jobs, Queue!GiveUp(j) PROVE Goal
    BY <1>4 DEF Queue!GiveUp
  <1>5. ASSUME NEW j \in Jobs, Queue!Cancel(j) PROVE Goal
    BY <1>5 DEF Queue!Cancel
  <1>6. ASSUME Queue!Reopen PROVE Goal
    <2>1. PICK taken \in SUBSET Jobs :
            /\ \A j \in taken : status[j] = "PROCESSING"
            /\ status' = [j \in Jobs |->
                 IF j \in taken THEN Queue!AfterAttempt(attempts[j]) ELSE status[j]]
      BY <1>6 DEF Queue!Reopen
    <2>2. attempts' = attempts
      BY <1>6 DEF Queue!Reopen
    <2>3. QED
      BY <2>1, <2>2 DEF Queue!AfterAttempt
  <1>7. ASSUME UNCHANGED <<status, attempts>> PROVE Goal
    BY <1>7
  <1>8. ASSUME NEW j \in Jobs, Queue!Attest(j) PROVE Goal
    BY <1>8 DEF Queue!Attest
  <1>9. QED
    BY <1>1, <1>2, <1>3, <1>4, <1>5, <1>6, <1>7, <1>8
       DEF Queue!Next, Queue!Lapse, Queue!Die, Queue!queue

\* A queue that keeps its specification strands no job, changes no finished one, leases
\* none twice, and lives behind the gate.
THEOREM QueueSuffices ==
  ImplementsQueue /\ []TypeOK =>
    []NeverStranded /\ FinishedStaysFinished /\ NoOverlappingLeases /\ ReliesOnGate
  <1>1. Queue!Init => Claimable /\ Gate!GateInit
    BY QueueAssumption DEF Queue!Init, Queue!GateInit, Gate!GateInit, Claimable, NeverStranded, Untried
  <1>2. TypeOK /\ [Queue!Next]_Queue!vars =>
          [StaysFinished]_vars /\ [LeasesApart]_vars /\ (Claimable => Claimable')
    <2>1. ASSUME TypeOK, UNCHANGED Queue!vars
          PROVE StaysFinished /\ LeasesApart /\ (Claimable => Claimable')
      BY <2>1 DEF Queue!vars, Queue!queue, StaysFinished, LeasesApart, Claimable, NeverStranded, Untried
    <2>2. QED
      BY <2>1, QueueMoves
  <1>3. Claimable => NeverStranded
    BY DEF Claimable
  <1>4. QED
    BY <1>1, <1>2, <1>3, QueueKeepsGate, PTL DEF ImplementsQueue, Queue!Spec, FinishedStaysFinished,
       NoOverlappingLeases, ReliesOnGate, Gate!GateSpec, StaysFinished, LeasesApart

\* No late, stale or replayed call changes a finished job.
THEOREM SpecFinishedStaysFinished == Spec => FinishedStaysFinished
  BY SpecImplementsQueue, SpecTypeOK, QueueSuffices

\* A job is claimed again only when no caller is owed time on its last lease.
THEOREM SpecNoOverlappingLeases == Spec => NoOverlappingLeases
  BY SpecImplementsQueue, SpecTypeOK, QueueSuffices

\* What the queue takes for granted about its vault is what VaultStorage provides.
THEOREM SpecReliesOnGate == Spec => ReliesOnGate
  BY SpecImplementsQueue, SpecTypeOK, QueueSuffices
=============================================================================
