-------------------------- MODULE VerificationQueue --------------------------
(***************************************************************************)
(* What the verification queue promises, without workers, leases, the      *)
(* clock or the order of calls: each job is worked on by one caller at a   *)
(* time, at most MaxAttempts times, rests between two attempts, ends once, *)
(* and is verified only by a call that found its original intact and was   *)
(* disturbed by no other call since.  The vault around it is any that      *)
(* keeps VaultGate.                                                        *)
(***************************************************************************)
EXTENDS VaultGate, Naturals

CONSTANTS Jobs, MaxAttempts

VARIABLES
  status,   \* as in the jobs table
  tries,    \* attempts begun
  caller,   \* how far the caller of each job is
  resting,  \* jobs that wait for the end of a backoff
  attested  \* the job whose original a call still under way has found intact

queue == <<status, tries, caller, resting, attested>>
vars == <<gate, queue>>

\* A caller has time; or its time is over, but a call it began may still arrive.
Stages == {"working", "calling", "none"}
Later(s) == IF s = "working" THEN Stages ELSE {s, "none"}

Init ==
  /\ GateInit
  /\ status = [j \in Jobs |-> "none"]
  /\ tries = [j \in Jobs |-> 0]
  /\ caller = [j \in Jobs |-> "none"]
  /\ resting = {} /\ attested = {}

Moves(j, from, to) == status[j] = from /\ status' = [status EXCEPT ![j] = to]
AfterAttempt(n) == IF n < MaxAttempts THEN "PENDING" ELSE "FAILED_TERMINAL"

\* No call comes between the look at an original and the verdict on its job.
Undisturbed == attested = {} /\ attested' = {}

Enqueue(j) ==
  /\ writable /\ Moves(j, "none", "PENDING")
  /\ Undisturbed
  /\ UNCHANGED <<gate, tries, caller, resting>>

\* Nobody else may still be at work or heard of, and the backoff is over.
Begin(j) ==
  /\ writable /\ Moves(j, "PENDING", "PROCESSING")
  /\ caller[j] = "none" /\ j \notin resting /\ tries[j] < MaxAttempts
  /\ tries' = [tries EXCEPT ![j] = @ + 1]
  /\ \E s \in Stages : caller' = [caller EXCEPT ![j] = s]
  /\ Undisturbed
  /\ UNCHANGED <<gate, resting>>

\* The original is looked at, also for a caller whose time is over, as long as the
\* job is still its own.
Attest(j) ==
  /\ writable /\ status[j] = "PROCESSING" /\ j \notin damage
  /\ attested = {} /\ attested' = {j}
  /\ UNCHANGED <<gate, status, tries, caller, resting>>

Verify(j) ==
  /\ writable /\ j \in attested /\ Moves(j, "PROCESSING", "DONE")
  /\ attested' = {}
  /\ caller' = [caller EXCEPT ![j] = "none"]
  /\ UNCHANGED <<gate, tries, resting>>

\* Only by a caller that has time, or had when it began to call.
GiveUp(j) ==
  /\ open /\ caller[j] # "none"
  /\ \/ /\ tries[j] < MaxAttempts /\ Moves(j, "PROCESSING", "PENDING")
        /\ resting' \in {resting, resting \cup {j}}
     \/ Moves(j, "PROCESSING", "FAILED_TERMINAL") /\ UNCHANGED resting
  /\ caller' = [caller EXCEPT ![j] = "none"]
  /\ Undisturbed
  /\ UNCHANGED <<gate, tries>>

Cancel(j) ==
  /\ open /\ Moves(j, "PENDING", "CANCELLED")
  /\ Undisturbed
  /\ UNCHANGED <<gate, tries, caller, resting>>

\* Callers run out of time or are lost, backoffs end, a look ends without a verdict.
Lapse ==
  /\ caller' \in [Jobs -> Stages] /\ \A j \in Jobs : caller'[j] \in Later(caller[j])
  /\ resting' \subseteq resting /\ attested' \subseteq attested
  /\ UNCHANGED <<gate, status, tries>>

\* The callers die with the process.
Die ==
  /\ Withdraw
  /\ caller' = [j \in Jobs |-> "none"] /\ attested' = {}
  /\ UNCHANGED <<status, tries, resting>>

\* An opening takes jobs back, but from no caller that still has time.
Reopen ==
  /\ Admit
  /\ Undisturbed
  /\ \E taken \in SUBSET Jobs :
       /\ \A j \in taken : status[j] = "PROCESSING" /\ caller[j] # "working"
       /\ status' = [j \in Jobs |-> IF j \in taken THEN AfterAttempt(tries[j]) ELSE status[j]]
       /\ caller' = [j \in Jobs |-> IF j \in taken THEN "none" ELSE caller[j]]
  /\ UNCHANGED <<tries, resting>>

Next ==
  \/ \E j \in Jobs : Enqueue(j) \/ Begin(j) \/ Attest(j) \/ Verify(j) \/ GiveUp(j) \/ Cancel(j)
  \/ Lapse \/ Die \/ Reopen
  \/ Spread /\ UNCHANGED queue
  \/ (Discover \/ Withdraw) /\ Undisturbed /\ UNCHANGED queue

Spec == Init /\ [][Next]_vars
=============================================================================
