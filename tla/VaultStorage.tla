---------------------------- MODULE VaultStorage ----------------------------
(***************************************************************************)
(* The canonical store of one vault (crates/dvm-storage/src/vault.rs): the *)
(* blob files, the SQLCipher metadata beside them, the two-phase import,   *)
(* recovery, the sticky repair latch and the startup reconciliation.       *)
(*                                                                         *)
(* An import attempt draws a fresh random blob id, so the id names the     *)
(* attempt: Blobs is at once the set of candidate blobs, of import calls   *)
(* and of the items they create.  A SHA-256 digest stands for the content  *)
(* it was computed from (no collisions).  External to the code: SQLite     *)
(* transactions are atomic, a rename within the vault is atomic, the       *)
(* process may crash anywhere, and the environment may damage a file.      *)
(***************************************************************************)
EXTENDS Naturals, FiniteSets

CONSTANTS
  Blobs,      \* candidate blob ids, one per import attempt
  Contents,   \* distinct source contents
  None, Partial, Damaged,  \* no value; an unfinished file; a file that fails DVB1
  MaxDamage   \* bound: files the environment may damage in one behaviour

ASSUME ValuesAreDistinct ==
  /\ None \notin Blobs \cup Contents
  /\ Partial \notin Contents \cup {None}
  /\ Damaged \notin Contents \cup {None, Partial}
ASSUME DamageIsBounded == MaxDamage \in Nat

VARIABLES
  \* files
  place,      \* directory of the file of each blob id
  body,       \* what that file holds: the sealed content, or not
  \* metadata.db
  row,        \* blobs.sha256_hex by blob id
  item,       \* item_blobs.blob_id of the item the attempt created
  corrupted,  \* items whose status is CORRUPTED
  \* the live Vault value
  phase,      \* closed, a loop of reconcile, or open
  todo,       \* rows reconcile still has to authenticate
  health,     \* the startup verdict is Healthy
  latch,      \* repair_required
  lock,       \* the attempt whose commit_import holds the database mutex
  \* import calls
  pc,         \* progress of each attempt
  want,       \* StagedImport.sha256_hex
  \* history, read by no action's guard but the damage bound
  acked,      \* attempts whose ImportReceipt was returned
  hurt,       \* ids whose file the environment damaged or removed
  atOpen,     \* hurt when the live instance started to reconcile
  since,      \* damaged since the duplicate under way was judged
  mine        \* attempts begun by the live instance

files == <<place, body>>
db == <<row, item, corrupted>>
instance == <<phase, todo, health, latch, lock>>
calls == <<pc, want>>
history == <<acked, hurt, atOpen, since, mine>>
vars == <<files, db, instance, calls, history>>

Reconciling == {"rows", "orphans", "staging"}
StageStates == {"writing", "sealed"}
CommitStates == {"fresh", "placed", "dedup", "redundant", "linking", "committed"}
PcStates == {"idle", "staged", "done", "failed"} \cup StageStates \cup CommitStates
Dirs == {"none", "tmp", "blobs", "quarantine"}

TypeOK ==
  /\ place \in [Blobs -> Dirs]
  /\ body \in [Blobs -> Contents \cup {None, Partial, Damaged}]
  /\ row \in [Blobs -> Contents \cup {None}]
  /\ item \in [Blobs -> Blobs \cup {None}]
  /\ corrupted \subseteq {i \in Blobs : item[i] # None}
  /\ phase \in {"closed", "open"} \cup Reconciling
  /\ todo \subseteq Blobs
  /\ health \in BOOLEAN /\ latch \in BOOLEAN
  /\ lock \in Blobs \cup {None}
  /\ pc \in [Blobs -> PcStates]
  /\ want \in [Blobs -> Contents \cup {None}]
  /\ acked \subseteq Blobs /\ hurt \subseteq Blobs
  /\ atOpen \subseteq Blobs /\ since \subseteq Blobs /\ mine \subseteq Blobs

Intact(b, c) == place[b] = "blobs" /\ body[b] = c
Authentic(b) == Intact(b, row[b])             \* recover_locked succeeds
Candidate(b) == place[b] = "tmp" /\ body[b] = want[b]   \* decrypt of the .part
Existing(c) == {b \in Blobs : row[b] = c}
ItemsOf(b) == {i \in Blobs : item[i] = b}
Writable == phase = "open" /\ health /\ ~latch

-----------------------------------------------------------------------------
(* The decisions the code takes.  Each one marked "mutant" is a slip that  *)
(* some property below must detect; the specification does not use it.     *)

AdmitsUnhealthy == phase = "open"             \* mutant: require_writable dropped
Admits == Writable

Unlocked(b) == None                           \* mutant: guard dropped after admission
HeldBy(b) == b

GuardRetaken(b) == lock = None                \* mutant: verify_canonical calls db()
GuardPassed(b) == lock = b

TrustedRow(e) == TRUE                         \* mutant: duplicate not authenticated
UsableOriginal(e) == Authentic(e)

DigestOnDisk(b) == body[b]                    \* mutant: row describes the file found
NewDigest(b) == want[b]

AnyFailure(b) == TRUE                         \* mutant: operational errors condemn
IntegrityFailure(b) == ~Authentic(b)

FilePresent(b) == place[b] = "blobs"          \* mutant: startup only stats the file
RowVerifies(b) == Authentic(b)

VerdictKept == health                         \* mutant: the items are marked, the verdict stays
VerdictAfterLoss == FALSE

Unreferenced(b) == place[b] = "blobs"         \* mutant: every file is an orphan
Orphan(b) == place[b] = "blobs" /\ row[b] = None

NoStaging == {}                               \* mutant: tmp is not scanned
Staging == {b \in Blobs : place[b] = "tmp"}

-----------------------------------------------------------------------------
Init ==
  /\ place = [b \in Blobs |-> "none"]
  /\ body = [b \in Blobs |-> None]
  /\ row = [b \in Blobs |-> None]
  /\ item = [b \in Blobs |-> None]
  /\ corrupted = {}
  /\ phase = "open" /\ todo = {} /\ health = TRUE /\ latch = FALSE /\ lock = None
  /\ pc = [b \in Blobs |-> "idle"]
  /\ want = [b \in Blobs |-> None]
  /\ acked = {} /\ hurt = {} /\ atOpen = {} /\ since = {} /\ mine = {}

Goto(b, state) == pc' = [pc EXCEPT ![b] = state]

-----------------------------------------------------------------------------
(* stage_import: no mutex, a best-effort reading of the health.            *)

StageBegin(b, c) ==
  /\ Writable
  /\ pc[b] = "idle"
  /\ Goto(b, "writing")
  /\ want' = [want EXCEPT ![b] = c]
  /\ place' = [place EXCEPT ![b] = "tmp"]
  /\ body' = [body EXCEPT ![b] = Partial]
  /\ mine' = mine \cup {b}
  /\ UNCHANGED <<db, instance, acked, hurt, atOpen, since>>

\* encrypt, flush and sync_all of the whole source.
StageSeal(b) ==
  /\ pc[b] = "writing"
  /\ Goto(b, "sealed")
  /\ body' = [body EXCEPT ![b] = want[b]]
  /\ UNCHANGED <<place, want, db, instance, history>>

\* The candidate is decrypted again before a StagedImport is handed out.
StageVerify(b) ==
  /\ pc[b] = "sealed"
  /\ Goto(b, IF Candidate(b) THEN "staged" ELSE "failed")
  /\ UNCHANGED <<files, want, db, instance, history>>

\* A source that cannot be read or an I/O error: the .part stays in tmp.
StageFails(b) ==
  /\ pc[b] \in StageStates
  /\ Goto(b, "failed")
  /\ UNCHANGED <<files, want, db, instance, history>>

-----------------------------------------------------------------------------
(* commit_import: the guard of writable_db is held to the end of the call. *)

\* writable_db, decryption of the candidate, SELECT by digest.
CommitBegin(b) ==
  /\ pc[b] = "staged"
  /\ phase = "open" /\ lock = None
  /\ IF Admits /\ Candidate(b)
       THEN /\ Goto(b, IF Existing(want[b]) = {} THEN "fresh" ELSE "dedup")
            /\ lock' = HeldBy(b)
       ELSE Goto(b, "failed") /\ lock' = None
  /\ UNCHANGED <<files, db, phase, todo, health, latch, want, history>>

\* verify_canonical on the guard already held: beside an authentic original the
\* staged file is redundant; otherwise the latch is set.
CommitDedup(b) ==
  /\ pc[b] = "dedup"
  /\ GuardPassed(b)
  /\ since' = {}
  /\ \E e \in Existing(want[b]) :
       \/ UsableOriginal(e) /\ Goto(b, "redundant") /\ UNCHANGED <<latch, lock>>
       \/ /\ ~UsableOriginal(e)
          /\ latch' = TRUE /\ lock' = None
          /\ Goto(b, "failed")
  /\ UNCHANGED <<files, db, phase, todo, health, want, acked, hurt, atOpen, mine>>

\* remove_file of the staged duplicate: the original is not looked at again.
CommitRemove(b) ==
  /\ pc[b] = "redundant"
  /\ IF place[b] = "tmp"
       THEN place' = [place EXCEPT ![b] = "none"] /\ Goto(b, "linking") /\ lock' = lock
       ELSE place' = place /\ Goto(b, "failed") /\ lock' = None
  /\ UNCHANGED <<body, want, db, phase, todo, health, latch, history>>

\* rename of the candidate into blobs, then sync_all.
CommitActivate(b) ==
  /\ pc[b] = "fresh"
  /\ IF place[b] = "tmp"
       THEN place' = [place EXCEPT ![b] = "blobs"] /\ Goto(b, "placed") /\ lock' = lock
       ELSE place' = place /\ Goto(b, "failed") /\ lock' = None
  /\ UNCHANGED <<body, want, db, phase, todo, health, latch, history>>

\* One transaction: the blob row if it is new, the item, its link and its job
\* (see DurableJobs).  The UNIQUE index on the digest is not used as a guard:
\* UniqueOriginal says it never has to refuse.
CommitLink(b) ==
  /\ \/ /\ pc[b] = "placed"
        /\ row' = [row EXCEPT ![b] = NewDigest(b)]
        /\ item' = [item EXCEPT ![b] = b]
     \/ /\ pc[b] = "linking"
        /\ row' = row
        /\ \E e \in Existing(want[b]) : item' = [item EXCEPT ![b] = e]
  /\ Goto(b, "committed")
  /\ UNCHANGED <<files, corrupted, want, instance, history>>

\* The receipt reaches the caller and the guard is released.
CommitReturn(b) ==
  /\ pc[b] = "committed"
  /\ Goto(b, "done")
  /\ lock' = None
  /\ acked' = acked \cup {b}
  /\ UNCHANGED <<files, db, phase, todo, health, latch, want, hurt, atOpen, since, mine>>

\* A `?` on an I/O or database error: what was done to the files stays done.
CommitFails(b) ==
  /\ pc[b] \in CommitStates \ {"committed"}
  /\ Goto(b, "failed")
  /\ lock' = None
  /\ UNCHANGED <<files, db, phase, todo, health, latch, want, history>>

CommitStep(b) ==
  \/ CommitDedup(b) \/ CommitRemove(b) \/ CommitActivate(b)
  \/ CommitLink(b) \/ CommitReturn(b)

-----------------------------------------------------------------------------
(* Integrity discovery at run time, under the mutex.                       *)

\* recover: an integrity failure latches, then marks the items; the UPDATE may
\* itself fail.  A success and an operational error change nothing.  The sink of
\* the caller is taken not to answer with an integrity code (see Dvb1Stream).
Recover(b) ==
  /\ phase = "open" /\ lock = None
  /\ row[b] # None
  /\ IntegrityFailure(b)
  /\ latch' = TRUE
  /\ corrupted' \in {corrupted, corrupted \cup ItemsOf(b)}
  /\ UNCHANGED <<files, row, item, phase, todo, health, lock, calls, history>>

\* complete_job's verify_canonical: latches, marks nothing.
JobVerifies(b) ==
  /\ Writable /\ lock = None
  /\ row[b] # None
  /\ IntegrityFailure(b)
  /\ latch' = TRUE
  /\ UNCHANGED <<files, db, phase, todo, health, lock, calls, history>>

-----------------------------------------------------------------------------
(* Life of the Vault value.                                                *)

ClosedInstance ==
  /\ phase' = "closed" /\ todo' = {} /\ health' = TRUE /\ latch' = FALSE /\ lock' = None
  /\ mine' = {} /\ atOpen' = {} /\ since' = {}
  /\ UNCHANGED <<files, db, want, acked, hurt>>

\* Dropped by its owner: no call borrows it.  A StagedImport may outlive it.
Close ==
  /\ phase = "open"
  /\ \A b \in Blobs : pc[b] \notin StageStates \cup CommitStates
  /\ ClosedInstance
  /\ pc' = pc

\* The process dies: every call and every StagedImport is gone.
Crash ==
  /\ ClosedInstance
  /\ pc' = [b \in Blobs |-> IF pc[b] \in {"idle", "done"} THEN pc[b] ELSE "failed"]

\* owner.lock taken, database opened, the ids of all rows read.
Open ==
  /\ phase = "closed"
  /\ phase' = "rows"
  /\ todo' = {b \in Blobs : row[b] # None}
  /\ atOpen' = hurt
  /\ UNCHANGED <<files, db, health, latch, lock, calls, acked, hurt, since, mine>>

\* reconcile, first loop: authenticate each canonical original.
CheckRow(b) ==
  /\ phase = "rows" /\ b \in todo
  /\ todo' = todo \ {b}
  /\ \/ RowVerifies(b) /\ UNCHANGED <<corrupted, health>>
     \/ ~RowVerifies(b) /\ corrupted' = corrupted \cup ItemsOf(b) /\ health' = VerdictAfterLoss
  /\ UNCHANGED <<files, row, item, phase, latch, lock, calls, history>>

\* Second loop: files in blobs without a row.
QuarantineOrphan(b) ==
  /\ phase = "orphans" /\ Orphan(b)
  /\ place' = [place EXCEPT ![b] = "quarantine"]
  /\ health' = FALSE
  /\ UNCHANGED <<body, db, phase, todo, latch, lock, calls, history>>

\* Third loop: everything in tmp.  The verdict is not affected.
QuarantineStaging(b) ==
  /\ phase = "staging" /\ b \in Staging
  /\ place' = [place EXCEPT ![b] = "quarantine"]
  /\ UNCHANGED <<body, db, instance, calls, history>>

\* The end of a loop; after the last one the instance is handed to its owner.
NextLoop ==
  /\ \/ phase = "rows" /\ todo = {} /\ phase' = "orphans"
     \/ phase = "orphans" /\ {b \in Blobs : Orphan(b)} = {} /\ phase' = "staging"
     \/ phase = "staging" /\ Staging = {} /\ phase' = "open"
  /\ UNCHANGED <<files, db, todo, health, latch, lock, calls, history>>

\* An operational error aborts the open; repairs already written stay.
OpenFails ==
  /\ phase \in Reconciling
  /\ ClosedInstance
  /\ pc' = pc

ReconcileStep ==
  \/ \E b \in Blobs : CheckRow(b) \/ QuarantineOrphan(b) \/ QuarantineStaging(b)
  \/ NextLoop

-----------------------------------------------------------------------------
(* The environment damages or removes a finished file.                     *)
Damage(b) ==
  /\ Cardinality(hurt) < MaxDamage /\ b \notin hurt
  /\ place[b] \in {"tmp", "blobs"} /\ body[b] \in Contents
  /\ \/ body' = [body EXCEPT ![b] = Damaged] /\ place' = place
     \/ place' = [place EXCEPT ![b] = "none"] /\ body' = body
  /\ hurt' = hurt \cup {b}
  /\ since' = IF \E a \in Blobs : pc[a] = "redundant" THEN since \cup {b} ELSE since
  /\ UNCHANGED <<db, instance, calls, acked, atOpen, mine>>

Next ==
  \/ \E b \in Blobs, c \in Contents : StageBegin(b, c)
  \/ \E b \in Blobs : StageSeal(b) \/ StageVerify(b) \/ StageFails(b)
  \/ \E b \in Blobs : CommitBegin(b) \/ CommitStep(b) \/ CommitFails(b)
  \/ \E b \in Blobs : Recover(b) \/ JobVerifies(b)
  \/ Close \/ Crash \/ Open \/ ReconcileStep \/ OpenFails
  \/ \E b \in Blobs : Damage(b)

Spec == Init /\ [][Next]_vars

\* A thread inside commit_import keeps running unless the process crashes; nothing
\* else is owed.
Fairness == \A b \in Blobs : WF_vars(CommitStep(b))
FairSpec == Spec /\ Fairness

-----------------------------------------------------------------------------
(* Properties.                                                             *)

\* INV-001: an import whose receipt was returned keeps an item, a row with its
\* digest and the sealed original, through crashes, failed transactions, dedup
\* and every reconciliation, unless the environment damaged that very file.
RecoverableOriginal ==
  \A i \in acked :
    LET e == item[i] IN
      /\ e # None
      /\ row[e] = want[i]
      /\ e \in hurt \/ Intact(e, want[i])

\* Exact deduplication: concurrent first imports of equal bytes never give two
\* canonical originals (vault.rs:598-606, between the SELECT and the INSERT).
UniqueOriginal ==
  \A a, b \in Blobs : row[a] # None /\ row[a] = row[b] => a = b

\* Only data the environment damaged is marked CORRUPTED (vault.rs:363-367,
\* 429-443): neither an operational error nor an interrupted import accuses
\* intact bytes.
NoFalseCondemnation == \A i \in corrupted : item[i] \in hurt

\* Damage done before a vault is opened is known when it admits its first
\* write: the verdict is RepairRequired and the items are marked.
StartupDetects ==
  phase = "open" =>
    \A i \in Blobs : item[i] \in atOpen => i \in corrupted /\ ~health

\* reconcile completes: an open vault has no unfinished file of an earlier
\* instance, so a .part or an unreferenced blob always has a live importer or
\* one that failed in this instance.
CleanAfterOpen ==
  phase = "open" =>
    \A b \in Blobs : place[b] = "tmp" \/ Orphan(b) => b \in mine

\* The program removes a file only as the duplicate of a recorded original that it
\* has authenticated before, under the guard it still holds: if that original is
\* not intact now, the environment hit it in between (vault.rs:610-611).  Crashes,
\* failures and repairs quarantine, never delete.
RemovesOnlyDuplicates ==
  [][\A b \in Blobs :
       place[b] # "none" /\ place'[b] = "none" /\ hurt' = hurt
         => /\ lock = b
            /\ \E e \in Blobs \ {b} :
                 row[e] = want[b] /\ (Intact(e, want[b]) \/ e \in since)]_vars

\* The abstract store: an import is permanent at the commit of its transaction,
\* and only while writes are admitted under the guard (vault.rs:327-340).
Link == [i \in Blobs |-> IF item[i] = None THEN None ELSE row[item[i]]]
Lost == {row[b] : b \in {e \in hurt : row[e] # None}}
Ledger == INSTANCE ImportLedger WITH
  Imports <- Blobs,
  link <- Link, lost <- Lost, condemned <- corrupted, writable <- Writable
ImplementsLedger == Ledger!LedgerSpec

\* The gate the job queue relies on: after a discovery nothing is admitted until
\* the next opening, and an opening admits writes only if no original was damaged
\* when it began; what is damaged while it runs is found by a later read.
Noticed == IF phase \in Reconciling THEN atOpen ELSE hurt
Gate == INSTANCE VaultGate WITH
  open <- phase = "open", writable <- Writable,
  damage <- {row[b] : b \in {e \in Noticed : row[e] # None}}
ImplementsGate == Gate!GateSpec

\* Whoever holds the database mutex can take the next step of commit_import, or fail
\* it: the guard is not awaited by its own holder, and the original that a
\* duplicate is checked against, or linked to, is still there (vault.rs:310,598).
HolderCanMove ==
  \A b \in Blobs : lock = b =>
    /\ pc[b] \in CommitStates
    /\ pc[b] = "dedup" => GuardPassed(b)
    /\ pc[b] \in {"dedup", "redundant", "linking"} => Existing(want[b]) # {}

\* commit_import always gives the database mutex back: verify_canonical works
\* on the guard it is passed, so the mutex is never locked twice by one thread.
GuardReleased == \A b \in Blobs : lock = b ~> lock # b
=============================================================================
