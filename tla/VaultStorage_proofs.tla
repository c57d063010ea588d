------------------------- MODULE VaultStorage_proofs -------------------------
(***************************************************************************)
(* Proofs about VaultStorage for every set of blobs and contents and any   *)
(* amount of damage.                                                       *)
(***************************************************************************)
EXTENDS VaultStorage, TLAPS

InFlight(b) == pc[b] \in StageStates \cup CommitStates

\* What one import attempt's progress says about its file, its row and its item.
AttemptInv ==
  \A b \in Blobs :
    /\ pc[b] = "idle" => /\ place[b] = "none" /\ row[b] = None /\ item[b] = None
                         /\ b \notin hurt
    /\ pc[b] # "idle" => want[b] \in Contents
    /\ pc[b] = "writing" => body[b] = Partial /\ b \notin hurt
    /\ pc[b] = "fresh" => b \in hurt \/ Candidate(b)
    /\ pc[b] = "placed" => b \in hurt \/ Intact(b, want[b])
    /\ pc[b] = "committed" \/ b \in acked => item[b] # None
    /\ b \in hurt => body[b] = Damaged \/ place[b] \in {"none", "quarantine"}

\* A row describes its own file and came with an item; an item has its row.
MetadataInv ==
  \A b \in Blobs :
    /\ row[b] # None => /\ pc[b] \in {"committed", "done", "failed"}
                        /\ row[b] = want[b] /\ item[b] = b
                        /\ b \in hurt \/ Intact(b, want[b])
    /\ item[b] # None => /\ pc[b] \in {"committed", "done", "failed"}
                         /\ row[item[b]] = want[b]

\* The database mutex serialises the commits, and admits them.
MutexInv ==
  /\ \A b \in Blobs : pc[b] \in CommitStates <=> lock = b
  /\ \A b \in Blobs : pc[b] \in CommitStates => Writable
  /\ \A b \in Blobs : pc[b] \in {"fresh", "placed"} => Existing(want[b]) = {}
  /\ \A b \in Blobs : pc[b] \in {"dedup", "redundant", "linking"} => Existing(want[b]) # {}
  /\ phase # "open" => \A b \in Blobs : ~InFlight(b)

\* What reconcile has established, loop by loop.
StartupInv ==
  /\ atOpen \subseteq hurt
  /\ mine \cap atOpen = {} /\ (phase = "closed" => mine = {})
  /\ phase \in {"open"} \cup Reconciling =>
       \A i \in Blobs : item[i] \in atOpen =>
         \/ i \in corrupted /\ ~health
         \/ phase = "rows" /\ item[i] \in todo
  /\ phase \in Reconciling => \A i \in corrupted : ~health \/ item[i] \in atOpen
  /\ phase = "staging" => \A b \in Blobs : ~Orphan(b)
  /\ \A b \in Blobs : InFlight(b) => b \in mine

IInv ==
  /\ TypeOK /\ AttemptInv /\ MetadataInv /\ MutexInv /\ StartupInv
  /\ UniqueOriginal /\ NoFalseCondemnation /\ CleanAfterOpen
-----------------------------------------------------------------------------
(* IInv is inductive: one step per action, and one per conjunct where the   *)
(* action disturbs several of them.                                         *)

\* The initial states satisfy the invariant.
LEMMA InitEstablishes == Init => IInv
  BY ValuesAreDistinct
     DEF Init, IInv, TypeOK, AttemptInv, MetadataInv, MutexInv, StartupInv, UniqueOriginal,
         NoFalseCondemnation, CleanAfterOpen, Existing, Orphan, InFlight, Dirs, PcStates,
         StageStates, CommitStates, Reconciling

\* Every step preserves the invariant, action by action.
LEMMA StepPreserves == IInv /\ [Next]_vars => IInv'
  <1> SUFFICES ASSUME IInv, [Next]_vars PROVE IInv'
    OBVIOUS
  <1> USE ValuesAreDistinct
      DEF IInv, TypeOK, AttemptInv, MetadataInv, MutexInv, StartupInv, UniqueOriginal,
          NoFalseCondemnation, CleanAfterOpen, InFlight, Dirs, PcStates, StageStates,
          CommitStates, Reconciling, Goto, files, db, instance, calls, history,
          Intact, Candidate, Existing, Orphan, Writable
  <1>1. ASSUME NEW b \in Blobs, NEW c \in Contents, StageBegin(b, c) PROVE IInv'
    BY <1>1 DEF StageBegin
  <1>2. ASSUME NEW b \in Blobs, StageSeal(b) PROVE IInv'
    BY <1>2 DEF StageSeal
  <1>3. ASSUME NEW b \in Blobs, StageVerify(b) PROVE IInv'
    BY <1>3 DEF StageVerify
  <1>4. ASSUME NEW b \in Blobs, StageFails(b) PROVE IInv'
    BY <1>4 DEF StageFails
  <1>5. ASSUME NEW b \in Blobs, CommitBegin(b) PROVE IInv'
    BY <1>5 DEF CommitBegin, Admits, HeldBy
  <1>6. ASSUME NEW b \in Blobs, CommitDedup(b) PROVE IInv'
    <2>1. TypeOK'
      <3>1. CASE Goto(b, "redundant") /\ UNCHANGED <<latch, lock>>
        BY <1>6, <3>1 DEF CommitDedup
      <3>2. CASE latch' = TRUE /\ lock' = None /\ Goto(b, "failed")
        BY <1>6, <3>2 DEF CommitDedup
      <3>3. QED
        BY <1>6, <3>1, <3>2 DEF CommitDedup
    <2>2. AttemptInv'
      BY <1>6 DEF CommitDedup, UsableOriginal, GuardPassed, Authentic
    <2>3. MetadataInv'
      BY <1>6 DEF CommitDedup, UsableOriginal, GuardPassed, Authentic
    <2>4. MutexInv'
      BY <1>6 DEF CommitDedup, UsableOriginal, GuardPassed, Authentic
    <2>5. StartupInv'
      BY <1>6 DEF CommitDedup, UsableOriginal, GuardPassed, Authentic
    <2>6. UniqueOriginal'
      BY <1>6 DEF CommitDedup, UsableOriginal, GuardPassed, Authentic
    <2>7. NoFalseCondemnation'
      BY <1>6 DEF CommitDedup, UsableOriginal, GuardPassed, Authentic
    <2>8. CleanAfterOpen'
      BY <1>6 DEF CommitDedup, UsableOriginal, GuardPassed, Authentic
    <2>9. QED
      BY <2>1, <2>2, <2>3, <2>4, <2>5, <2>6, <2>7, <2>8
  <1>61. ASSUME NEW b \in Blobs, CommitRemove(b) PROVE IInv'
    BY <1>61 DEF CommitRemove
  <1>7. ASSUME NEW b \in Blobs, CommitActivate(b) PROVE IInv'
    BY <1>7 DEF CommitActivate
  <1>8. ASSUME NEW b \in Blobs, CommitLink(b) PROVE IInv'
    BY <1>8 DEF CommitLink, NewDigest
  <1>9. ASSUME NEW b \in Blobs, CommitReturn(b) PROVE IInv'
    BY <1>9 DEF CommitReturn
  <1>10. ASSUME NEW b \in Blobs, CommitFails(b) PROVE IInv'
    BY <1>10 DEF CommitFails
  <1>11. ASSUME NEW b \in Blobs, Recover(b) PROVE IInv'
    BY <1>11 DEF Recover, IntegrityFailure, Authentic, ItemsOf
  <1>12. ASSUME NEW b \in Blobs, JobVerifies(b) PROVE IInv'
    BY <1>12 DEF JobVerifies, IntegrityFailure, Authentic
  <1>13. ASSUME Close PROVE IInv'
    <2>1. TypeOK'
      BY <1>13 DEF Close, ClosedInstance
    <2>2. AttemptInv'
      BY <1>13 DEF Close, ClosedInstance
    <2>3. MetadataInv'
      BY <1>13 DEF Close, ClosedInstance
    <2>4. MutexInv'
      BY <1>13 DEF Close, ClosedInstance
    <2>5. StartupInv'
      BY <1>13 DEF Close, ClosedInstance
    <2>6. UniqueOriginal'
      BY <1>13 DEF Close, ClosedInstance
    <2>7. NoFalseCondemnation'
      BY <1>13 DEF Close, ClosedInstance
    <2>8. CleanAfterOpen'
      BY <1>13 DEF Close, ClosedInstance
    <2>9. QED
      BY <2>1, <2>2, <2>3, <2>4, <2>5, <2>6, <2>7, <2>8
  <1>14. ASSUME Crash PROVE IInv'
    <2>1. TypeOK'
      BY <1>14 DEF Crash, ClosedInstance
    <2>2. AttemptInv'
      BY <1>14 DEF Crash, ClosedInstance
    <2>3. MetadataInv'
      BY <1>14 DEF Crash, ClosedInstance
    <2>4. MutexInv'
      BY <1>14 DEF Crash, ClosedInstance
    <2>5. StartupInv'
      BY <1>14 DEF Crash, ClosedInstance
    <2>6. UniqueOriginal'
      BY <1>14 DEF Crash, ClosedInstance
    <2>7. NoFalseCondemnation'
      BY <1>14 DEF Crash, ClosedInstance
    <2>8. CleanAfterOpen'
      BY <1>14 DEF Crash, ClosedInstance
    <2>9. QED
      BY <2>1, <2>2, <2>3, <2>4, <2>5, <2>6, <2>7, <2>8
  <1>15. ASSUME Open PROVE IInv'
    BY <1>15 DEF Open
  <1>16. ASSUME NEW b \in Blobs, CheckRow(b) PROVE IInv'
    <2>1. TypeOK'
      <3>1. CASE UNCHANGED <<corrupted, health>>
        BY <1>16, <3>1 DEF CheckRow, VerdictAfterLoss
      <3>2. CASE corrupted' = corrupted \cup ItemsOf(b) /\ health' = FALSE
        <4>1. corrupted' \subseteq {i \in Blobs : item'[i] # None}
          BY <1>16, <3>2 DEF CheckRow, ItemsOf
        <4>2. QED
          BY <1>16, <3>2, <4>1 DEF CheckRow
      <3>3. QED
        BY <1>16, <3>1, <3>2 DEF CheckRow, VerdictAfterLoss
    <2>2. AttemptInv'
      BY <1>16 DEF CheckRow, RowVerifies, Authentic, ItemsOf, VerdictAfterLoss
    <2>3. MetadataInv'
      BY <1>16 DEF CheckRow, RowVerifies, Authentic, ItemsOf, VerdictAfterLoss
    <2>4. MutexInv'
      BY <1>16 DEF CheckRow, RowVerifies, Authentic, ItemsOf, VerdictAfterLoss
    <2>5. StartupInv'
      BY <1>16 DEF CheckRow, RowVerifies, Authentic, ItemsOf, VerdictAfterLoss
    <2>6. UniqueOriginal'
      BY <1>16 DEF CheckRow, RowVerifies, Authentic, ItemsOf, VerdictAfterLoss
    <2>7. NoFalseCondemnation'
      BY <1>16 DEF CheckRow, RowVerifies, Authentic, ItemsOf, VerdictAfterLoss
    <2>8. CleanAfterOpen'
      BY <1>16 DEF CheckRow, RowVerifies, Authentic, ItemsOf, VerdictAfterLoss
    <2>9. QED
      BY <2>1, <2>2, <2>3, <2>4, <2>5, <2>6, <2>7, <2>8
  <1>17. ASSUME NEW b \in Blobs, QuarantineOrphan(b) PROVE IInv'
    <2>1. TypeOK'
      BY <1>17 DEF QuarantineOrphan
    <2>2. AttemptInv'
      BY <1>17 DEF QuarantineOrphan
    <2>3. MetadataInv'
      BY <1>17 DEF QuarantineOrphan
    <2>4. MutexInv'
      BY <1>17 DEF QuarantineOrphan
    <2>5. StartupInv'
      BY <1>17 DEF QuarantineOrphan
    <2>6. UniqueOriginal'
      BY <1>17 DEF QuarantineOrphan
    <2>7. NoFalseCondemnation'
      BY <1>17 DEF QuarantineOrphan
    <2>8. CleanAfterOpen'
      BY <1>17 DEF QuarantineOrphan
    <2>9. QED
      BY <2>1, <2>2, <2>3, <2>4, <2>5, <2>6, <2>7, <2>8
  <1>18. ASSUME NEW b \in Blobs, QuarantineStaging(b) PROVE IInv'
    BY <1>18 DEF QuarantineStaging, Staging
  <1>19. ASSUME NextLoop PROVE IInv'
    BY <1>19 DEF NextLoop, Staging
  <1>20. ASSUME OpenFails PROVE IInv'
    <2>1. TypeOK'
      BY <1>20 DEF OpenFails, ClosedInstance
    <2>2. AttemptInv'
      BY <1>20 DEF OpenFails, ClosedInstance
    <2>3. MetadataInv'
      BY <1>20 DEF OpenFails, ClosedInstance
    <2>4. MutexInv'
      BY <1>20 DEF OpenFails, ClosedInstance
    <2>5. StartupInv'
      BY <1>20 DEF OpenFails, ClosedInstance
    <2>6. UniqueOriginal'
      BY <1>20 DEF OpenFails, ClosedInstance
    <2>7. NoFalseCondemnation'
      BY <1>20 DEF OpenFails, ClosedInstance
    <2>8. CleanAfterOpen'
      BY <1>20 DEF OpenFails, ClosedInstance
    <2>9. QED
      BY <2>1, <2>2, <2>3, <2>4, <2>5, <2>6, <2>7, <2>8
  <1>21. ASSUME NEW b \in Blobs, Damage(b) PROVE IInv'
    BY <1>21 DEF Damage
  <1>22. CASE UNCHANGED vars
    BY <1>22 DEF vars
  <1>23. QED
    BY <1>1, <1>2, <1>3, <1>4, <1>5, <1>6, <1>61, <1>7, <1>8, <1>9, <1>10, <1>11, <1>12, <1>13, <1>14, <1>15, <1>16, <1>17, <1>18, <1>19, <1>20, <1>21, <1>22 DEF Next, CommitStep, ReconcileStep

\* The invariant holds in every reachable state.
LEMMA Invariance == Spec => []IInv
  BY InitEstablishes, StepPreserves, PTL DEF Spec

-----------------------------------------------------------------------------
(* The invariants of the runs, for every instance.                         *)

\* Every variable keeps its type: what a transaction, a rename or a repair
\* writes is a value of the vault's schema.
THEOREM SpecTypeOK == Spec => []TypeOK
  <1>1. IInv => TypeOK
    BY DEF IInv
  <1>2. QED
    BY <1>1, Invariance, PTL

\* INV-001: the original of every acknowledged import survives every crash,
\* failure, duplicate import and reconciliation; only its own file's damage
\* by the environment can lose it.
THEOREM SpecRecoverableOriginal == Spec => []RecoverableOriginal
  <1>1. IInv => RecoverableOriginal
    BY ValuesAreDistinct DEF IInv, TypeOK, AttemptInv, MetadataInv, RecoverableOriginal
  <1>2. QED
    BY <1>1, Invariance, PTL

\* Any number of concurrent imports of equal bytes leaves one canonical original.
THEOREM SpecUniqueOriginal == Spec => []UniqueOriginal
  <1>1. IInv => UniqueOriginal
    BY DEF IInv
  <1>2. QED
    BY <1>1, Invariance, PTL

\* An item is CORRUPTED only if the environment damaged its original.
THEOREM SpecNoFalseCondemnation == Spec => []NoFalseCondemnation
  <1>1. IInv => NoFalseCondemnation
    BY DEF IInv
  <1>2. QED
    BY <1>1, Invariance, PTL

\* An open vault has condemned everything that was damaged before it was opened.
THEOREM SpecStartupDetects == Spec => []StartupDetects
  <1>1. IInv => StartupDetects
    BY DEF IInv, StartupInv, StartupDetects, Reconciling
  <1>2. QED
    BY <1>1, Invariance, PTL

\* An open vault has no unfinished file that an earlier instance left.
THEOREM SpecCleanAfterOpen == Spec => []CleanAfterOpen
  <1>1. IInv => CleanAfterOpen
    BY DEF IInv
  <1>2. QED
    BY <1>1, Invariance, PTL

\* The holder of the database mutex is inside commit_import, and finds what its
\* next step needs: the guard it was passed, and the original it compares with.
THEOREM SpecHolderCanMove == Spec => []HolderCanMove
  <1>1. IInv => HolderCanMove
    BY ValuesAreDistinct DEF IInv, MutexInv, HolderCanMove, GuardPassed
  <1>2. QED
    BY <1>1, Invariance, PTL

-----------------------------------------------------------------------------
(* Removal of a file.                                                      *)

\* Between verify_canonical and remove_file of one commit_import the recorded
\* original is intact, or the environment has damaged it since it was read.
DuplicateInv ==
  \A b \in Blobs : pc[b] = "redundant" =>
    \E e \in Existing(want[b]) : Intact(e, want[b]) \/ e \in since

\* Every step keeps what the verification of the original has shown.
LEMMA DuplicateKept == IInv /\ DuplicateInv /\ [Next]_vars => DuplicateInv'
  <1> SUFFICES ASSUME IInv, DuplicateInv, [Next]_vars,
                      NEW b \in Blobs, pc'[b] = "redundant"
               PROVE  \E e \in Existing(want[b])' : Intact(e, want[b])' \/ e \in since'
    BY DEF DuplicateInv
  <1> USE DEF files, db, instance, calls, history, Goto
  <1>1. CASE pc[b] # "redundant"
    <2>1. CommitDedup(b)
      BY <1>1 DEF Next, vars, CommitStep, ReconcileStep, IInv, TypeOK, StageBegin, StageSeal,
           StageVerify, StageFails, CommitBegin, CommitDedup, CommitRemove, CommitActivate,
           CommitLink, CommitReturn, CommitFails, Recover, JobVerifies, Close, Crash, Open,
           CheckRow, QuarantineOrphan, QuarantineStaging, NextLoop, OpenFails,
           ClosedInstance, Damage
    <2>2. PICK e \in Existing(want[b]) : UsableOriginal(e)
      BY <2>1, <1>1 DEF CommitDedup, IInv, TypeOK
    <2>3. e \in Existing(want[b])' /\ Intact(e, want[b])'
      BY <2>1, <2>2 DEF CommitDedup, Existing, UsableOriginal, Authentic, Intact
    <2>4. QED
      BY <2>3
  <1>2. CASE pc[b] = "redundant"
    <2>1. PICK e \in Blobs : row[e] = want[b] /\ (Intact(e, want[b]) \/ e \in since)
      BY <1>2 DEF DuplicateInv, Existing
    <2>2. lock = b /\ phase = "open" /\ want[b] \in Contents
      BY <1>2 DEF IInv, MutexInv, AttemptInv, CommitStates, Writable
    <2>3. /\ pc[e] \notin StageStates \cup CommitStates \cup {"idle", "staged"} \/ pc[e] = "committed"
          /\ e # b
      BY <1>2, <2>1, <2>2, ValuesAreDistinct
         DEF IInv, MetadataInv, StageStates, CommitStates
    <2>4. pc[e] # "committed"
      BY <2>2, <2>3 DEF IInv, MutexInv, CommitStates
    <2>5. \A a \in Blobs : pc[a] \in CommitStates => a = b
      BY <2>2 DEF IInv, MutexInv
    <2>6. CASE \E d \in Blobs : Damage(d)
      <3>1. PICK d \in Blobs : Damage(d)
        BY <2>6
      <3>2. row' = row /\ want' = want /\ since' = since \cup {d}
        BY <1>2, <3>1 DEF Damage
      <3>3. d # e => place'[e] = place[e] /\ body'[e] = body[e]
        BY <3>1 DEF Damage, IInv, TypeOK
      <3>4. QED
        BY <2>1, <3>2, <3>3 DEF Existing, Intact
    <2>7. CASE ~\E d \in Blobs : Damage(d)
      <3>1. row'[e] = row[e] /\ want'[b] = want[b] /\ since \subseteq since'
        BY <1>2, <2>2, <2>3, <2>4, <2>5, <2>7, ValuesAreDistinct
           DEF Next, vars, CommitStep, ReconcileStep, IInv, TypeOK, StageBegin, StageSeal,
           StageVerify, StageFails, CommitBegin, CommitDedup, CommitRemove, CommitActivate,
           CommitLink, CommitReturn, CommitFails, Recover, JobVerifies, Close, Crash, Open,
           CheckRow, QuarantineOrphan, QuarantineStaging, NextLoop, OpenFails,
           ClosedInstance, Reconciling, StageStates, CommitStates
      <3>2. place[e] = "blobs" => place'[e] = place[e] /\ body'[e] = body[e]
        BY <1>2, <2>2, <2>3, <2>4, <2>5, <2>7, ValuesAreDistinct
           DEF Next, vars, CommitStep, ReconcileStep, IInv, TypeOK, StageBegin, StageSeal,
           StageVerify, StageFails, CommitBegin, CommitDedup, CommitRemove, CommitActivate,
           CommitLink, CommitReturn, CommitFails, Recover, JobVerifies, Close, Crash, Open,
           CheckRow, QuarantineOrphan, QuarantineStaging, NextLoop, OpenFails,
           ClosedInstance, Reconciling, StageStates, CommitStates
      <3>3. QED
        BY <2>1, <3>1, <3>2 DEF Existing, Intact
    <2>8. QED
      BY <2>6, <2>7
  <1>3. QED
    BY <1>1, <1>2

\* What the verification has shown holds until the file is removed.
LEMMA DuplicateInvariance == Spec => []DuplicateInv
  <1>1. Init => DuplicateInv
    BY DEF Init, DuplicateInv
  <1>2. QED
    BY <1>1, DuplicateKept, Invariance, PTL DEF Spec

\* The one file the program removes is the staged duplicate of a recorded original it
\* has authenticated under the guard it still holds: only damage done since can have
\* left the vault without that content.
THEOREM SpecRemovesOnlyDuplicates == Spec => RemovesOnlyDuplicates
  <1> DEFINE Kept == \A b \in Blobs :
               place[b] # "none" /\ place'[b] = "none" /\ hurt' = hurt
                 => /\ lock = b
                    /\ \E e \in Blobs \ {b} :
                         row[e] = want[b] /\ (Intact(e, want[b]) \/ e \in since)
  <1>1. IInv /\ DuplicateInv /\ [Next]_vars => [Kept]_vars
    <2> SUFFICES ASSUME IInv, DuplicateInv, Next, NEW b \in Blobs,
                        place[b] # "none", place'[b] = "none", hurt' = hurt
                 PROVE /\ lock = b
                       /\ \E e \in Blobs \ {b} :
                            row[e] = want[b] /\ (Intact(e, want[b]) \/ e \in since)
      OBVIOUS
    <2>1. CommitRemove(b)
      BY ValuesAreDistinct
         DEF Next, CommitStep, ReconcileStep, IInv, TypeOK, files, db, instance, calls, history,
             StageBegin, StageSeal, StageVerify, StageFails, CommitBegin, CommitDedup,
             CommitRemove, CommitActivate, CommitLink, CommitReturn, CommitFails, Recover,
             JobVerifies, Close, Crash, Open, CheckRow, QuarantineOrphan, QuarantineStaging,
             NextLoop, OpenFails, ClosedInstance, Damage
    <2>2. PICK e \in Existing(want[b]) : Intact(e, want[b]) \/ e \in since
      BY <2>1 DEF CommitRemove, DuplicateInv
    <2>3. lock = b /\ row[b] = None /\ want[b] \in Contents
      BY <2>1 DEF CommitRemove, IInv, AttemptInv, MetadataInv, MutexInv, CommitStates
    <2>4. QED
      BY <2>2, <2>3, ValuesAreDistinct DEF Existing
  <1>2. QED
    BY <1>1, Invariance, DuplicateInvariance, PTL DEF Spec, RemovesOnlyDuplicates

-----------------------------------------------------------------------------
(* VaultStorage implements ImportLedger.                                   *)

\* An action that touches no metadata and no admission is a stutter, or damage.
LEMMA QuietSteps ==
  ASSUME IInv, UNCHANGED <<row, item, corrupted, acked>>, hurt \subseteq hurt',
         Writable' = Writable
  PROVE  [Ledger!LedgerNext]_(Ledger!vars)
  <1>1. Link' = Link /\ Lost \subseteq Lost'
    BY DEF Link, Lost
  <1>2. QED
    BY <1>1 DEF Ledger!LedgerNext, Ledger!Lose

\* An original found damaged: it is among the lost, and so are its items.
LEMMA DiscoverySteps ==
  ASSUME IInv, NEW b \in Blobs, row[b] # None, ~Authentic(b),
         UNCHANGED <<row, item, hurt, acked>>,
         corrupted' \in {corrupted, corrupted \cup ItemsOf(b)}, Writable' = FALSE
  PROVE  Ledger!Discover
  <1>1. b \in hurt
    BY DEF IInv, MetadataInv, Authentic
  <1>2. Link' = Link /\ Lost' = Lost /\ row[b] \in Lost
    BY <1>1 DEF Link, Lost
  <1>3. \A i \in corrupted' : i \in Blobs /\ item[i] \in hurt /\ item[i] # None
    BY <1>1, ValuesAreDistinct DEF IInv, TypeOK, NoFalseCondemnation, ItemsOf
  <1>4. \A i \in corrupted' : Link[i] \in Lost
    <2> SUFFICES ASSUME NEW i \in corrupted' PROVE Link[i] \in Lost
      OBVIOUS
    <2>1. Link[i] = row[item[i]] /\ row[item[i]] = want[i] /\ want[i] \in Contents
      BY <1>3 DEF Link, IInv, AttemptInv, MetadataInv
    <2>2. QED
      BY <1>3, <2>1, ValuesAreDistinct DEF Lost, IInv, TypeOK
  <1>5. QED
    BY <1>2, <1>4 DEF Ledger!Discover

\* The instance goes away.
LEMMA WithdrawalSteps ==
  ASSUME IInv, UNCHANGED <<row, item, corrupted, acked, hurt>>, Writable' = FALSE
  PROVE  Ledger!Withdraw
  BY DEF Ledger!Withdraw, Link, Lost

\* An import is permanent at one instant, acknowledged only afterwards, never
\* admitted after a discovery, and never into a vault with condemned data.
THEOREM SpecImplementsLedger == Spec => ImplementsLedger
  <1>1. Init => Ledger!LedgerInit
    BY ValuesAreDistinct DEF Init, Ledger!LedgerInit, Link, Lost, Writable
  <1>2. IInv /\ [Next]_vars => [Ledger!LedgerNext]_(Ledger!vars)
    <2> SUFFICES ASSUME IInv, [Next]_vars PROVE [Ledger!LedgerNext]_(Ledger!vars)
      OBVIOUS
    <2> USE DEF Ledger!LedgerNext, files, db, instance, calls, history
    <2>1. ASSUME NEW b \in Blobs, NEW c \in Contents, StageBegin(b, c)
          PROVE [Ledger!LedgerNext]_(Ledger!vars)
      BY <2>1, QuietSteps DEF StageBegin, Writable
    <2>2. ASSUME NEW b \in Blobs, StageSeal(b) \/ StageVerify(b) \/ StageFails(b)
          PROVE [Ledger!LedgerNext]_(Ledger!vars)
      BY <2>2, QuietSteps DEF StageSeal, StageVerify, StageFails, Writable
    <2>3. ASSUME NEW b \in Blobs, CommitBegin(b) \/ CommitRemove(b) \/ CommitActivate(b) \/ CommitFails(b)
          PROVE [Ledger!LedgerNext]_(Ledger!vars)
      BY <2>3, QuietSteps DEF CommitBegin, CommitRemove, CommitActivate, CommitFails, Writable
    <2>4. ASSUME NEW b \in Blobs, CommitDedup(b)
          PROVE [Ledger!LedgerNext]_(Ledger!vars)
      <3>1. PICK e \in Existing(want[b]) :
              \/ UNCHANGED <<latch, lock>>
              \/ ~UsableOriginal(e) /\ latch' = TRUE
        BY <2>4 DEF CommitDedup
      <3>2. CASE UNCHANGED <<latch, lock>>
        BY <2>4, <3>2, QuietSteps DEF CommitDedup, Writable
      <3>3. CASE ~UsableOriginal(e) /\ latch' = TRUE
        <4>1. e \in Blobs /\ row[e] # None
          BY <2>4, ValuesAreDistinct DEF CommitDedup, Existing, IInv, AttemptInv
        <4>2. QED
          BY <2>4, <3>3, <4>1, DiscoverySteps DEF CommitDedup, UsableOriginal, Writable
      <3>4. QED
        BY <3>1, <3>2, <3>3
    <2>5. ASSUME NEW b \in Blobs, CommitLink(b)
          PROVE [Ledger!LedgerNext]_(Ledger!vars)
      <3>1. Writable /\ Writable' = Writable
        BY <2>5 DEF CommitLink, IInv, MutexInv, CommitStates, Writable
      <3>2. want[b] \in Contents /\ item[b] = None /\ row[b] = None
        BY <2>5 DEF CommitLink, IInv, AttemptInv, MetadataInv
      <3>3. \A i \in Blobs : item[i] # None => item[i] # b /\ item[i] \in Blobs
        BY <3>2, ValuesAreDistinct DEF IInv, TypeOK, AttemptInv, MetadataInv
      <3>4. Link' = [Link EXCEPT ![b] = want[b]]
        <4>1. PICK e \in Blobs : /\ item' = [item EXCEPT ![b] = e]
                                 /\ row' = [row EXCEPT ![b] = IF e = b THEN want[b] ELSE @]
                                 /\ row'[e] = want[b]
          BY <2>5, <3>2, ValuesAreDistinct
             DEF CommitLink, NewDigest, Existing, IInv, TypeOK
        <4>2. \A i \in Blobs \ {b} : item'[i] = item[i] /\ (item[i] # None => row'[item[i]] = row[item[i]])
          BY <3>3, <4>1 DEF IInv, TypeOK
        <4>3. Link'[b] = want[b] /\ \A i \in Blobs \ {b} : Link'[i] = Link[i]
          BY <4>1, <4>2, ValuesAreDistinct DEF Link, IInv, TypeOK
        <4>4. QED
          BY <4>3 DEF Link
      <3>5. Link[b] = None /\ Lost \subseteq Lost'
        BY <2>5, <3>2 DEF CommitLink, Link, Lost, IInv, TypeOK
      <3>6. Ledger!Commit(b, want[b])
        BY <2>5, <3>1, <3>4, <3>5 DEF CommitLink, Ledger!Commit
      <3>7. QED
        BY <3>2, <3>6
    <2>6. ASSUME NEW b \in Blobs, CommitReturn(b)
          PROVE [Ledger!LedgerNext]_(Ledger!vars)
      <3>1. item[b] # None /\ row[item[b]] # None
        BY <2>6, ValuesAreDistinct DEF CommitReturn, IInv, AttemptInv, MetadataInv
      <3>2. Ledger!Acknowledge(b)
        BY <2>6, <3>1 DEF CommitReturn, Ledger!Acknowledge, Link, Lost, Writable
      <3>3. QED
        BY <3>2
    <2>7. ASSUME NEW b \in Blobs, Recover(b) \/ JobVerifies(b)
          PROVE [Ledger!LedgerNext]_(Ledger!vars)
      BY <2>7, DiscoverySteps DEF Recover, JobVerifies, IntegrityFailure, Writable
    <2>8. ASSUME Close \/ Crash \/ OpenFails \/ Open
          PROVE [Ledger!LedgerNext]_(Ledger!vars)
      BY <2>8, WithdrawalSteps DEF Close, Crash, OpenFails, Open, ClosedInstance, Writable
    <2>9. ASSUME NEW b \in Blobs, CheckRow(b)
          PROVE [Ledger!LedgerNext]_(Ledger!vars)
      <3>1. CASE UNCHANGED <<corrupted, health>>
        BY <2>9, <3>1, WithdrawalSteps DEF CheckRow, Writable
      <3>2. CASE ~RowVerifies(b) /\ corrupted' = corrupted \cup ItemsOf(b)
        <4>1. CASE row[b] # None
          BY <2>9, <3>2, <4>1, DiscoverySteps DEF CheckRow, RowVerifies, Writable
        <4>2. CASE row[b] = None
          <5>1. ItemsOf(b) = {}
            BY <4>2, ValuesAreDistinct DEF ItemsOf, IInv, MetadataInv, AttemptInv
          <5>2. corrupted' = corrupted
            BY <3>2, <5>1
          <5>3. QED
            BY <2>9, <5>2, WithdrawalSteps DEF CheckRow, Writable
        <4>3. QED
          BY <4>1, <4>2
      <3>3. QED
        BY <2>9, <3>1, <3>2 DEF CheckRow
    <2>10. ASSUME NEW b \in Blobs, QuarantineOrphan(b) \/ QuarantineStaging(b)
           PROVE [Ledger!LedgerNext]_(Ledger!vars)
      BY <2>10, WithdrawalSteps DEF QuarantineOrphan, QuarantineStaging, Writable
    <2>11. ASSUME NextLoop
           PROVE [Ledger!LedgerNext]_(Ledger!vars)
      <3>1. CASE Writable'
        <4>1. phase = "staging" /\ health
          BY <2>11, <3>1 DEF NextLoop, Writable
        <4>2. corrupted = {}
          BY <4>1 DEF IInv, StartupInv, TypeOK, Reconciling
        <4>3. Ledger!Readmit
          BY <2>11, <3>1, <4>2 DEF NextLoop, Ledger!Readmit, Link, Lost
        <4>4. QED
          BY <4>3
      <3>2. CASE ~Writable'
        BY <2>11, <3>2, WithdrawalSteps DEF NextLoop, Writable
      <3>3. QED
        BY <3>1, <3>2
    <2>12. ASSUME NEW b \in Blobs, Damage(b)
           PROVE [Ledger!LedgerNext]_(Ledger!vars)
      BY <2>12, QuietSteps DEF Damage, Writable
    <2>13. CASE UNCHANGED vars
      BY <2>13, QuietSteps DEF vars, Writable
    <2>14. QED
      BY <2>1, <2>2, <2>3, <2>4, <2>5, <2>6, <2>7, <2>8, <2>9, <2>10, <2>11, <2>12, <2>13
         DEF Next, CommitStep, ReconcileStep
  <1>3. QED
    BY <1>1, <1>2, Invariance, PTL DEF Spec, ImplementsLedger, Ledger!LedgerSpec

-----------------------------------------------------------------------------
(* The store provides the gate that the job queue relies on.               *)

\* The contents whose original is damaged, as the gate counts them.
Reported == {row[b] : b \in {e \in Noticed : row[e] # None}}

\* Outside an opening all damage counts, inside what was there when it began.
LEMMA NoticedDamage == IInv => Noticed \subseteq hurt
  BY DEF IInv, StartupInv, Noticed

\* A step that changes neither the phase nor the damage nor the rows is quiet.
LEMMA GateQuiet ==
  ASSUME UNCHANGED <<phase, row, hurt, atOpen>>, Writable' = Writable
  PROVE  UNCHANGED Gate!gate
  BY DEF Noticed, Gate!gate

\* Finding an original damaged under the mutex closes the gate.
LEMMA GateDiscovers ==
  ASSUME IInv, phase = "open", NEW b \in Blobs, row[b] # None, ~Authentic(b),
         UNCHANGED <<phase, row, hurt, atOpen>>, latch'
  PROVE  Gate!Discover
  <1>1. b \in hurt /\ Noticed = hurt /\ UNCHANGED Noticed
    BY DEF IInv, MetadataInv, Authentic, Noticed, Reconciling
  <1>2. Reported # {} /\ UNCHANGED Reported
    BY <1>1 DEF Reported
  <1>3. Writable' = FALSE
    BY DEF Writable
  <1>4. QED
    BY <1>2, <1>3 DEF Gate!Discover, Reported

\* Giving the instance up closes the gate, and shows the damage an opening missed.
LEMMA GateWithdraws ==
  ASSUME IInv, phase' = "closed", UNCHANGED <<row, hurt>>
  PROVE  Gate!Withdraw \/ Gate!Spread
  <1>1. Noticed' = hurt /\ Writable' = FALSE
    BY DEF Noticed, Writable, Reconciling
  <1>2. Reported \subseteq Reported'
    BY <1>1, NoticedDamage DEF Reported
  <1>3. CASE phase \in Reconciling
    BY <1>1, <1>2, <1>3 DEF Gate!Spread, Reported, Writable, Reconciling
  <1>4. CASE phase \notin Reconciling
    <2>1. Reported' = Reported
      BY <1>1, <1>4 DEF Reported, Noticed
    <2>2. QED
      BY <1>1, <2>1 DEF Gate!Withdraw, Reported
  <1>5. QED
    BY <1>3, <1>4

\* A vault is handed out writable only if nothing was damaged when its opening began.
LEMMA GateAdmits ==
  ASSUME IInv, phase = "staging", phase' = "open", UNCHANGED <<row, hurt, atOpen, health, latch>>
  PROVE  Gate!Admit
  <1>1. Noticed = atOpen /\ Noticed' = hurt /\ atOpen \subseteq hurt
    BY DEF Noticed, Reconciling, IInv, StartupInv
  <1>2. Reported \subseteq Reported'
    BY <1>1 DEF Reported
  <1>3. Writable' => Reported = {}
    <2>1. SUFFICES ASSUME health PROVE \A e \in atOpen : row[e] = None
      BY <1>1 DEF Writable, Reported
    <2>2. \A e \in Blobs : row[e] # None => item[e] = e
      BY DEF IInv, MetadataInv
    <2>3. \A e \in Blobs : item[e] \notin atOpen
      BY <2>1 DEF IInv, StartupInv, Reconciling
    <2>4. QED
      BY <2>2, <2>3 DEF IInv, TypeOK
  <1>4. Writable' \in BOOLEAN
    BY DEF Writable
  <1>5. QED
    BY <1>2, <1>3, <1>4 DEF Gate!Admit, Reported

\* Every step spreads damage, discovers it, gives the vault up, admits it, or is none
\* of that.
LEMMA StepKeepsGate == IInv /\ [Next]_vars => [Gate!GateNext]_Gate!gate
  <1> SUFFICES ASSUME IInv, [Next]_vars PROVE Gate!GateNext \/ UNCHANGED Gate!gate
    OBVIOUS
  <1> USE DEF files, db, instance, calls, history
  <1>1. ASSUME NEW b \in Blobs, NEW c \in Contents, StageBegin(b, c) PROVE UNCHANGED Gate!gate
    BY <1>1, GateQuiet DEF StageBegin, Writable
  <1>2. ASSUME NEW b \in Blobs, StageSeal(b) \/ StageVerify(b) \/ StageFails(b)
        PROVE UNCHANGED Gate!gate
    BY <1>2, GateQuiet DEF StageSeal, StageVerify, StageFails, Writable
  <1>3. ASSUME NEW b \in Blobs,
               CommitBegin(b) \/ CommitRemove(b) \/ CommitActivate(b) \/ CommitReturn(b) \/ CommitFails(b)
        PROVE UNCHANGED Gate!gate
    BY <1>3, GateQuiet DEF CommitBegin, CommitRemove, CommitActivate, CommitReturn, CommitFails, Writable
  <1>4. ASSUME NEW b \in Blobs, CommitDedup(b) PROVE Gate!GateNext \/ UNCHANGED Gate!gate
    <2>1. PICK e \in Existing(want[b]) :
            UNCHANGED <<latch, lock>> \/ (~UsableOriginal(e) /\ latch' = TRUE)
      BY <1>4 DEF CommitDedup
    <2>2. CASE UNCHANGED <<latch, lock>>
      BY <1>4, <2>2, GateQuiet DEF CommitDedup, Writable
    <2>3. CASE ~UsableOriginal(e) /\ latch' = TRUE
      <3>1. e \in Blobs /\ row[e] # None /\ phase = "open"
        BY <1>4, ValuesAreDistinct
           DEF CommitDedup, Existing, IInv, AttemptInv, MutexInv, CommitStates, Writable
      <3>2. QED
        BY <1>4, <2>3, <3>1, GateDiscovers DEF CommitDedup, UsableOriginal, Gate!GateNext
    <2>4. QED
      BY <2>1, <2>2, <2>3
  <1>5. ASSUME NEW b \in Blobs, CommitLink(b) PROVE Gate!Spread
    <2>1. phase = "open" /\ UNCHANGED <<phase, hurt, atOpen, Writable>>
      BY <1>5 DEF CommitLink, IInv, MutexInv, CommitStates, Writable
    <2>2. row[b] = None
      BY <1>5 DEF CommitLink, IInv, MetadataInv
    <2>3. \A e \in Blobs : row[e] # None => row'[e] = row[e]
      BY <1>5, <2>2 DEF CommitLink, IInv, TypeOK
    <2>4. Noticed' = Noticed /\ Noticed \subseteq Blobs
      BY <2>1 DEF Noticed, IInv, TypeOK
    <2>5. Reported \subseteq Reported'
      BY <2>3, <2>4 DEF Reported
    <2>6. QED
      BY <2>1, <2>5 DEF Gate!Spread, Reported
  <1>6. ASSUME NEW b \in Blobs, Recover(b) \/ JobVerifies(b) PROVE Gate!Discover
    BY <1>6, GateDiscovers DEF Recover, JobVerifies, IntegrityFailure, Writable
  <1>7. ASSUME Close \/ Crash \/ OpenFails PROVE Gate!GateNext
    BY <1>7, GateWithdraws DEF Close, Crash, OpenFails, ClosedInstance, Gate!GateNext
  <1>8. ASSUME Open PROVE UNCHANGED Gate!gate
    BY <1>8 DEF Open, Noticed, Reconciling, Writable, Gate!gate
  <1>9. ASSUME NEW b \in Blobs, CheckRow(b) \/ QuarantineOrphan(b) \/ QuarantineStaging(b)
        PROVE UNCHANGED Gate!gate
    BY <1>9, GateQuiet DEF CheckRow, QuarantineOrphan, QuarantineStaging, Writable
  <1>10. ASSUME NextLoop PROVE Gate!GateNext \/ UNCHANGED Gate!gate
    <2>1. CASE phase = "staging" /\ phase' = "open"
      BY <1>10, <2>1, GateAdmits DEF NextLoop, Gate!GateNext
    <2>2. CASE phase # "staging"
      BY <1>10, <2>2 DEF NextLoop, Noticed, Reconciling, Writable, Gate!gate
    <2>3. QED
      BY <1>10, <2>1, <2>2 DEF NextLoop
  <1>11. ASSUME NEW b \in Blobs, Damage(b) PROVE Gate!Spread
    <2>1. Noticed \subseteq Noticed' /\ UNCHANGED <<phase, row, Writable>>
      BY <1>11 DEF Damage, Noticed, Writable
    <2>2. Reported \subseteq Reported'
      BY <2>1 DEF Reported
    <2>3. QED
      BY <2>1, <2>2 DEF Gate!Spread, Reported
  <1>12. CASE UNCHANGED vars
    BY <1>12, GateQuiet DEF vars, Writable
  <1>13. QED
    BY <1>1, <1>2, <1>3, <1>4, <1>5, <1>6, <1>7, <1>8, <1>9, <1>10, <1>11, <1>12
       DEF Next, CommitStep, ReconcileStep, Gate!GateNext

\* The verdict, the sticky latch and the mutex give the users of the vault the gate
\* they rely on: nothing admitted after a discovery, nor over damage an opening met.
THEOREM SpecImplementsGate == Spec => ImplementsGate
  <1>1. Init => Gate!GateInit
    BY DEF Init, Gate!GateInit, Noticed, Reconciling, Writable
  <1>2. QED
    BY <1>1, StepKeepsGate, Invariance, PTL DEF Spec, ImplementsGate, Gate!GateSpec
=============================================================================
