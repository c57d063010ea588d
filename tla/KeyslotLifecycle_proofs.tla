----------------------- MODULE KeyslotLifecycle_proofs -----------------------
(***************************************************************************)
(* Proofs about KeyslotLifecycle for any threads, passphrases, credential  *)
(* references and number of faults.                                        *)
(***************************************************************************)
EXTENDS KeyslotLifecycle, TLAPS

\* At most one thread works on the vault, as its creator or inside the session;
\* a creator that is verifying has already given the vault up.
OwnInv ==
  /\ owner \in Threads => busy = Nobody
  /\ busy \in Threads => owner = Session
  /\ \A t \in Threads :
       /\ owner = t => pc[t] \in {"preparing", "bootstrapped", "staging", "syncing"}
       /\ busy = t => pc[t] \in {"classifying", "storing", "staging", "syncing", "abandoning", "discarding"}
       /\ pc[t] \notin {"idle", "verifying"} => owner = t \/ busy = t
       /\ pc[t] \in {"idle", "verifying"} => ref[t] = None /\ prev[t] = None

\* Keyslots are in force only in a complete vault, and so are those a loss of
\* power falls back to.
BuildInv ==
  /\ stage = "none" => owner = Nobody /\ \A t \in Threads : pc[t] = "idle"
  /\ \A h \in {header, synced} : h # {} => stage = "ready" /\ Admitted(h)
  /\ owner = Session => header # {}

\* A creator founds the vault: nothing was in force before it activates.
CreateInv ==
  \A t \in Threads : owner = t =>
    /\ stage # "none" /\ (pc[t] \in {"staging", "syncing"} => stage = "ready")
    /\ synced = {} /\ (pc[t] # "syncing" => header = {})
    /\ \A s \in envelope[t] : s.kind \in {"passphrase-v1", "recovery-v1"}
    /\ ref[t] = None /\ prev[t] = None
    /\ \A u \in Threads : pc[u] # "verifying"
    /\ RecoverySlot \in envelope[t] => secret = "made"

\* What a keyslot call builds is one change of the header in force; the slot it
\* replaces is broken, and the reference it enrols is fresh until it activates.
ChangeInv ==
  \A t \in Threads : busy = t =>
    /\ pc[t] \in {"classifying", "storing"} => envelope[t] = header /\ ref[t] = None
    /\ pc[t] = "classifying" => prev[t] = None
    /\ pc[t] = "staging" =>
         \/ ref[t] = None /\ prev[t] = None
            /\ \E p \in Passphrases : envelope[t] = Updated(header, PassphraseSlot(p))
         \/ ref[t] # None /\ envelope[t] = Updated(header, DeviceSlot(ref[t]))
    /\ pc[t] \in {"storing", "abandoning"} \/ (pc[t] = "staging" /\ ref[t] # None) =>
         RefsOf(header) = {prev[t]} \ {None} /\ (prev[t] # None => store[prev[t]] # "key")
    /\ pc[t] = "abandoning" => ref[t] # None
    /\ pc[t] \in {"abandoning", "staging"} => ref[t] \notin RefsOf(header)
    /\ pc[t] \in {"syncing", "discarding"} =>
         IF ref[t] = None THEN prev[t] = None ELSE RefsOf(header) = {ref[t]} /\ prev[t] # ref[t]
    /\ pc[t] = "discarding" => ref[t] # None /\ prev[t] # None

\* References are drawn before they are used.
RefInv ==
  /\ RefsOf(header) \subseteq used /\ RefsOf(synced) \subseteq used
  /\ \A t \in Threads : {ref[t], prev[t]} \subseteq used \cup {None}

\* What was activated and not yet told is what the disk holds.
SyncInv == \A t \in Threads : pc[t] = "syncing" => header = envelope[t]

\* A stored credential is referenced, told, or in the hands of a call.
CleanInv ==
  \A r \in Refs : store[r] # "absent" => r \in RefsOf(header) \cup leaks \cup InFlight

\* A recovery secret on its way is with the creator.
SecretInv ==
  RecoverySlot \in header \cup synced =>
    \/ secret \in {"delivered", "lost"}
    \/ /\ secret = "made"
       /\ \E t \in Threads : ((owner = t /\ pc[t] = "syncing") \/ pc[t] = "verifying")
                             /\ RecoverySlot \in envelope[t]

IInv == TypeOK /\ OwnInv /\ BuildInv /\ CreateInv /\ ChangeInv /\ RefInv /\ SyncInv
        /\ CleanInv /\ SecretInv /\ OutcomeTruthful

-----------------------------------------------------------------------------
(* Slots and headers.                                                      *)

\* The slots that are wrapped are well formed.
LEMMA SlotTypes ==
  /\ \A p \in Passphrases : PassphraseSlot(p) \in Slots
  /\ \A r \in Refs : DeviceSlot(r) \in Slots
  /\ RecoverySlot \in Slots
  BY DEF Slots, PassphraseSlot, DeviceSlot, RecoverySlot, Wrap

\* A header names credentials by references that were drawn.
LEMMA RefsAreRefs == ASSUME NEW h \in SUBSET Slots PROVE RefsOf(h) \subseteq Refs
  BY DEF RefsOf, OfKind, Slots

\* The bootstrap header names no credential and admits no one.
LEMMA NoSlots == RefsOf({}) = {} /\ ~Admitted({}) /\ RecoverySlot \notin {}
  BY DEF RefsOf, OfKind, Admitted

\* A vault is founded without quick unlock.
LEMMA FoundingHasNoRefs ==
  ASSUME NEW h, \A s \in h : s.kind \in {"passphrase-v1", "recovery-v1"} PROVE RefsOf(h) = {}
  BY DEF RefsOf, OfKind

\* A header that is admitted names at most one credential.
LEMMA OneDevice ==
  ASSUME NEW h, Admitted(h), NEW s \in OfKind(h, "device-v1") PROVE RefsOf(h) = {s.ref}
  BY DEF Admitted, OfKind, RefsOf

\* A device slot names its credential.
LEMMA DeviceRefs ==
  ASSUME NEW h \in SUBSET Slots, NEW s \in OfKind(h, "device-v1")
  PROVE  s.ref \in Refs /\ s.ref \in RefsOf(h)
  BY DEF OfKind, Slots, RefsOf

\* A header without a device slot names no credential.
LEMMA NoDevice == ASSUME NEW h, OfKind(h, "device-v1") = {} PROVE RefsOf(h) = {}
  BY DEF RefsOf

\* A changed passphrase leaves the credential and the recovery slot alone.
LEMMA PassphraseUpdates ==
  ASSUME NEW h \in SUBSET Slots, NEW p \in Passphrases
  PROVE  /\ Updated(h, PassphraseSlot(p)) \in SUBSET Slots
         /\ RefsOf(Updated(h, PassphraseSlot(p))) = RefsOf(h)
         /\ RecoverySlot \in Updated(h, PassphraseSlot(p)) <=> RecoverySlot \in h
         /\ \A s \in OfKind(h, "device-v1") : s \in Updated(h, PassphraseSlot(p))
  BY SlotTypes DEF Updated, PassphraseSlot, RecoverySlot, Wrap, RefsOf, OfKind

\* An enrolled device slot is the only one.
LEMMA DeviceUpdates ==
  ASSUME NEW h \in SUBSET Slots, NEW r \in Refs
  PROVE  /\ Updated(h, DeviceSlot(r)) \in SUBSET Slots
         /\ RefsOf(Updated(h, DeviceSlot(r))) = {r}
         /\ RecoverySlot \in Updated(h, DeviceSlot(r)) <=> RecoverySlot \in h
  <1> DEFINE g == Updated(h, DeviceSlot(r))
  <1>1. DeviceSlot(r).kind = "device-v1" /\ DeviceSlot(r).ref = r /\ DeviceSlot(r) # RecoverySlot
    BY DEF DeviceSlot, RecoverySlot, Wrap
  <1>2. g \in SUBSET Slots /\ (RecoverySlot \in g <=> RecoverySlot \in h)
    BY <1>1, SlotTypes DEF Updated, RecoverySlot, Wrap
  <1>3. OfKind(g, "device-v1") = {DeviceSlot(r)}
    BY <1>1 DEF Updated, OfKind
  <1>4. QED
    BY <1>1, <1>2, <1>3 DEF RefsOf

-----------------------------------------------------------------------------
\* Every step preserves the invariant, action by action.
LEMMA StepPreserves == IInv /\ [Next]_vars => IInv'
  <1> SUFFICES ASSUME IInv, [Next]_vars PROVE IInv'
    OBVIOUS
  <1> USE KeyslotAssumption DEF IInv, Session, PcStates, Goto, disk, owners, calls, history
  <1>1. ASSUME NEW t \in Threads, NEW p \in Passphrases, NEW generate \in BOOLEAN,
               CreateBegin(t, p, generate)
        PROVE  IInv'
    <2>1. TypeOK'
      BY <1>1, SlotTypes, NoSlots DEF CreateBegin, PassphraseSlot, RecoverySlot, Wrap, TypeOK
    <2>2. OwnInv'
      BY <1>1 DEF CreateBegin, TypeOK, OwnInv, BuildInv
    <2>3. CreateInv'
      BY <1>1, SlotTypes, NoSlots
         DEF CreateBegin, PassphraseSlot, RecoverySlot, Wrap, TypeOK, OwnInv, BuildInv, CreateInv
    <2>4. SecretInv'
      BY <1>1, NoSlots DEF CreateBegin, TypeOK, BuildInv, SecretInv
    <2>5. BuildInv' /\ ChangeInv' /\ RefInv' /\ SyncInv' /\ CleanInv' /\ OutcomeTruthful'
      BY <1>1
         DEF CreateBegin, BuildInv, ChangeInv, RefInv, SyncInv, CleanInv, OutcomeTruthful,
             InFlight
    <2>6. QED
      BY <2>1, <2>2, <2>3, <2>4, <2>5
  <1>2. ASSUME NEW t \in Threads, CreateDatabase(t) PROVE IInv'
    BY <1>2
       DEF CreateDatabase, TypeOK, OwnInv, BuildInv, CreateInv, ChangeInv, RefInv, SyncInv,
           CleanInv, SecretInv, OutcomeTruthful, InFlight
  <1>3. ASSUME NEW t \in Threads, CreateSchema(t) PROVE IInv'
    BY <1>3
       DEF CreateSchema, TypeOK, OwnInv, BuildInv, CreateInv, ChangeInv, RefInv, SyncInv,
           CleanInv, SecretInv, OutcomeTruthful, InFlight
  <1>4. ASSUME NEW t \in Threads, CreateLock(t) PROVE IInv'
    <2>1. ChangeInv'
      BY <1>4 DEF CreateLock, TypeOK, OwnInv, ChangeInv
    <2>2. /\ TypeOK' /\ OwnInv' /\ BuildInv' /\ CreateInv' /\ RefInv'
          /\ SyncInv' /\ CleanInv' /\ SecretInv' /\ OutcomeTruthful'
      BY <1>4
         DEF CreateLock, TypeOK, OwnInv, BuildInv, CreateInv, RefInv, SyncInv, CleanInv,
             SecretInv, OutcomeTruthful, InFlight
    <2>3. QED
      BY <2>1, <2>2
  <1>5. ASSUME NEW t \in Threads, CreateFails(t) PROVE IInv'
    <2>1. OwnInv'
      BY <1>5 DEF CreateFails, Creating, Return, TypeOK, OwnInv
    <2>2. CleanInv'
      BY <1>5
         DEF CreateFails, Creating, Return, TypeOK, OwnInv, CreateInv, ChangeInv, RefInv,
             SyncInv, CleanInv, InFlight
    <2>3. SecretInv'
      BY <1>5
         DEF CreateFails, Creating, Return, TypeOK, OwnInv, CreateInv, ChangeInv, SyncInv,
             SecretInv
    <2>4. /\ TypeOK' /\ BuildInv' /\ CreateInv' /\ ChangeInv'
          /\ RefInv' /\ SyncInv' /\ OutcomeTruthful'
      BY <1>5
         DEF CreateFails, Creating, Return, TypeOK, BuildInv, CreateInv, ChangeInv, RefInv,
             SyncInv, OutcomeTruthful
    <2>5. QED
      BY <2>1, <2>2, <2>3, <2>4
  <1>6. ASSUME NEW t \in Threads, Activate(t) PROVE IInv'
    <2>1. header' = envelope[t] /\ Admitted(header') /\ header' # {} /\ header \in SUBSET Slots
      BY <1>6, NoSlots DEF Activate, TypeOK
    <2>2. owner = t \/ busy = t
      BY <1>6 DEF Activate, Activates, OwnInv
    <2>3. stage = "ready"
      BY <1>6, <2>2 DEF Activate, Activates, OwnInv, BuildInv, CreateInv
    <2>4. RefsOf(header') = IF owner = t THEN {} ELSE IF ref[t] = None THEN RefsOf(header) ELSE {ref[t]}
      <3>1. CASE owner = t
        BY <2>1, <3>1, FoundingHasNoRefs DEF CreateInv
      <3>2. CASE owner # t /\ ref[t] = None
        <4>1. PICK p \in Passphrases : header' = Updated(header, PassphraseSlot(p))
          BY <1>6, <2>1, <2>2, <3>2 DEF Activates, Activate, ChangeInv
        <4>2. QED
          BY <2>1, <3>2, <4>1, PassphraseUpdates
      <3>3. CASE owner # t /\ ref[t] # None
        <4>1. header' = Updated(header, DeviceSlot(ref[t])) /\ ref[t] \in Refs
          BY <1>6, <2>1, <2>2, <3>3 DEF Activates, Activate, ChangeInv, TypeOK
        <4>2. QED
          BY <2>1, <3>3, <4>1, DeviceUpdates
      <3>4. QED
        BY <3>1, <3>2, <3>3
    <2>5. BuildInv'
      BY <1>6, <2>1, <2>3 DEF Activate, BuildInv
    <2>6. CreateInv'
      BY <1>6 DEF Activate, Activates, TypeOK, OwnInv, CreateInv
    <2>7. ChangeInv'
      BY <1>6, <2>2, <2>4 DEF Activate, Activates, TypeOK, OwnInv, ChangeInv, RefInv
    <2>8. RefInv'
      BY <1>6, <2>2, <2>4 DEF Activate, Activates, TypeOK, OwnInv, RefInv
    <2>9. SyncInv'
      BY <1>6 DEF Activate, Activates, TypeOK, OwnInv, SyncInv
    <2>10. CleanInv'
      BY <1>6, NoSlots, RefsAreRefs, FoundingHasNoRefs, PassphraseUpdates, DeviceUpdates
         DEF Activate, Activates, TypeOK, OwnInv, CreateInv, ChangeInv, RefInv, SyncInv,
             CleanInv, InFlight
    <2>11. SecretInv'
      BY <1>6, NoSlots, RefsAreRefs, FoundingHasNoRefs, PassphraseUpdates, DeviceUpdates
         DEF Activate, Activates, TypeOK, OwnInv, CreateInv, ChangeInv, SyncInv, SecretInv
    <2>12. OutcomeTruthful'
      BY <1>6 DEF Activate, Activates, TypeOK, OutcomeTruthful
    <2>13. TypeOK' /\ OwnInv'
      BY <1>6 DEF Activate, Activates, TypeOK, OwnInv
    <2>14. QED
      BY <2>5, <2>6, <2>7, <2>8, <2>9, <2>10, <2>11, <2>12, <2>13
  <1>7. ASSUME NEW t \in Threads, NEW ok \in BOOLEAN, Sync(t, ok) PROVE IInv'
    <2>1. OwnInv'
      <3>1. CASE owner = t
        BY <1>7, <3>1 DEF Sync, Creating, Return, TypeOK, OwnInv, CreateInv
      <3>2. CASE owner # t
        BY <1>7, <3>2 DEF Sync, Creating, Return, TypeOK, OwnInv
      <3>3. QED
        BY <3>1, <3>2
    <2>2. CreateInv'
      BY <1>7 DEF Sync, Told, Creating, Return, TypeOK, OwnInv, CreateInv
    <2>3. ChangeInv'
      BY <1>7 DEF Sync, Told, Creating, Return, TypeOK, ChangeInv
    <2>4. RefInv'
      BY <1>7 DEF Sync, Told, Creating, Return, TypeOK, RefInv
    <2>5. SyncInv'
      BY <1>7 DEF Sync, Told, Creating, Return, TypeOK, SyncInv
    <2>6. CleanInv'
      BY <1>7
         DEF Sync, Told, Creating, Return, TypeOK, OwnInv, CreateInv, ChangeInv, RefInv, SyncInv,
             CleanInv, InFlight
    <2>7. SecretInv'
      BY <1>7
         DEF Sync, Told, Creating, Return, TypeOK, OwnInv, CreateInv, ChangeInv, SyncInv,
             SecretInv
    <2>8. OutcomeTruthful'
      BY <1>7 DEF Sync, Told, Creating, Return, TypeOK, OwnInv, SyncInv, OutcomeTruthful
    <2>9. TypeOK' /\ BuildInv'
      BY <1>7 DEF Sync, Told, Creating, Return, TypeOK, BuildInv
    <2>10. QED
      BY <2>1, <2>2, <2>3, <2>4, <2>5, <2>6, <2>7, <2>8, <2>9
  <1>8. ASSUME NEW t \in Threads, NEW ok \in BOOLEAN, Verify(t, ok) PROVE IInv'
    <2>1. CleanInv'
      BY <1>8 DEF Verify, AfterReread, Return, TypeOK, OwnInv, CleanInv, InFlight
    <2>2. /\ TypeOK' /\ OwnInv' /\ BuildInv' /\ CreateInv' /\ ChangeInv'
          /\ RefInv' /\ SyncInv' /\ SecretInv' /\ OutcomeTruthful'
      BY <1>8
         DEF Verify, AfterReread, Return, TypeOK, OwnInv, BuildInv, CreateInv, ChangeInv, RefInv,
             SyncInv, SecretInv, OutcomeTruthful
    <2>3. QED
      BY <2>1, <2>2
  <1>9. ASSUME NEW t \in Threads, NEW p \in Passphrases, ChangeBegin(t, p) PROVE IInv'
    <2>1. TypeOK'
      BY <1>9, PassphraseUpdates DEF ChangeBegin, Begin, MayEnter, TypeOK
    <2>2. OwnInv'
      BY <1>9 DEF ChangeBegin, Begin, MayEnter, TypeOK, OwnInv
    <2>3. ChangeInv'
      BY <1>9
         DEF ChangeBegin, Begin, MayEnter, TypeOK, OwnInv, BuildInv, ChangeInv, RefInv, SyncInv
    <2>4. /\ BuildInv' /\ CreateInv' /\ RefInv' /\ SyncInv'
          /\ CleanInv' /\ SecretInv' /\ OutcomeTruthful'
      BY <1>9
         DEF ChangeBegin, Begin, MayEnter, BuildInv, CreateInv, RefInv, SyncInv, CleanInv,
             SecretInv, OutcomeTruthful, InFlight
    <2>5. QED
      BY <2>1, <2>2, <2>3, <2>4
  <1>10. ASSUME NEW t \in Threads, ChangeFails(t) PROVE IInv'
    <2>1. OwnInv'
      BY <1>10 DEF ChangeFails, Creating, Return, TypeOK, OwnInv
    <2>2. CleanInv'
      BY <1>10
         DEF ChangeFails, Creating, Return, TypeOK, OwnInv, CreateInv, ChangeInv, RefInv,
             SyncInv, CleanInv, InFlight
    <2>3. /\ TypeOK' /\ BuildInv' /\ CreateInv' /\ ChangeInv'
          /\ RefInv' /\ SyncInv' /\ SecretInv' /\ OutcomeTruthful'
      BY <1>10
         DEF ChangeFails, Creating, Return, TypeOK, BuildInv, CreateInv, ChangeInv, RefInv,
             SyncInv, SecretInv, OutcomeTruthful
    <2>4. QED
      BY <2>1, <2>2, <2>3
  <1>11. ASSUME NEW t \in Threads, EnrollBegin(t) PROVE IInv'
    <2>1. OwnInv'
      BY <1>11 DEF EnrollBegin, Begin, MayEnter, TypeOK, OwnInv
    <2>2. ChangeInv'
      BY <1>11 DEF EnrollBegin, Begin, MayEnter, TypeOK, OwnInv, ChangeInv
    <2>3. /\ TypeOK' /\ BuildInv' /\ CreateInv' /\ RefInv'
          /\ SyncInv' /\ CleanInv' /\ SecretInv' /\ OutcomeTruthful'
      BY <1>11
         DEF EnrollBegin, Begin, MayEnter, TypeOK, BuildInv, CreateInv, RefInv, SyncInv,
             CleanInv, SecretInv, OutcomeTruthful, InFlight
    <2>4. QED
      BY <2>1, <2>2, <2>3
  <1>12. ASSUME NEW t \in Threads, Classify(t) PROVE IInv'
    <2>1. TypeOK'
      BY <1>12, DeviceRefs DEF Classify, TypeOK
    <2>2. OwnInv'
      BY <1>12 DEF Classify, Unusable, Healthy, TypeOK, OwnInv
    <2>3. CreateInv'
      BY <1>12 DEF Classify, Unusable, Healthy, TypeOK, OwnInv, CreateInv
    <2>4. ChangeInv'
      <3>1. busy = t /\ envelope[t] = header /\ Admitted(header) /\ header \in SUBSET Slots
        BY <1>12, NoSlots DEF Classify, TypeOK, OwnInv, BuildInv, ChangeInv
      <3>2. RefsOf(header) = {prev'[t]} \ {None} /\ (prev'[t] # None => store[prev'[t]] # "key")
        <4>1. CASE OfKind(envelope[t], "device-v1") = {} /\ UNCHANGED prev
          BY <1>12, <3>1, <4>1, NoDevice DEF Classify, ChangeInv
        <4>2. ASSUME NEW s \in OfKind(envelope[t], "device-v1"), Unusable(s),
                     prev' = [prev EXCEPT ![t] = s.ref]
              PROVE RefsOf(header) = {prev'[t]} \ {None} /\ (prev'[t] # None => store[prev'[t]] # "key")
          BY <3>1, <4>2, OneDevice, DeviceRefs DEF TypeOK, Unusable, Healthy
        <4>3. QED
          BY <1>12, <4>1, <4>2 DEF Classify
      <3>3. QED
        BY <1>12, <3>1, <3>2 DEF Classify, TypeOK, OwnInv, ChangeInv
    <2>5. RefInv'
      BY <1>12, DeviceRefs DEF Classify, TypeOK, OwnInv, ChangeInv, RefInv
    <2>6. CleanInv'
      BY <1>12
         DEF Classify, Unusable, Healthy, TypeOK, OwnInv, CreateInv, ChangeInv, RefInv, SyncInv,
             CleanInv, InFlight
    <2>7. BuildInv' /\ SyncInv' /\ SecretInv' /\ OutcomeTruthful'
      BY <1>12 DEF Classify, Unusable, Healthy, BuildInv, SyncInv, SecretInv, OutcomeTruthful
    <2>8. QED
      BY <2>1, <2>2, <2>3, <2>4, <2>5, <2>6, <2>7
  <1>13. ASSUME NEW t \in Threads, EnrollRefused(t) PROVE IInv'
    <2>1. OwnInv'
      BY <1>13 DEF EnrollRefused, Return, TypeOK, OwnInv
    <2>2. CleanInv'
      BY <1>13
         DEF EnrollRefused, Return, TypeOK, OwnInv, CreateInv, ChangeInv, RefInv, SyncInv,
             CleanInv, InFlight
    <2>3. /\ TypeOK' /\ BuildInv' /\ CreateInv' /\ ChangeInv'
          /\ RefInv' /\ SyncInv' /\ SecretInv' /\ OutcomeTruthful'
      BY <1>13
         DEF EnrollRefused, Return, TypeOK, BuildInv, CreateInv, ChangeInv, RefInv, SyncInv,
             SecretInv, OutcomeTruthful
    <2>4. QED
      BY <2>1, <2>2, <2>3
  <1>14. ASSUME NEW t \in Threads, NEW r \in Refs, StoreKey(t, r) PROVE IInv'
    <2>1. TypeOK'
      <3>1. store' \in [Refs -> {"absent", "key", "unusable"}] /\ ref' \in [Threads -> Refs \cup {None}]
        BY <1>14 DEF StoreKey, Draw, TypeOK
      <3>2. envelope' \in [Threads -> SUBSET Slots]
        <4>1. Updated(envelope[t], DeviceSlot(r)) \in SUBSET Slots
          BY DeviceUpdates DEF TypeOK
        <4>2. QED
          BY <1>14, <4>1 DEF StoreKey, TypeOK
      <3>3. pc' \in [Threads -> PcStates] /\ used' \subseteq Refs
        BY <1>14 DEF StoreKey, Draw, TypeOK
      <3>4. QED
        BY <1>14, <3>1, <3>2, <3>3 DEF StoreKey, TypeOK
    <2>2. CreateInv'
      BY <1>14 DEF StoreKey, Draw, TypeOK, OwnInv, CreateInv
    <2>3. ChangeInv'
      BY <1>14 DEF StoreKey, Draw, TypeOK, OwnInv, BuildInv, ChangeInv, RefInv, SyncInv
    <2>4. CleanInv'
      BY <1>14
         DEF StoreKey, Draw, TypeOK, OwnInv, CreateInv, ChangeInv, RefInv, SyncInv, CleanInv,
             InFlight
    <2>5. OwnInv' /\ BuildInv' /\ RefInv' /\ SyncInv' /\ SecretInv' /\ OutcomeTruthful'
      BY <1>14 DEF StoreKey, Draw, OwnInv, BuildInv, RefInv, SyncInv, SecretInv, OutcomeTruthful
    <2>6. QED
      BY <2>1, <2>2, <2>3, <2>4, <2>5
  <1>15. ASSUME NEW t \in Threads, NEW r \in Refs, NEW left \in {"absent", "key", "unusable"},
                StoreFails(t, r, left)
         PROVE  IInv'
    <2>1. CreateInv'
      BY <1>15 DEF StoreFails, Draw, TypeOK, OwnInv, CreateInv
    <2>2. ChangeInv'
      BY <1>15 DEF StoreFails, Draw, TypeOK, OwnInv, BuildInv, ChangeInv, RefInv, SyncInv
    <2>3. CleanInv'
      BY <1>15
         DEF StoreFails, Draw, TypeOK, OwnInv, CreateInv, ChangeInv, RefInv, SyncInv, CleanInv,
             InFlight
    <2>4. TypeOK' /\ OwnInv' /\ BuildInv' /\ RefInv' /\ SyncInv' /\ SecretInv' /\ OutcomeTruthful'
      BY <1>15
         DEF StoreFails, Draw, TypeOK, OwnInv, BuildInv, RefInv, SyncInv, SecretInv,
             OutcomeTruthful
    <2>5. QED
      BY <2>1, <2>2, <2>3, <2>4
  <1>16. ASSUME NEW t \in Threads, EnrollFails(t) PROVE IInv'
    <2>1. OwnInv'
      BY <1>16 DEF EnrollFails, TypeOK, OwnInv, CreateInv
    <2>2. /\ TypeOK' /\ BuildInv' /\ CreateInv' /\ ChangeInv' /\ RefInv'
          /\ SyncInv' /\ CleanInv' /\ SecretInv' /\ OutcomeTruthful'
      BY <1>16
         DEF EnrollFails, TypeOK, BuildInv, CreateInv, ChangeInv, RefInv, SyncInv, CleanInv,
             SecretInv, OutcomeTruthful, InFlight
    <2>3. QED
      BY <2>1, <2>2
  <1>17. ASSUME NEW t \in Threads, NEW ok \in BOOLEAN, Abandon(t, ok) PROVE IInv'
    <2>1. TypeOK'
      BY <1>17 DEF Abandon, Discard, Leaked, Return, TypeOK, OwnInv, ChangeInv
    <2>2. OwnInv'
      BY <1>17 DEF Abandon, Discard, Leaked, Return, TypeOK, OwnInv
    <2>3. CleanInv'
      BY <1>17
         DEF Abandon, Discard, Leaked, Return, TypeOK, OwnInv, CreateInv, ChangeInv, RefInv,
             SyncInv, CleanInv, InFlight
    <2>4. /\ BuildInv' /\ CreateInv' /\ ChangeInv' /\ RefInv'
          /\ SyncInv' /\ SecretInv' /\ OutcomeTruthful'
      BY <1>17
         DEF Abandon, Discard, Leaked, Return, BuildInv, CreateInv, ChangeInv, RefInv, SyncInv,
             SecretInv, OutcomeTruthful
    <2>5. QED
      BY <2>1, <2>2, <2>3, <2>4
  <1>18. ASSUME NEW t \in Threads, NEW ok \in BOOLEAN, DiscardPrevious(t, ok) PROVE IInv'
    <2>1. TypeOK'
      BY <1>18 DEF DiscardPrevious, Discard, Leaked, Return, TypeOK, OwnInv, ChangeInv
    <2>2. OwnInv'
      BY <1>18 DEF DiscardPrevious, Discard, Leaked, Return, TypeOK, OwnInv
    <2>3. CleanInv'
      BY <1>18
         DEF DiscardPrevious, Discard, Leaked, Return, TypeOK, OwnInv, CreateInv, ChangeInv,
             RefInv, SyncInv, CleanInv, InFlight
    <2>4. /\ BuildInv' /\ CreateInv' /\ ChangeInv' /\ RefInv'
          /\ SyncInv' /\ SecretInv' /\ OutcomeTruthful'
      BY <1>18
         DEF DiscardPrevious, Discard, Leaked, Return, BuildInv, CreateInv, ChangeInv, RefInv,
             SyncInv, SecretInv, OutcomeTruthful
    <2>5. QED
      BY <2>1, <2>2, <2>3, <2>4
  <1>19. ASSUME NEW key, Unlock(key) PROVE IInv'
    <2>1. BuildInv'
      BY <1>19, NoSlots DEF Unlock, TypeOK, BuildInv
    <2>2. /\ TypeOK' /\ OwnInv' /\ CreateInv' /\ ChangeInv' /\ RefInv'
          /\ SyncInv' /\ CleanInv' /\ SecretInv' /\ OutcomeTruthful'
      BY <1>19
         DEF Unlock, TypeOK, OwnInv, CreateInv, ChangeInv, RefInv, SyncInv, CleanInv, SecretInv,
             OutcomeTruthful, InFlight
    <2>3. QED
      BY <2>1, <2>2
  <1>20. ASSUME Lock PROVE IInv'
    BY <1>20
       DEF Lock, MayLock, TypeOK, OwnInv, BuildInv, CreateInv, ChangeInv, RefInv, SyncInv, CleanInv,
           SecretInv, OutcomeTruthful, InFlight
  <1>21. ASSUME Crash PROVE IInv'
    <2>1. TypeOK'
      <3>1. promised' \subseteq SUBSET Slots
        BY <1>21 DEF Crash, Dies, TypeOK
      <3>2. leaks' \subseteq Refs
        BY <1>21 DEF Crash, InFlight, TypeOK
      <3>3. QED
        BY <1>21, <3>1, <3>2 DEF Crash, Dies, TypeOK
    <2>2. /\ OwnInv' /\ BuildInv' /\ CreateInv' /\ ChangeInv' /\ RefInv'
          /\ SyncInv' /\ CleanInv' /\ SecretInv' /\ OutcomeTruthful'
      BY <1>21
         DEF Crash, Dies, OwnInv, BuildInv, CreateInv, ChangeInv, RefInv, SyncInv, CleanInv,
             SecretInv, OutcomeTruthful, InFlight
    <2>3. QED
      BY <2>1, <2>2
  <1>22. ASSUME PowerLoss PROVE IInv'
    <2>1. TypeOK'
      <3>1. promised' \subseteq SUBSET Slots
        BY <1>22 DEF PowerLoss, Dies, TypeOK
      <3>2. leaks' \subseteq Refs
        BY <1>22, RefsAreRefs DEF PowerLoss, InFlight, TypeOK
      <3>3. QED
        BY <1>22, <3>1, <3>2 DEF PowerLoss, Dies, TypeOK
    <2>2. /\ OwnInv' /\ BuildInv' /\ CreateInv' /\ ChangeInv' /\ RefInv'
          /\ SyncInv' /\ CleanInv' /\ SecretInv' /\ OutcomeTruthful'
      BY <1>22
         DEF PowerLoss, Dies, OwnInv, BuildInv, CreateInv, ChangeInv, RefInv, SyncInv, CleanInv,
             SecretInv, OutcomeTruthful, InFlight
    <2>3. QED
      BY <2>1, <2>2
  <1>23. ASSUME NEW r \in Refs, NEW left \in {"absent", "unusable"}, DamageCredential(r,
                left)
         PROVE  IInv'
    BY <1>23
       DEF DamageCredential, TypeOK, OwnInv, BuildInv, CreateInv, ChangeInv, RefInv, SyncInv,
           CleanInv, SecretInv, OutcomeTruthful, InFlight
  <1>24. ASSUME UNCHANGED vars PROVE IInv'
    BY <1>24
       DEF vars, TypeOK, OwnInv, BuildInv, CreateInv, ChangeInv, RefInv, SyncInv, CleanInv,
           SecretInv, OutcomeTruthful, InFlight
  <1>25. QED
    BY <1>1, <1>2, <1>3, <1>4, <1>5, <1>6, <1>7, <1>8, <1>9, <1>10, <1>11, <1>12, <1>13,
       <1>14, <1>15, <1>16, <1>17, <1>18, <1>19, <1>20, <1>21, <1>22, <1>23, <1>24
       DEF Next, Create, ReplaceHeader, ChangePassphrase, EnableDevice

\* A fresh installation satisfies the invariant.
LEMMA InitEstablishes == Init => IInv
  BY KeyslotAssumption, NoSlots
     DEF Init, IInv, TypeOK, OwnInv, BuildInv, CreateInv, ChangeInv, RefInv, SyncInv, CleanInv,
         SecretInv, OutcomeTruthful, PcStates, Session, InFlight

\* The inductive invariant holds in every reachable state.
LEMMA Invariance == Spec => []IInv
  <1>1. IInv /\ [Next]_vars => IInv'
    BY StepPreserves
  <1>2. QED
    BY InitEstablishes, <1>1, PTL DEF Spec

-----------------------------------------------------------------------------
(* Invariants.                                                             *)

\* The vault directory, the credential store and the calls stay well formed.
THEOREM SpecTypeOK == Spec => []TypeOK
  BY Invariance, PTL DEF IInv

\* change_passphrase, enable_device and create tell the truth about the header.
THEOREM SpecOutcomeTruthful == Spec => []OutcomeTruthful
  BY Invariance, PTL DEF IInv

\* replace_header never puts keyslots in force in a half-built vault.
THEOREM SpecActivatedIsComplete == Spec => []ActivatedIsComplete
  <1>1. IInv => ActivatedIsComplete
    BY DEF IInv, BuildInv, ActivatedIsComplete
  <1>2. QED
    BY <1>1, Invariance, PTL

\* discard removes or reports every credential no header references.
THEOREM SpecCleanupTruthful == Spec => []CleanupTruthful
  <1>1. IInv => CleanupTruthful
    <2> SUFFICES ASSUME IInv, \A t \in Threads : pc[t] = "idle", NEW r \in Refs, store[r] # "absent"
                 PROVE  r \in RefsOf(header) \cup leaks
      BY DEF CleanupTruthful
    <2>1. InFlight = {}
      BY DEF IInv, OwnInv, InFlight
    <2>2. QED
      BY <2>1 DEF IInv, CleanInv
  <1>2. QED
    BY <1>1, Invariance, PTL

\* create_with_policy hands over the recovery secret of every activated slot.
THEOREM SpecRecoveryDelivered == Spec => []RecoveryDelivered
  <1>1. IInv => RecoveryDelivered
    BY DEF IInv, SecretInv, RecoveryDelivered
  <1>2. QED
    BY <1>1, Invariance, PTL

-----------------------------------------------------------------------------
(* The working quick unlock is kept.                                       *)

\* The property of a step, without its temporal operator.
Keeps == faults' = faults => \A s \in QuickUnlock(header) : s \in header' /\ store'[s.ref] = "key"

\* A step that leaves the header in force and its credentials alone.
LEMMA Undisturbed ==
  ASSUME TypeOK, header' = header, \A r \in RefsOf(header) : store'[r] = store[r] PROVE Keeps
  <1> SUFFICES ASSUME NEW s \in QuickUnlock(header) PROVE s \in header' /\ store'[s.ref] = "key"
    BY DEF Keeps
  <1>1. s \in OfKind(header, "device-v1") /\ store[s.ref] = "key" /\ header \in SUBSET Slots
    BY DEF QuickUnlock, Healthy, TypeOK
  <1>2. s.ref \in RefsOf(header)
    BY <1>1, DeviceRefs
  <1>3. QED
    BY <1>1, <1>2 DEF OfKind

\* A new header keeps the healthy slot, or replaces one that was not.
LEMMA ActivateKeeps ==
  ASSUME IInv, NEW t \in Threads, Activate(t) PROVE Keeps
  <1> SUFFICES ASSUME NEW s \in QuickUnlock(header) PROVE s \in header' /\ store'[s.ref] = "key"
    BY DEF Keeps
  <1> USE DEF IInv
  <1>1. /\ s \in OfKind(header, "device-v1") /\ store[s.ref] = "key"
        /\ s.ref \in RefsOf(header) /\ s.ref \in Refs
        /\ header' = envelope[t] /\ UNCHANGED store
    BY DeviceRefs DEF QuickUnlock, Healthy, TypeOK, Activate
  <1>2. busy = t /\ pc[t] = "staging"
    BY <1>1 DEF Activate, Activates, OwnInv, CreateInv, OfKind
  <1>3. CASE ref[t] = None
    <2>1. PICK p \in Passphrases : header' = Updated(header, PassphraseSlot(p))
      BY <1>1, <1>2, <1>3 DEF ChangeInv
    <2>2. QED
      BY <1>1, <2>1, PassphraseUpdates DEF TypeOK
  <1>4. CASE ref[t] # None
    BY <1>1, <1>2, <1>4 DEF ChangeInv
  <1>5. QED
    BY <1>3, <1>4

\* Cleanup removes a credential the header in force does not reference.
LEMMA CleanupKeeps ==
  ASSUME IInv, NEW t \in Threads, NEW ok \in BOOLEAN, Abandon(t, ok) \/ DiscardPrevious(t, ok)
  PROVE  Keeps
  <1> USE KeyslotAssumption DEF IInv, Session
  <1>1. CASE Abandon(t, ok)
    <2>1. busy = t /\ ref[t] \notin RefsOf(header)
      BY <1>1 DEF Abandon, OwnInv, ChangeInv
    <2>2. header' = header /\ \A r \in RefsOf(header) : store'[r] = store[r]
      BY <1>1, <2>1, RefsAreRefs DEF Abandon, Discard, disk, TypeOK
    <2>3. QED
      BY <2>2, Undisturbed
  <1>2. CASE DiscardPrevious(t, ok)
    <2>1. busy = t /\ prev[t] \notin RefsOf(header)
      BY <1>2 DEF DiscardPrevious, OwnInv, ChangeInv
    <2>2. header' = header /\ \A r \in RefsOf(header) : store'[r] = store[r]
      BY <1>2, <2>1, RefsAreRefs DEF DiscardPrevious, Discard, disk, TypeOK
    <2>3. QED
      BY <2>2, Undisturbed
  <1>3. QED
    BY <1>1, <1>2

\* A new credential is stored under a reference no header has seen.
LEMMA EnrolmentKeeps ==
  ASSUME IInv, NEW t \in Threads, NEW r \in Refs, Draw(t, r), NEW value,
         store' = [store EXCEPT ![r] = value], header' = header
  PROVE  Keeps
  <1>1. \A x \in RefsOf(header) : store'[x] = store[x]
    BY RefsAreRefs DEF IInv, RefInv, Draw, TypeOK
  <1>2. QED
    BY <1>1, Undisturbed DEF IInv

\* Every step that is not a fault keeps the healthy device slot and its credential.
LEMMA StepKeeps == IInv /\ [Next]_vars => Keeps
  <1> SUFFICES ASSUME IInv, [Next]_vars PROVE Keeps
    OBVIOUS
  <1>1. CASE UNCHANGED <<header, store>>
    BY <1>1, Undisturbed DEF IInv
  <1>2. CASE faults' = faults + 1
    BY <1>2, KeyslotAssumption DEF Keeps, IInv, TypeOK
  <1>3. ASSUME NEW t \in Threads, Activate(t) PROVE Keeps
    BY <1>3, ActivateKeeps
  <1>4. ASSUME NEW t \in Threads, NEW ok \in BOOLEAN, Abandon(t, ok) \/ DiscardPrevious(t, ok)
        PROVE Keeps
    BY <1>4, CleanupKeeps
  <1>5. ASSUME NEW t \in Threads, NEW r \in Refs, StoreKey(t, r) PROVE Keeps
    BY <1>5, EnrolmentKeeps DEF StoreKey, disk
  <1>6. ASSUME NEW t \in Threads, NEW r \in Refs,
               NEW left \in {"absent", "key", "unusable"}, StoreFails(t, r, left) PROVE Keeps
    BY <1>6, EnrolmentKeeps DEF StoreFails, disk
  <1>7. CASE Crash \/ PowerLoss
    BY <1>7, <1>2 DEF Crash, PowerLoss, Dies
  <1>8. ASSUME NEW r \in Refs, NEW left \in {"absent", "unusable"}, DamageCredential(r, left)
        PROVE Keeps
    BY <1>8, <1>2 DEF DamageCredential
  <1>9. ASSUME NEW t \in Threads, Create(t) PROVE Keeps
    BY <1>9, <1>1
       DEF Create, CreateBegin, CreateDatabase, CreateSchema, CreateLock, CreateFails, disk
  <1>10. ASSUME NEW t \in Threads, NEW ok \in BOOLEAN, Sync(t, ok) \/ Verify(t, ok) PROVE Keeps
    BY <1>10, <1>1 DEF Sync, Verify, disk
  <1>11. ASSUME NEW t \in Threads, ChangePassphrase(t) PROVE Keeps
    BY <1>11, <1>1 DEF ChangePassphrase, ChangeBegin, ChangeFails, Begin, disk
  <1>12. ASSUME NEW t \in Threads, EnrollBegin(t) \/ Classify(t) \/ EnrollRefused(t) \/ EnrollFails(t)
         PROVE Keeps
    BY <1>12, <1>1 DEF EnrollBegin, Begin, Classify, EnrollRefused, EnrollFails, disk
  <1>13. ASSUME NEW key, Unlock(key) PROVE Keeps
    BY <1>13, <1>1 DEF Unlock, disk
  <1>14. CASE Lock
    BY <1>14, <1>1 DEF Lock, disk
  <1>15. CASE UNCHANGED vars
    BY <1>15, <1>1 DEF vars, disk
  <1> HIDE DEF Keeps, IInv
  <1>16. QED
    BY <1>3, <1>4, <1>5, <1>6, <1>7, <1>8, <1>9, <1>10, <1>11, <1>12, <1>13, <1>14, <1>15
       DEF Next, ReplaceHeader, EnableDevice

\* Neither a refused enrolment, nor an outage of the credential store, nor a
\* passphrase change, nor a cleanup costs the owner a working quick unlock.
THEOREM SpecQuickUnlockKept == Spec => QuickUnlockKept
  <1>1. IInv /\ [Next]_vars =>
          [faults' = faults => \A s \in QuickUnlock(header) : s \in header' /\ store'[s.ref] = "key"]_vars
    BY StepKeeps DEF Keeps
  <1>2. QED
    BY <1>1, Invariance, PTL DEF Spec, QuickUnlockKept

-----------------------------------------------------------------------------
(* The lifecycle implements one authoritative set of slots.                *)

\* A new header founds the vault, or changes one slot of the header in force.
LEMMA ActivateMaps ==
  ASSUME IInv, NEW t \in Threads, Activate(t) PROVE Authority!Next
  <1> USE KeyslotAssumption DEF IInv, Session
  <1>1. /\ header' = envelope[t] /\ Admitted(header') /\ synced' = synced
        /\ envelope[t] \in SUBSET Slots
    BY DEF Activate, disk, TypeOK
  <1>2. pc[t] = "staging" /\ (owner = t \/ busy = t)
    BY DEF Activate, Activates, OwnInv
  <1>3. CASE owner = t
    <2>1. header = {} /\ synced = {} /\ \A s \in envelope[t] : s.kind \in {"passphrase-v1", "recovery-v1"}
      BY <1>2, <1>3 DEF CreateInv
    <2>2. \E s \in envelope[t] : s.kind = "passphrase-v1"
      BY <1>1 DEF Admitted, OfKind
    <2>3. Authority!Found(envelope[t])
      BY <1>1, <2>1, <2>2 DEF Authority!Found
    <2>4. QED
      BY <1>1, <2>3 DEF Authority!Next
  <1>4. CASE busy = t
    <2>1. header # {}
      BY <1>4 DEF OwnInv, BuildInv
    <2>2. PICK s \in Slots : s.kind \in {"passphrase-v1", "device-v1"} /\ header' = Updated(header, s)
      <3>1. CASE ref[t] = None
        BY <1>1, <1>2, <1>4, <3>1, SlotTypes DEF ChangeInv, PassphraseSlot, Wrap
      <3>2. CASE ref[t] # None
        BY <1>1, <1>2, <1>4, <3>2, SlotTypes DEF ChangeInv, DeviceSlot, Wrap, TypeOK
      <3>3. QED
        BY <3>1, <3>2
    <2>3. Authority!Change(s)
      BY <1>1, <2>1, <2>2 DEF Authority!Change, Authority!Updated, Updated
    <2>4. QED
      BY <2>3 DEF Authority!Next
  <1>5. QED
    BY <1>2, <1>3, <1>4

\* Every other step hardens, falls back to the stable slots, or is no step.
LEMMA StepMaps == IInv /\ [Next]_vars => [Authority!Next]_<<header, synced>>
  <1> SUFFICES ASSUME IInv, [Next]_vars PROVE [Authority!Next]_<<header, synced>>
    OBVIOUS
  <1>1. ASSUME NEW t \in Threads, Activate(t) PROVE Authority!Next
    BY <1>1, ActivateMaps
  <1>2. ASSUME NEW t \in Threads, NEW ok \in BOOLEAN, Sync(t, ok)
        PROVE  Authority!Next \/ UNCHANGED <<header, synced>>
    BY <1>2 DEF Sync, Authority!Next, Authority!Harden
  <1>3. CASE PowerLoss
    BY <1>3 DEF PowerLoss, Dies, Authority!Next, Authority!LosePower
  <1>4. ASSUME NEW t \in Threads, Create(t) \/ ChangePassphrase(t) \/ EnableDevice(t)
        PROVE  UNCHANGED <<header, synced>>
    BY <1>4
       DEF Create, CreateBegin, CreateDatabase, CreateSchema, CreateLock, CreateFails,
           ChangePassphrase, ChangeBegin,
         ChangeFails, Begin, EnableDevice, EnrollBegin, Classify, EnrollRefused, EnrollFails,
         StoreKey, StoreFails, Abandon, DiscardPrevious, disk
  <1>5. ASSUME NEW t \in Threads, NEW ok \in BOOLEAN, Verify(t, ok) PROVE UNCHANGED <<header, synced>>
    BY <1>5 DEF Verify, disk
  <1>6. ASSUME NEW key, Unlock(key) PROVE UNCHANGED <<header, synced>>
    BY <1>6 DEF Unlock, disk
  <1>7. CASE Lock \/ Crash \/ UNCHANGED vars
    BY <1>7 DEF Lock, Crash, Dies, vars, disk
  <1>8. ASSUME NEW r \in Refs, NEW left \in {"absent", "unusable"}, DamageCredential(r, left)
        PROVE  UNCHANGED <<header, synced>>
    BY <1>8 DEF DamageCredential, disk
  <1> HIDE DEF IInv
  <1>9. QED
    BY <1>1, <1>2, <1>3, <1>4, <1>5, <1>6, <1>7, <1>8 DEF Next, ReplaceHeader

\* change_passphrase, enable_device and create, with crashes and losses of
\* power, behave as one set of slots in which no update is lost.
THEOREM SpecImplementsAuthority == Spec => ImplementsAuthority
  <1>1. Init => Authority!Init
    BY DEF Init, Authority!Init
  <1>2. IInv /\ [Next]_vars => [Authority!Next]_<<header, synced>>
    BY StepMaps
  <1>3. QED
    BY <1>1, <1>2, Invariance, PTL DEF Spec, ImplementsAuthority, Authority!Spec

-----------------------------------------------------------------------------
(* The lifecycle uses the vault only under the session's exclusion.        *)

\* Seen by the session, a call begins and ends inside an unlocked vault, and the
\* vault is neither locked nor given to a creator in between.
LEMMA StepExcludes ==
  IInv /\ [Next]_vars => [Exclusive!Next \/ Exclusive!Die]_<<owner = Session, busy>>
  <1> SUFFICES ASSUME IInv, [Next]_vars
               PROVE  [Exclusive!Next \/ Exclusive!Die]_<<owner = Session, busy>>
    OBVIOUS
  <1> DEFINE Seen == [Exclusive!Next \/ Exclusive!Die]_<<owner = Session, busy>>
  <1>1. /\ busy # Nobody => owner = Session
        /\ \A t \in Threads : t # Session /\ t # Nobody
    BY KeyslotAssumption DEF IInv, TypeOK, OwnInv, Session
  <1>2. ASSUME UNCHANGED <<owner = Session, busy>> PROVE Seen
    BY <1>2
  <1>3. ASSUME UNCHANGED owners PROVE Seen
    BY <1>3 DEF owners
  <1>4. ASSUME NEW t \in Threads, Begin(t) PROVE Seen
    BY <1>4 DEF Begin, MayEnter, Exclusive!Next, Exclusive!Begin
  <1>5. ASSUME NEW t \in Threads, Return(t) PROVE Seen
    <2>1. CASE busy = t
      <3>1. owner = Session /\ owner' = Session /\ busy # Nobody /\ busy' = Nobody
        BY <1>1, <1>5, <2>1 DEF Return
      <3>2. QED
        BY <3>1 DEF Exclusive!Next, Exclusive!End
    <2>2. CASE busy # t
      <3>1. UNCHANGED busy /\ (owner' = Session <=> owner = Session)
        BY <1>5, <2>2, KeyslotAssumption DEF Return, Session
      <3>2. QED
        BY <1>2, <3>1
    <2>3. QED
      BY <2>1, <2>2
  <1>6. ASSUME NEW key, Unlock(key) PROVE Seen
    BY <1>1, <1>6 DEF Unlock, Exclusive!Next, Exclusive!Unlock
  <1>7. ASSUME Lock PROVE Seen
    BY <1>7, KeyslotAssumption DEF Lock, MayLock, Exclusive!Next, Exclusive!Lock, Session
  <1>8. ASSUME Crash \/ PowerLoss PROVE Seen
    BY <1>8, KeyslotAssumption DEF Crash, PowerLoss, Dies, Exclusive!Die, Session
  <1>9. ASSUME NEW t \in Threads, NEW p \in Passphrases, NEW generate \in BOOLEAN, CreateBegin(t, p, generate)
        PROVE  Seen
    BY <1>1, <1>2, <1>9 DEF CreateBegin, IInv, BuildInv
  <1> HIDE DEF Seen
  <1>10. ASSUME NEW t \in Threads, Create(t) PROVE Seen
    BY <1>3, <1>5, <1>9, <1>10 DEF Create, CreateDatabase, CreateSchema, CreateLock, CreateFails
  <1>11. ASSUME NEW t \in Threads, NEW ok \in BOOLEAN, Sync(t, ok) PROVE Seen
    <2>1. CASE Creating(t) /\ owner' = Nobody /\ UNCHANGED busy
      <3>1. owner # Session /\ owner' # Session
        BY <1>1, <2>1, KeyslotAssumption DEF Creating, Session
      <3>2. QED
        BY <1>2, <2>1, <3>1
    <2>2. QED
      BY <1>3, <1>5, <1>11, <2>1 DEF Sync, owners
  <1>12. ASSUME NEW t \in Threads, Activate(t) \/ (\E ok \in BOOLEAN : Verify(t, ok)) PROVE Seen
    BY <1>3, <1>5, <1>12 DEF Activate, Verify
  <1>13. ASSUME NEW t \in Threads, ChangePassphrase(t) PROVE Seen
    BY <1>4, <1>5, <1>13 DEF ChangePassphrase, ChangeBegin, ChangeFails
  <1>14. ASSUME NEW t \in Threads, EnableDevice(t) PROVE Seen
    BY <1>3, <1>4, <1>5, <1>14
       DEF EnableDevice, EnrollBegin, Classify, EnrollRefused, EnrollFails, StoreKey, StoreFails,
           Abandon, DiscardPrevious
  <1>15. ASSUME NEW r \in Refs, NEW left \in {"absent", "unusable"}, DamageCredential(r, left) PROVE Seen
    BY <1>3, <1>15 DEF DamageCredential
  <1>16. ASSUME UNCHANGED vars PROVE Seen
    BY <1>3, <1>16 DEF vars, owners
  <1>17. Seen
    BY <1>6, <1>7, <1>8, <1>10, <1>11, <1>12, <1>13, <1>14, <1>15, <1>16 DEF Next, ReplaceHeader
  <1>18. QED
    BY <1>17 DEF Seen

\* Every keyslot call keeps to the contract of with_open and lock, also when the
\* process dies in it.
THEOREM SpecReliesOnExclusiveVault == Spec => ReliesOnExclusiveVault
  <1>1. Init => Exclusive!Init
    BY KeyslotAssumption DEF Init, Exclusive!Init, Session
  <1>2. QED
    BY <1>1, StepExcludes, Invariance, PTL
       DEF Spec, ReliesOnExclusiveVault, Exclusive!MortalSpec, Exclusive!vars
=============================================================================
