-------------------------- MODULE KeyslotLifecycle --------------------------
(***************************************************************************)
(* Creation, unlock and the keyslot changes of a production vault          *)
(* (crates/dvm-storage/src/security.rs) with the header admission of       *)
(* header.rs and the envelopes of dvm-crypto/src/keyslots.rs.              *)
(*                                                                         *)
(* A header is the set of its keyslots.  All slots wrap the one root the   *)
(* vault was created with, so a slot is known by what unwraps it: a        *)
(* passphrase, the recovery secret, or the device key stored under its     *)
(* fresh credential reference.  AEAD and KDF are ideal.  The file sync     *)
(* that follows the rename makes the new header survive a loss of power.   *)
(* Threads change keyslots inside VaultSession::with_open, which gives     *)
(* them the exclusion `busy`.  Calls that fail before they change anything *)
(* (wrong passphrase, wrong state) are stutters and left out.              *)
(***************************************************************************)
EXTENDS Naturals

CONSTANTS
  Threads, Nobody,
  Passphrases, Recovery,   \* the secrets of the owner
  Refs, None,              \* credential references drawn at random, once each
  MaxFaults                \* bound: crashes, power losses and damaged credentials

ASSUME KeyslotAssumption ==
  /\ Nobody \notin Threads /\ "session" \notin Threads \cup {Nobody}
  /\ None \notin Refs /\ MaxFaults \in Nat

VARIABLES
  \* the vault directory
  stage,      \* none; made: directories, owner.lock and fixture header; empty: a keyed
              \* database; bare: its schema; ready: local-state/keyslots.lock exists
  header,     \* slots of vault.header; empty is the injected-key bootstrap
  synced,     \* the header a loss of power leaves behind
  store,      \* the OS credential store, by reference
  \* ownership
  owner,      \* who holds the vault: a creating thread, the session, or Nobody
  busy,       \* the thread inside with_open
  \* calls
  pc,
  envelope,   \* the header the call read or built
  ref, prev,  \* the reference it enrols, the one it replaces
  used,       \* references drawn so far
  \* history
  promised,   \* headers the outcomes told so far allow
  leaks,      \* references whose cleanup failed or never ran, as told
  secret,     \* recovery secret: none, made, delivered, or lost in a crash
  faults

disk == <<stage, header, synced>>
owners == <<owner, busy>>
calls == <<pc, envelope, ref, prev, used>>
history == <<promised, leaks, secret, faults>>
vars == <<disk, store, owners, calls, history>>

Session == "session"
Kinds == {"passphrase-v1", "recovery-v1", "device-v1"}
Slots == [kind : {"passphrase-v1"}, key : Passphrases, ref : {None}]
         \cup [kind : {"recovery-v1"}, key : {Recovery}, ref : {None}]
         \cup UNION {[kind : {"device-v1"}, key : {r}, ref : {r}] : r \in Refs}

PcStates == {"idle", "preparing", "bootstrapped", "staging", "syncing", "verifying",
             "classifying", "storing", "abandoning", "discarding"}

\* Every slot is well formed: a device slot and only it carries a canonical reference.
TypeOK ==
  /\ stage \in {"none", "made", "empty", "bare", "ready"}
  /\ header \subseteq Slots /\ synced \subseteq Slots
  /\ store \in [Refs -> {"absent", "key", "unusable"}]
  /\ owner \in Threads \cup {Session, Nobody}
  /\ busy \in Threads \cup {Nobody}
  /\ pc \in [Threads -> PcStates]
  /\ envelope \in [Threads -> SUBSET Slots]
  /\ ref \in [Threads -> Refs \cup {None}] /\ prev \in [Threads -> Refs \cup {None}]
  /\ used \subseteq Refs
  /\ promised \subseteq SUBSET Slots /\ leaks \subseteq Refs
  /\ secret \in {"none", "made", "delivered", "lost"}
  /\ faults \in 0..MaxFaults

-----------------------------------------------------------------------------
(* Envelopes and header admission                                          *)

\* envelope and wrap: the root sealed under a key, with the slot's metadata authenticated.
Wrap(kind, key, reference) == [kind |-> kind, key |-> key, ref |-> reference]
PassphraseSlot(p) == Wrap("passphrase-v1", p, None)
RecoverySlot == Wrap("recovery-v1", Recovery, None)
Unbound(r) == Wrap("device-v1", r, None)  \* mutant: reference left empty
DeviceSlot(r) == Wrap("device-v1", r, r)

ValidSlot(s) == s.kind \in Kinds /\ (s.kind = "device-v1" <=> s.ref # None)
OfKind(h, kind) == {s \in h : s.kind = kind}

\* validate_production: one passphrase slot, at most one of every kind.
Admitted(h) ==
  /\ \A s \in h : ValidSlot(s)
  /\ OfKind(h, "passphrase-v1") # {}
  /\ \A s, t \in h : s.kind = t.kind => s = t

Updated(h, s) == {x \in h : x.kind # s.kind} \cup {s}
RefsOf(h) == {s.ref : s \in OfKind(h, "device-v1")}

\* device_health: the stored value authenticates the slot and unwraps the root.
Healthy(s) == store[s.ref] = "key"
QuickUnlock(h) == {s \in OfKind(h, "device-v1") : Healthy(s)}

-----------------------------------------------------------------------------
(* Decisions of the code; those marked "mutant" are slips the properties   *)
(* must detect and are not used.                                           *)

AlwaysEnters == TRUE                          \* mutant: keyslot calls outside the session
MayEnter == owner = Session /\ busy = Nobody

LockCutsIn == owner = Session                 \* mutant: lock does not await the operation
MayLock == owner = Session /\ busy = Nobody

OutageIsUnusable(s) == TRUE                   \* mutant: a failed retrieve classifies
Unusable(s) == ~Healthy(s)

NotTold(r, ok) == leaks                       \* mutant: a failed cleanup told as completed
Leaked(r, ok) == IF ok THEN leaks ELSE leaks \cup {r}

NotReported(ok, h) == IF ok THEN {h} ELSE promised   \* mutant: sync failure told as NotActivated
Told(ok, h) == IF ok THEN {h} ELSE promised \cup {h}

LockedLater(t) == pc[t] \in {"bootstrapped", "staging"} \* mutant: lock file made after activation
Activates(t) == pc[t] = "staging"

Withheld(ok) == IF ok THEN "delivered" ELSE "made"     \* mutant: re-read failure returns an error
AfterReread(ok) == "delivered"

-----------------------------------------------------------------------------
Init ==
  /\ stage = "none" /\ header = {} /\ synced = {}
  /\ store = [r \in Refs |-> "absent"]
  /\ owner = Nobody /\ busy = Nobody
  /\ pc = [t \in Threads |-> "idle"]
  /\ envelope = [t \in Threads |-> {}]
  /\ ref = [t \in Threads |-> None] /\ prev = [t \in Threads |-> None]
  /\ used = {}
  /\ promised = {{}} /\ leaks = {} /\ secret = "none" /\ faults = 0

Goto(t, where) == pc' = [pc EXCEPT ![t] = where]
Creating(t) == owner = t

\* The call returns: its locals and what it held are gone.
Return(t) ==
  /\ Goto(t, "idle")
  /\ envelope' = [envelope EXCEPT ![t] = {}]
  /\ ref' = [ref EXCEPT ![t] = None] /\ prev' = [prev EXCEPT ![t] = None]
  /\ busy' = IF busy = t THEN Nobody ELSE busy
  /\ owner' = IF owner = t THEN Nobody ELSE owner
  /\ UNCHANGED used

-----------------------------------------------------------------------------
(* create_with_policy                                                      *)

\* The slots are wrapped first; then Vault::create_with_injected_key refuses an
\* existing root and makes the directories, owner.lock and the fixture header.
CreateBegin(t, p, generate) ==
  /\ pc[t] = "idle" /\ stage = "none"
  /\ stage' = "made"
  /\ owner' = t
  /\ Goto(t, "preparing")
  /\ envelope' = [envelope EXCEPT ![t] =
                    {PassphraseSlot(p)} \cup (IF generate THEN {RecoverySlot} ELSE {})]
  /\ secret' = IF generate THEN "made" ELSE secret
  /\ UNCHANGED <<header, synced, store, busy, ref, prev, used, promised, leaks, faults>>

\* database::open with create: the keyed connection, the checks of the cipher and WAL.
CreateDatabase(t) ==
  /\ pc[t] = "preparing" /\ stage = "made"
  /\ stage' = "empty"
  /\ UNCHANGED <<header, synced, store, owners, calls, history>>

\* The schema, its migration record and user_version commit in one transaction.
CreateSchema(t) ==
  /\ pc[t] = "preparing" /\ stage = "empty"
  /\ stage' = "bare"
  /\ Goto(t, "bootstrapped")
  /\ UNCHANGED <<header, synced, store, owners, envelope, ref, prev, used, history>>

CreateLock(t) ==
  /\ pc[t] = "bootstrapped"
  /\ stage' = "ready"
  /\ Goto(t, "staging")
  /\ UNCHANGED <<header, synced, store, owners, envelope, ref, prev, used, history>>

\* Any error up to the rename: the directory stays, and is no vault.
CreateFails(t) ==
  /\ Creating(t) /\ pc[t] \in {"preparing", "bootstrapped", "staging"}
  /\ Return(t)
  /\ secret' = "none"
  /\ UNCHANGED <<disk, store, promised, leaks, faults>>

-----------------------------------------------------------------------------
(* replace_header                                                          *)

\* Serialise, write and sync the temporary file, rename it: the activation point.
Activate(t) ==
  /\ Activates(t) /\ Admitted(envelope[t])
  /\ header' = envelope[t]
  /\ Goto(t, "syncing")
  /\ UNCHANGED <<stage, synced, store, owners, envelope, ref, prev, used, history>>

\* Sync the activated header; the outcome of the call is fixed here.
Sync(t, ok) ==
  /\ pc[t] = "syncing"
  /\ synced' = IF ok THEN header ELSE synced
  /\ promised' = Told(ok, envelope[t])
  /\ \/ /\ Creating(t) /\ owner' = Nobody
        /\ Goto(t, "verifying") /\ UNCHANGED <<busy, envelope, ref, prev, used>>
     \/ /\ prev[t] # None
        /\ Goto(t, "discarding") /\ UNCHANGED <<owners, envelope, ref, prev, used>>
     \/ ~Creating(t) /\ prev[t] = None /\ Return(t)
  /\ UNCHANGED <<stage, header, store, leaks, secret, faults>>

\* Creation has dropped the vault and re-reads the header; a failure only degrades.
Verify(t, ok) ==
  /\ pc[t] = "verifying"
  /\ secret' = IF secret = "made" THEN AfterReread(ok) ELSE secret
  /\ Return(t)
  /\ UNCHANGED <<disk, store, promised, leaks, faults>>

-----------------------------------------------------------------------------
(* change_passphrase and enable_device                                     *)

Begin(t) ==
  /\ pc[t] = "idle" /\ MayEnter /\ Admitted(header)
  /\ busy' = t
  /\ UNCHANGED <<disk, store, owner, ref, prev, used, history>>

\* The old passphrase authenticated; only its slot is wrapped anew.
ChangeBegin(t, p) ==
  /\ Begin(t)
  /\ envelope' = [envelope EXCEPT ![t] = Updated(header, PassphraseSlot(p))]
  /\ Goto(t, "staging")

ChangeFails(t) ==
  /\ pc[t] = "staging" /\ ~Creating(t) /\ ref[t] = None
  /\ Return(t)
  /\ UNCHANGED <<disk, store, history>>

EnrollBegin(t) ==
  /\ Begin(t)
  /\ envelope' = [envelope EXCEPT ![t] = header]
  /\ Goto(t, "classifying")

\* No device slot, or one whose credential cannot unwrap the root.
Classify(t) ==
  /\ pc[t] = "classifying"
  /\ \/ OfKind(envelope[t], "device-v1") = {} /\ UNCHANGED prev
     \/ \E s \in OfKind(envelope[t], "device-v1") :
          Unusable(s) /\ prev' = [prev EXCEPT ![t] = s.ref]
  /\ Goto(t, "storing")
  /\ UNCHANGED <<disk, store, owners, envelope, ref, used, history>>

\* A healthy slot, or an outage of the credential store.
EnrollRefused(t) ==
  /\ pc[t] = "classifying" /\ OfKind(envelope[t], "device-v1") # {}
  /\ Return(t)
  /\ UNCHANGED <<disk, store, history>>

Draw(t, r) ==
  /\ pc[t] = "storing" /\ r \notin used
  /\ used' = used \cup {r}
  /\ ref' = [ref EXCEPT ![t] = r]

StoreKey(t, r) ==
  /\ Draw(t, r)
  /\ store' = [store EXCEPT ![r] = "key"]
  /\ envelope' = [envelope EXCEPT ![t] = Updated(envelope[t], DeviceSlot(r))]
  /\ Goto(t, "staging")
  /\ UNCHANGED <<disk, owners, prev, history>>

\* store() failed; its own compensation may have left the entry behind.
StoreFails(t, r, left) ==
  /\ Draw(t, r)
  /\ store' = [store EXCEPT ![r] = left]
  /\ Goto(t, "abandoning")
  /\ UNCHANGED <<disk, owners, envelope, prev, history>>

EnrollFails(t) ==
  /\ pc[t] = "staging" /\ ref[t] # None
  /\ Goto(t, "abandoning")
  /\ UNCHANGED <<disk, store, owners, envelope, ref, prev, used, history>>

Discard(r, ok) ==
  /\ store' = IF ok THEN [store EXCEPT ![r] = "absent"] ELSE store
  /\ leaks' = Leaked(r, ok)

\* Not activated: the new credential goes, unless its removal fails and is told.
Abandon(t, ok) ==
  /\ pc[t] = "abandoning"
  /\ Discard(ref[t], ok)
  /\ Return(t)
  /\ UNCHANGED <<disk, promised, secret, faults>>

\* Activated: the predecessor's credential goes, unless its removal fails and is told.
DiscardPrevious(t, ok) ==
  /\ pc[t] = "discarding"
  /\ Discard(prev[t], ok)
  /\ Return(t)
  /\ UNCHANGED <<disk, promised, secret, faults>>

-----------------------------------------------------------------------------
(* unlock and lock                                                         *)

\* The header and the keyslots.lock exist, nobody owns the vault, and the slot
\* of the credential's kind unwraps: by the secret, or by the stored device key.
Opens(key) == \E s \in header : s.key = key /\ (s.kind = "device-v1" => Healthy(s))

Unlock(key) ==
  /\ owner = Nobody /\ stage = "ready" /\ Admitted(header) /\ Opens(key)
  /\ owner' = Session
  /\ UNCHANGED <<disk, store, busy, calls, history>>

Lock ==
  /\ MayLock
  /\ owner' = Nobody
  /\ UNCHANGED <<disk, store, busy, calls, history>>

-----------------------------------------------------------------------------
(* Environment                                                             *)

\* Every call ends where it is, without an outcome.
Dies ==
  /\ owner' = Nobody /\ busy' = Nobody
  /\ pc' = [t \in Threads |-> "idle"] /\ envelope' = [t \in Threads |-> {}]
  /\ ref' = [t \in Threads |-> None] /\ prev' = [t \in Threads |-> None]
  /\ promised' = promised \cup {envelope[t] : t \in {u \in Threads : pc[u] = "syncing"}}
  /\ secret' = IF secret = "made" THEN "lost" ELSE secret
  /\ faults < MaxFaults /\ faults' = faults + 1
  /\ UNCHANGED <<stage, synced, store, used>>

InFlight == ({ref[t] : t \in Threads} \cup {prev[t] : t \in Threads}) \ {None}

Crash ==
  /\ Dies
  /\ leaks' = leaks \cup InFlight
  /\ UNCHANGED header

PowerLoss ==
  /\ Dies
  /\ leaks' = leaks \cup InFlight \cup RefsOf(header)
  /\ header' = synced

\* Another program or the user removes or overwrites a credential.
DamageCredential(r, left) ==
  /\ store[r] = "key" /\ faults < MaxFaults
  /\ store' = [store EXCEPT ![r] = left]
  /\ faults' = faults + 1
  /\ UNCHANGED <<disk, owners, calls, promised, leaks, secret>>

Create(t) ==
  \/ \E p \in Passphrases, generate \in BOOLEAN : CreateBegin(t, p, generate)
  \/ CreateDatabase(t) \/ CreateSchema(t) \/ CreateLock(t) \/ CreateFails(t)
ReplaceHeader(t) == Activate(t) \/ (\E ok \in BOOLEAN : Sync(t, ok) \/ Verify(t, ok))
ChangePassphrase(t) == (\E p \in Passphrases : ChangeBegin(t, p)) \/ ChangeFails(t)
EnableDevice(t) ==
  \/ EnrollBegin(t) \/ Classify(t) \/ EnrollRefused(t) \/ EnrollFails(t)
  \/ \E r \in Refs : StoreKey(t, r) \/ (\E left \in {"absent", "key", "unusable"} : StoreFails(t, r, left))
  \/ \E ok \in BOOLEAN : Abandon(t, ok) \/ DiscardPrevious(t, ok)

Next ==
  \/ \E t \in Threads : Create(t) \/ ReplaceHeader(t) \/ ChangePassphrase(t) \/ EnableDevice(t)
  \/ \E key \in Passphrases \cup {Recovery} \cup Refs : Unlock(key)
  \/ Lock \/ Crash \/ PowerLoss
  \/ \E r \in Refs : \E left \in {"absent", "unusable"} : DamageCredential(r, left)

Spec == Init /\ [][Next]_vars

-----------------------------------------------------------------------------
(* Properties                                                              *)

\* What the caller was told about the last change is what the disk holds, also
\* after a loss of power: Durable means the new keyslots, NotActivated the old
\* ones, Uncertain either; never "failed" for credentials already in force.
OutcomeTruthful ==
  /\ header \in promised \cup {envelope[t] : t \in {u \in Threads : pc[u] = "syncing"}}
  /\ synced \in promised

\* The program never breaks a working quick unlock: no outage, refusal, cleanup or
\* passphrase change replaces a healthy device slot or removes its credential.
QuickUnlockKept ==
  [][faults' = faults => \A s \in QuickUnlock(header) : s \in header' /\ store'[s.ref] = "key"]_vars

\* When no call is in flight, a credential the header does not reference is one
\* whose cleanup was reported as failed, or was cut off by a crash.
CleanupTruthful ==
  (\A t \in Threads : pc[t] = "idle") =>
    \A r \in Refs : store[r] # "absent" => r \in RefsOf(header) \cup leaks

\* A header with keyslots is in force only in a vault that is completely built:
\* whoever knows its passphrase can open it.
ActivatedIsComplete == header # {} => stage = "ready" /\ Admitted(header)

\* A generated recovery secret is in the owner's hands as soon as its slot is in
\* force and the creating call is over, unless the process died in that call.
RecoveryDelivered ==
  RecoverySlot \in header =>
    \/ secret \in {"delivered", "lost"}
    \/ \E t \in Threads : pc[t] \in {"syncing", "verifying"} /\ RecoverySlot \in envelope[t]

\* The files, threads and faults implement one authoritative set of slots that
\* changes a slot at a time; in particular no update is lost.
Authority == INSTANCE KeyslotAuthority WITH auth <- header, stable <- synced
ImplementsAuthority == Authority!Spec

\* What it takes for granted about with_open and lock, which VaultSession provides.
Exclusive == INSTANCE ExclusiveVault WITH unlocked <- owner = Session, user <- busy
ReliesOnExclusiveVault == Exclusive!MortalSpec
=============================================================================
