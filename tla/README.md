# Verification of the Digital Vault of Memories

TLA+ models of the storage and job pipeline of this repository, TLC
configurations that check them on small instances, and TLAPS proofs of the main
results for every value of the constants. The modules follow the Rust code
under `crates/`; where a document says something else, the code is modelled and
the difference is listed under *Findings*. `PROJECT.json` maps each definition
to its source lines.

## 1. The system

A desktop application keeps files ("memories") in an encrypted local vault: a
directory with `vault.header` (keyslots), `metadata.db` (SQLCipher), `blobs/`
(sealed originals), `tmp/` (imports in progress), `quarantine/` and
`local-state/owner.lock`. This release has the storage core, the keyslot
lifecycle and one status command. No user interface reaches the vault yet; the
port traits and the tests are its callers.

| component | state | operations | hard behaviour | what makes it correct |
|---|---|---|---|---|
| **Canonical store** (`dvm-storage/vault.rs`) | blob files, rows, item links, startup verdict, sticky latch, database mutex | `stage_import`, `commit_import`, `recover`, `verify_canonical`, open + `reconcile`, drop | concurrent imports, death between file and database steps, damage found by another caller, staged values that outlive the instance | an acknowledged import is never lost or duplicated; intact data is never condemned; no write after a discovery; startup leaves a known state |
| **Durable jobs** (`jobs.rs`, `run_one_job`) | `jobs` table, leases held by callers | enqueue, claim, complete, fail, cancel, startup lease recovery | expired, stale and replayed leases; restarts; limits; the verdict of the vault | one owner at a time; finished stays finished; no ACK without a look at the original; nothing stranded or starved |
| **Session** (`dvm-application/session.rs`) | state, backend, live vault, mutex | `attach`, `unlock`, `with_open`, `lock`, `state` | racing unlock / lock / operations, panics that poison the mutex, a vault that degrades under an operation | operations only while open and healthy; one live vault; nothing live after `lock` |
| **Keyslot lifecycle** (`dvm-storage/security.rs`) | `vault.header`, credentials of the OS store | create, unlock (passphrase, recovery, device), `change_passphrase`, `enable_device` | rename as activation point, failures and deaths around it, order of credential store / activate / discard, concurrent whole-file updates | reported outcome = what the disk holds; a working quick unlock and the recovery secret are never lost; no update is lost; nothing is in force in a half-made vault |
| **Header** (`header.rs`) | none (pure) | serialize, parse, validate | what one operation writes another must accept | every written header is admitted, production needs a passphrase slot |
| **Credential adapter**, **provider secrets** (`credentials.rs`, `provider_secrets.rs`) | OS credential entries | store with verification and compensation, classify, delete | failure between write and verification, outage against absence | a failed store leaves no unverified secret; an outage is never "missing" |
| **DVB1** (`dvm-crypto/dvb1.rs`) | stream position, sink | encrypt, decrypt | truncated, repeated, reordered frames; sources that grow; sink and disk failures | only the whole original is committed; every failure aborts; the reader calls only damage corruption |
| **Database bootstrap** (`database.rs`, `create_*`) | schema, cipher settings | create, open, integrity | death during creation | a half-made vault is refused |
| **Foundation IPC and hook** (`dvm-application/lib.rs`, `dvm-observability`, `apps/desktop`) | hook state, diagnostics sink | `foundation_status`, mount, rerun, unmount, answer | late, lost and malformed answers; a failing sink | the newest answer shows, and nothing the backend did not say |
| Keys, error and contract types, reserved crates | – | – | – | not modelled, see section 8 |

Interactions. `Vault` owns one `Mutex<Connection>`: `commit_import`, `recover`
and every job call hold it from admission to return, while `stage_import` runs
without it. `commit_import` enqueues the verification job of the item in its own
transaction; `complete_job` authenticates the same original and may latch the
same repair state. `reconcile` runs before `open` hands out the vault and also
frees expired job leases. `OpenVault` (keyslots) owns a `Vault` and the master
key; `VaultSession` owns the `OpenVault` and admits one operation at a time, which
is also what keeps two keyslot changes apart. Enrolment keeps its device key in
the OS credential store, which provider secrets share. Every blob goes through
DVB1, whose verdict decides what the canonical store calls intact. The hazards of each part, at their lines, are in
`PROJECT.json`.

Two of these interactions are contracts, specifications of their own that one part
provides and another relies on. `VaultGate` says when a vault admits writes: the
store provides it, the job queue lives behind it. `ExclusiveVault` says that one
vault is unlocked at a time and one thread at a time uses it: the session
provides it, the keyslot changes rely on it.

## 2. Modules

| module | role |
|---|---|
| `VaultStorage` | the canonical store: staging, commit, recovery, latch, startup, death, damage |
| `ImportLedger` | what that store promises, as a specification of its own; `VaultStorage` refines it |
| `VaultStorage_proofs` | inductive invariant, safety theorems and refinement, for any instance |
| `VaultGate` | when a vault admits writes; `VaultStorage` provides it, `DurableJobs` relies on it |
| `DurableJobs` | the verification queue, its callers' leases, the vault around it |
| `VerificationQueue` | what that queue promises, without leases, clocks and replays; `DurableJobs` refines it |
| `DurableJobs_proofs` | inductive invariant, refinement and what follows from it, for any instance |
| `VaultSession`, `VaultSession_proofs` | one shared vault behind the transition mutex, with panics; its invariant and theorems |
| `ExclusiveVault` | the exclusion around an unlocked vault; `VaultSession` provides it, `KeyslotLifecycle` relies on it |
| `KeyslotLifecycle` | creation step by step, unlock, passphrase change and enrolment over files and credential store, with failures, deaths and losses of power |
| `KeyslotAuthority` | what the lifecycle promises: one authoritative set of slots; `KeyslotLifecycle` refines it |
| `KeyslotLifecycle_proofs` | inductive invariant, safety theorems and refinement, for any instance |
| `CredentialAdapter`, `CredentialAdapter_proofs` | the credential entry, native call by native call, and provider secrets; its theorems |
| `Dvb1Stream`, `Dvb1Stream_proofs` | the framing loops of `encrypt` and `decrypt` and the sink; theorems for any length |
| `FoundationIpc`, `FoundationIpc_proofs` | the status command from hook to sink and back; its theorems |
| `MC...` | instances for TLC |

Definitions marked `mutant` stand beside the decision they distort. No
specification uses them: each is a plausible slip of the code (a dropped guard,
a missing check, an off-by-one) that one of the properties has to detect when
it replaces the real decision.

### VaultStorage

An import attempt draws a fresh random blob id, so `Blobs` is the set of
attempts, of candidate files and of the items they create. A digest is the
content it was computed from (no SHA-256 collisions).

- `place`, `body`: directory and state of the file of each id. `Partial` is a
  file still being written, `Damaged` one that DVB1 refuses.
- `row`, `item`, `corrupted`: `blobs.sha256_hex`, `item_blobs.blob_id`, and the
  items with status `CORRUPTED`.
- `phase`, `todo`, `health`, `latch`, `lock`: the live `Vault` value; closed, one
  of the three loops of `reconcile`, or open.
- `pc`, `want`: how far each call has come and its `StagedImport`.
- `acked`, `hurt`, `atOpen`, `since`, `mine`: history. No guard reads them, except that
  `Damage` counts `hurt` against its bound.

| actions | code |
|---|---|
| `StageBegin/Seal/Verify/Fails` | `stage_import`: admission hint, `.part` created, encrypted and synced, decrypted again; any `?` |
| `CommitBegin` | `writable_db`, decryption of the candidate, `SELECT` by digest |
| `CommitDedup` | `verify_canonical` of the existing original: on to the removal, or the latch |
| `CommitRemove` | `remove_file` of the duplicate |
| `CommitActivate` | rename into `blobs/`, sync |
| `CommitLink`, `CommitReturn`, `CommitFails` | the transaction; the receipt; any `?` in between |
| `Recover`, `JobVerifies` | integrity failures found by `recover` and by `complete_job` |
| `Open`, `CheckRow`, `QuarantineOrphan`, `QuarantineStaging`, `NextLoop`, `OpenFails` | open and the loops of `reconcile`, one file at a time |
| `Close`, `Crash`, `Damage` | drop of the value; death at any step; the environment |

A step boundary is wherever a death, another thread or the environment can come
in: between two file operations or transactions. A read whose answer a later step
acts on ends a step too (`CommitDedup`); other successful reads have no action.

### DurableJobs

Jobs are numbered in queue order. `leaseLeft` and `waitLeft` are the ticks until
`lease_until` and `available_at`, negative once they are past; `Tick` lets one pass.
The `now` of a call is an argument, read before the caller waits for the mutex:
`claim_job`, `complete_job`, `fail_job` and the opening judge and set deadlines as of
up to `MaxWait` ticks ago, each call its own `w`. `leases` holds the `JobLease` values
handed out: a caller may present one at any time, again, or after a reopening. The
lease of `run_one_job` (`byService`) is on its stack, and it completes with the time it
read *before* claiming, so for it a deadline never passes. `owed` is history: the time
left of a lease its holder has not given up. Several jobs of one original are treated
as having originals of their own; `damaged` says which are bad.

| actions | code |
|---|---|
| `Enqueue`, `Claim`, `Cancel` | the insert within `commit_import`; `claim_job`; `cancel_pending_job` |
| `Complete` | `complete_job` up to its transaction: admission, `validate_lease`, `verify_canonical`; a replay, the latch, or on under the guard (`holding`) |
| `Acknowledge`, `AcknowledgeFails` | its transaction, or its failure |
| `Fail` | `fail_job`: the DONE check, retry with backoff or the end |
| `ServiceGivesUp` | `run_one_job` returns an error |
| `Reopen` | the verdict of an opening and the lease recovery of `reconcile` |
| `Discover`, `Close`, `Crash`, `Damage`, `Tick` | damage found by another call; drop; death; the environment; the clock |

While `holding` is not empty no other call gets the mutex, but damage, ticks and death
still come.

### VaultSession

`inner` is the struct behind the mutex; `pc` says which call a thread waits to
make, or where it is inside. A handle is the `Active` value of one successful
backend unlock, `live` those not yet dropped. The transitional states UNLOCKING
and LOCKING are separate steps because a panic may leave them behind. `Panic` may
come while the backend unlocks, its handle is installed or the operation runs.
`FailClosed` is `guard()` on a poisoned mutex: it drops what is active, leaves the
session locked and answers an error. `Damage` changes what `health()` will say.

### KeyslotLifecycle

All slots wrap the one root of the vault, so a slot is known by what opens it: a
passphrase, the recovery secret, or the device key under its credential
reference. `header` is `vault.header`, `synced` what of it a loss of power leaves.

| actions | code |
|---|---|
| `CreateBegin`, `CreateDatabase`, `CreateSchema`, `CreateLock`, `CreateFails` | `create_with_policy` up to activation: slots wrapped, `create_with_injected_key` (directories, owner.lock, fixture header), `database::open` with create (keyed file, then the schema transaction), `keyslots.lock`; any `?` |
| `Activate`, `Sync`, `Verify` | `replace_header`: temporary file and rename; sync; the re-read of creation |
| `ChangeBegin`, `ChangeFails` | `change_passphrase` |
| `EnrollBegin`, `Classify`, `EnrollRefused`, `StoreKey`, `StoreFails`, `EnrollFails`, `Abandon`, `DiscardPrevious` | `enable_device`: health of the present slot, fresh reference, store, activation, cleanup of the new or the replaced credential |
| `Unlock`, `Lock` | `ProtectedVault::unlock` by each kind of slot; the session's lock |
| `Crash`, `PowerLoss`, `DamageCredential` | death of the process; loss of what was not synced; another program |

`busy` is the thread inside `VaultSession::with_open`. That two keyslot changes never
overlap, and that no lock comes in between, is the contract `ExclusiveVault`: proved
to hold in `VaultSession` (`ImplementsExclusiveVault`), and to be all that is used here
(`ReliesOnExclusiveVault`, with deaths of the process). `promised` collects the headers the outcomes told so far allow:
Durable leaves one, Uncertain adds one, NotActivated adds none.

### CredentialAdapter, Dvb1Stream, FoundationIpc

`CredentialAdapter` follows one reference. Each native call is a step, so another
program may change the entry between `get_secret` and the query of its class, or
between the write and its verification. `seen` remembers what the entry was
during a call, and `author` who wrote it last.

`Dvb1Stream` seals a source that yields more or less than its declared size, then
decrypts a file in which every read may return any header or frame, the end, or
an I/O error. The caller's sink may fail at each call, with BLOB_AUTH_FAILED or another
code, which `decrypt` passes on as it is; `rejected` remembers that. A frame's plaintext is the blob and place it was sealed at; the
ideal AEAD opens it only under its own counter.

`FoundationIpc` keeps one record per run of the hook's effect. `StrictMode`, a new
port and a remount start further runs; answers arrive in any order, are lost, or
come from a backend of another contract. `Panel` is what the component renders.

## 3. Properties

**VaultStorage**

- `RecoverableOriginal` – an import whose receipt was returned keeps its item,
  its row and its sealed original, unless the environment damaged that file.
- `UniqueOriginal` – one canonical original per content. The UNIQUE index is
  deliberately not a guard of the model, so this says the mutex alone suffices.
- `NoFalseCondemnation` – only environment damage makes an item CORRUPTED.
- `StartupDetects` – damage done before an opening denies writes and marks the
  items once the vault is handed out.
- `CleanAfterOpen` – no unfinished file of an earlier instance in an open vault.
- `RemovesOnlyDuplicates` – the program deletes a file only as the duplicate of a
  recorded original that the same call has read intact. If that original is bad by
  then, the environment hit it between `vault.rs:610` and `:611`, and the last intact
  copy goes: the code cannot exclude that, and the property does not claim it.
- `ImplementsLedger` – refinement of `ImportLedger`: an import is permanent at
  one instant, only while writes are admitted, and is never undone; discovery
  ends admission; receipts follow commits.
- `ImplementsGate` – refinement of `VaultGate`: after a discovery nothing is
  admitted until the next opening, and an opening admits writes only if no
  original was damaged when it began.
- `GuardReleased` – the mutex is given back. Its safety half is `HolderCanMove`:
  whoever holds the mutex was passed the guard, and the original it compares or
  links is still recorded.

**DurableJobs**

- `OneOwner` – of all leases ever handed out for a job at most one still counts,
  however old the clocks of their holders are.
- `ImplementsQueue` – refinement of `VerificationQueue`: a job has one caller at a
  time, rests between two attempts, begins at most `MaxAttempts`, ends once, is
  taken back from nobody who still has time, is given up only by a caller that has
  time or had when it read the clock for its call, and is acknowledged only by a call
  that read its original intact, with nothing but damage, time or a death in between.
  A returned job is begun or acknowledged only while writes are admitted, though
  `fail_job` and `cancel_pending_job` go on in a damaged vault. Four properties with
  names of their own follow from it and the types, by the theorem `QueueSuffices`:
  `FinishedStaysFinished` (nothing late changes a finished job), `NeverStranded` (a
  waiting job has an attempt left), `NoOverlappingLeases` (no second lease while the
  holder of the last has time) and `ReliesOnGate` (all the queue needs of its vault
  is `VaultGate`). The two runs check the refinement, which eight slips of the code
  each break.
- `NoStarvation` – with a polling caller every waiting job leaves the queue
  unless the vault stops admitting writes.

**VaultSession**

- `NoUseAfterLock` – an operation runs only in the caller that owns the session,
  on the handle the session holds.
- `ReleasedWhenLocked` – at most one handle is live, none in a locked session.
- `PoisonedStaysShut` – after a panic nothing is admitted and no handle appears.
- `DamageEndsAdmission` – no operation starts on a vault known to be damaged.
- `ImplementsExclusiveVault` – refinement of `ExclusiveVault`: from outside, one
  vault is unlocked at a time, one caller at a time uses it, and no lock or new
  unlock comes in between.
- `PanicReleases` – what a panic left live is dropped as soon as anyone calls. Its
  safety half is `ReleasedBeforeAnswer`: no call returns from a poisoned session
  before that, and the mutex it needs is free.

**KeyslotLifecycle**

- `OutcomeTruthful` – the header on disk, and the one a loss of power would
  leave, are among those the outcomes told so far allow.
- `CleanupTruthful` – between calls a stored credential is referenced, or its
  failed cleanup was told or cut off by a death.
- `ActivatedIsComplete` – keyslots are in force only in a completely built vault.
- `RecoveryDelivered` – the secret of a recovery slot in force is delivered.
- `QuickUnlockKept` – no step but a fault breaks a healthy device slot.
- `ImplementsAuthority` – refinement of `KeyslotAuthority`: founded once, changed
  one slot at a time, no update lost, fallback only to the last stable value.
- `ReliesOnExclusiveVault` – keyslot calls, locks and deaths stay within the contract
  that the session provides.

**CredentialAdapter** – `AnswersTruthful` (what retrieve says was so during the
call: a secret was the value of an entry, and an entry was in the permitted class),
`ConfiguredTruthful` (an outage, a malformed value or an entry of a forbidden class is
neither "configured" nor "not configured"), `ForbiddenClassRemoved`, `AcknowledgedIsStored`.

**Dvb1Stream** – `CommittedIsOriginal`, `SealedIsWholeSource`, `FailureAborts`,
`OnlyDamageAccuses` (BLOB_AUTH_FAILED means damage, an unexpected original, or that the
sink said it; never an I/O error of the file).

**FoundationIpc** – `NewestAnswerWins`, `ShownHasEvidence`.

`TypeOK` is the one typing invariant of each module; it includes that attempts
stay within the limit, that a slot carries a reference exactly when it is a
device slot, and that UNLOCKING and LOCKING are seen only from inside.

## 4. Runs and bounds

| run | instance | shows |
|---|---|---|
| `vault_safety` | 3 attempts, 2 contents, 2 damaged files, symmetry on both sets | all safety properties and both refinements |
| `vault_liveness` | 2 attempts, 1 content, 1 damaged file | `GuardReleased` |
| `jobs` | 2 jobs, 2 attempts, lease of 2 ticks, waits of up to 1 | the refinement of `VerificationQueue`, `NoStarvation` |
| `jobs_leases` | 1 job, 5 attempts, lease of 3 ticks, waits of up to 4 | types, `OneOwner` and the refinement |
| `jobs_ack`, `jobs_stranded` | 1 job, 2 attempts, lease of 2 ticks, no waits | two findings |
| `session` | 3 callers, 3 unlocks | safety, action and liveness properties of the session and its refinement |
| `keyslots` | 2 threads, 2 passphrases, 2 references, 2 faults | all properties of the lifecycle and its two refinements |
| `credentials` | 2 callers, 2 secrets, 2 outside changes, symmetry | all properties of the adapter |
| `dvb1` | sources of up to 7 units, 2 per frame | all properties of the framing |
| `foundation` | 2 ports, 3 runs of the effect | both properties of the panel |
| `foundation_sink` | the same | a finding |

Three attempts on two contents allow two attempts to race on one content while
the third works on the other, a duplicate of an original that was itself
damaged, and an orphan beside both. Two damaged files allow the original and its
would-be duplicate to be hit. Two jobs with two attempts meet in the order of the
queue, at the limit and in the mutex; a lease of two ticks allows calls inside, at and
after the deadline. The five attempts of the schema allow four stale leases beside the
current one, and waits longer than a lease calls whose clock is older than the lease
itself. The two findings do not need a wait and are shown without one. Claims are bounded by `JobCount * MaxAttempts` because every claim counts an
attempt.

Three callers let one hold the session while two others compete, one to lock and
one to unlock again; three unlocks give a handle before, during and after that.
Two threads are enough for a lost update, two references for a replacement of one
device slot by another, and two faults for a loss of power after a crash or a
damaged credential after either. In the adapter two callers and two outside
changes allow one caller's compensation to meet the other's write with a foreign
program in between. Seven units at two a frame give empty sources, full and short
last frames, and four frames to swap, drop or repeat. Three effect runs over two
ports allow an answer of each earlier run after the newest.

Bounds that are no constants of the code: `MaxDamage` (`Damage`), `MaxWait` (the age of a
`now`: `Claim`, `Complete`, `Fail`, `Reopen`), `MaxUnlocks`
(`BackendUnlocks`), `MaxFaults` (`Crash`, `PowerLoss`, `DamageCredential`),
`MaxOutside` (`Outside`, `Crash`), `MaxSize` (`Init` of `Dvb1Stream`) and
`MaxRequests` (`RunEffect`), each in the guard of the action named. References in
`Refs` are drawn once each, like UUIDs.

Deadlock is checked in every run but two. In `keyslots` a creation that failed or
died leaves a directory that is refused for ever, by creation and by unlock; with
no threads left in a call, that is the end. In `dvb1` the one call ends.

Symmetry is used in `vault_safety` (ids and contents are compared only for
equality) and in `credentials` (callers and secrets), where only safety is
checked. The other runs do without it.

## 5. Fairness

- `FairSpec` (vault): weak fairness of each call's steps inside `commit_import`,
  straight-line code on a thread of its own that waits for nothing once it has the
  mutex. `Crash` and `CommitFails` may always come instead. Nothing says that an import
  is started or finished, or that a vault is opened or its opening ends.
- `PollingSpec` (jobs): time passes, a caller polls `run_one_job` again and again
  whenever the vault admits writes (strong fairness, as the vault may close
  between polls), whoever holds the mutex for its transaction ends it, and a call that
  started returns. The repository has no worker
  loop yet, so `NoStarvation` is about what the queue offers to one.
- `RestartingSpec` adds that a closed vault is opened again, to make the
  counterexample of `jobs_stranded` about the code and not about a vault nobody
  opens: the vault in it stays open.

- `FairSpec` (session): a caller that is inside gets on, and when the mutex is
  free *somebody* who waits enters. `std::sync::Mutex` promises no waiter its turn,
  so there is no fairness per caller; that operations and backends return is
  assumed of them. Nothing says that anyone calls.

The other modules state safety only: their code has no loop that waits.

## 6. Findings

- `jobs_ack`: ADR-0005:11 says expired owners cannot ACK. `run_one_job`
  (`dvm-application/src/lib.rs:118`) hands the claim's `now` to `complete_job`, so
  an owner whose work outlasted the lease is acknowledged. `NoOverlappingLeases`
  and `OneOwner` hold all the same: nobody else owns the job then.
- `jobs_stranded`: blueprint line 842 and INV-009 promise recovery of an expired
  lease by startup *or worker*. Only `reconcile` does it (`vault.rs:464`); a job
  whose `complete_job` failed waits for the next opening.
- `foundation_sink`: `dvm-observability/src/lib.rs:128` says diagnostics must never
  fail an operation; `foundation_status` (`src-tauri/src/lib.rs:59`) turns a failed
  sink into an error although the status was available, as its own comment says.

Observed, without a run: the comment of `HeaderDurability::Durable`
(`dvm-domain/src/security.rs`) says "synced and re-read successfully", but only
creation re-reads the header; `change_passphrase` and `enable_device` report
Durable after the sync alone. The model follows the code.

Likewise: `vault.rs:363` says only a canonical integrity failure condemns the data.
`recover` (`:365`) judges the code `decrypt` returns, and `decrypt` returns a sink's error
unchanged (`dvb1.rs:251`, `:178`), as `Dvb1Stream` models. A sink that answered
BLOB_AUTH_FAILED of its own, as the tests' `CompareSink` can, would have intact items
marked CORRUPTED and the vault closed to writes; the port says nothing about the codes
a sink may use.

## 7. Proofs

Each proof module establishes an inductive invariant `IInv` and derives the rest
from it. Assumptions: the `ASSUME`s of the modules (special values are distinct,
bounds and counts natural, `MaxAttempts`, `Lease` and `ChunkSize` positive, the
native port is a port) and nothing else. In particular the sets of attempts,
contents, threads, passphrases, references, secrets and ports are arbitrary.

`VaultStorage_proofs`. `RecoverableOriginal` is not inductive: a step may rely on
a file whose attempt is still running. `IInv` adds

- `AttemptInv`: what the files of an attempt hold at each value of its `pc`;
- `MetadataInv`: a row describes the content its attempt wanted and its file is
  in `blobs/` intact unless damaged; an item links to a row; acknowledged
  attempts are linked;
- `MutexInv`: the steps of `commit_import` run only under their own guard, which
  gives `UniqueOriginal` (no other row appears between the `SELECT` and the
  `INSERT`), and the original a duplicate is compared with stays recorded;
- `StartupInv`: what each finished loop of `reconcile` has established, which gives
  `StartupDetects` and `CleanAfterOpen`.

Its proof has one step per action. `RemovesOnlyDuplicates` adds `DuplicateInv`, proved
beside it: between `verify_canonical` and `remove_file` the original is recorded and
intact, or was damaged since it was read. The refinement `SpecImplementsLedger` (initial
states to initial states, each step to a step of `ImportLedger` or a stutter) uses
`IInv` alone. The steps that matter most
are `CommitLink`, which needs `MutexInv` to know that writes are still admitted
at the commit, and `Recover`, which needs `MetadataInv` to know that a file that
does not verify was damaged. `SpecImplementsGate` goes by what a step does to the
gate: it leaves it alone or adds damage (`GateQuiet`), finds damage (`GateDiscovers`,
where `NoticedDamage` turns a file that does not verify into an original the
environment damaged), withdraws the vault or hands it out (`GateAdmits`, where
`StartupInv` says that a healthy verdict stands for every original).

`DurableJobs_proofs`. `IInv` adds `LeaseInv` (a worker id is drawn once and names
one lease), `QueueInv` (a caller is owed time only for a PROCESSING job and never
more than the lease has left), `HolderInv` (whoever holds the lease of a
PROCESSING job has all the time the lease has left) and `HoldingInv` (whoever keeps the
mutex for its transaction is alone, was admitted and still owns its job) to `TypeOK` and
`NeverStranded`. `OneOwner` follows from `LeaseInv`. `SpecImplementsQueue` has a lemma for
each step that moves a job. `FailGivesUp` is the one that needs `HolderInv`: only with
it is the caller whose `fail_job` is accepted still heard of, in time or by a call it
began in time. `AcknowledgeVerifies` needs `HoldingInv`, and `ReopenTakesBack` needs
`QueueInv`: the leases that expired, also by an old clock, are nobody's.
`QueueSuffices` is about the abstract queue alone, and gives the other properties
through the refinement.

`VaultSession_proofs`. `IInv` adds that at most the owner of the mutex is inside
(`Excluded`), what the session's state is at each place of a call (`Places`), and
that outside an installation the live handles are exactly the active one
(`Released`). `NoUseAfterLock` and `ReleasedWhenLocked` follow; the three action
properties go by the actions. `SpecImplementsExclusiveVault` rests on `Users`: the
owner of the mutex is the only caller that can be operating.

`KeyslotLifecycle_proofs`. `IInv` says who may be in which step (`OwnInv`), that
nothing is in force in an incomplete vault (`BuildInv`) or before its creator
activates (`CreateInv`), that what a call has built is one change of the header
still in force and what it replaces is broken (`ChangeInv`: the heart of it,
since it makes a read before the change as good as one at the change), that
references are fresh (`RefInv`), that a header is told as it is (`SyncInv`), and
who answers for each stored credential (`CleanInv`) and for the recovery secret
(`SecretInv`). `StepPreserves` has one step per action and one per conjunct.
`QuickUnlockKept` needs `ChangeInv` at activation and `RefInv` at each store and
discard; the refinement `SpecImplementsAuthority` maps every step to a step of
`KeyslotAuthority` or a stutter, and `SpecReliesOnExclusiveVault` to one of
`ExclusiveVault`, where a death may also come.

`CredentialAdapter_proofs`. `IInv` adds the exclusion of `ACCESS`, that every call
has seen the entry as it is now and as it read it (`Witnessed`), that a store
still at work has acknowledged nothing (`Storing`), and that a forbidden
class survives only below a caller about to remove it (`Forbidden`).

`Dvb1Stream_proofs`. `WrittenInv` fixes every frame written, `SealedInv` that a
sealed file is the whole source, `WalkInv` that the reader stands before the
frame whose predecessors it has staged. Then `HeaderAdmitted` and `FrameAdmitted`
leave the sealed file as the only one that reaches the commit. `OnlyDamageAccuses` goes
by where a failure comes from: the stream (`StreamFailPreserves`) or the sink
(`SinkFailPreserves`). A few lemmas about
products stand in for arithmetic the solver cannot find.

`FoundationIpc_proofs`. `OneRun` (all runs but the current one are cancelled),
`ShownInv` (what is shown is the answer of a settled run) and `ServedInv` (what the
backend answered comes with what `emit` returned).

Only model-checked: `GuardReleased`, `NoStarvation` and `PanicReleases`, because
liveness under fairness and ENABLED are out of the prover's reach. What two of them
rest on besides fairness is proved for any instance: `HolderCanMove` and
`ReleasedBeforeAnswer`. These were checked by
TLC on the instances of section 4 before they were proved; no run repeats that,
nor for the four consequences of `ImplementsQueue`. `ImportLedger`, `VaultGate`,
`KeyslotAuthority` and `ExclusiveVault` are specifications of their own and have no
properties besides the refinements.

## 8. What is not modelled

External and assumed: SQLite transactions are atomic and durable when `commit`
returns; a rename within the vault is atomic; `owner.lock` and `keyslots.lock`
exclude a second instance; the cryptography is ideal (what opens was sealed under
the same key, place and metadata). In the canonical store a rename survives a
loss of power; in the keyslot lifecycle the sync of the header after its rename
makes it survive, and the files of the bootstrap are taken as durable once made. In
`VaultStorage` the sinks given to `recover` do not answer BLOB_AUTH_FAILED or
MISSING_BLOB of their own (`NoFalseCondemnation` needs it; section 6 says what
happens otherwise). The callers of the job port read one clock that does not go
back.

Left out on purpose:

- Cryptographic primitives (`keys.rs`, `sodium.rs`), KDF calibration, error wording,
  contract types, the formatting of diagnostics, code generation and build
  scripts: no state of interest. `dvm-ai`, `dvm-backup`, `dvm-media` and
  `dvm-search` are empty.
- The cipher settings, `integrity_check` and FTS probe of `database.rs`: answers of
  SQLCipher. The bootstrap keeps its two durable points and their failures.
- Malformed job payloads: only `enqueue_verification` writes them. Path, symlink and
  version checks of rows and headers that the program itself wrote, with the
  failures they could cause.
- Repairs of the credential store: `DamageCredential` only takes a working device
  credential away. There is no rotation of the master key in the code, so every
  slot wraps the same root.
- An answer of `retrieve` composed of a secret and a class that never held
  together, when another program changes the entry between the two native calls:
  the adapter cannot exclude it, and `AnswersTruthful` asks for each part only: that
  the value was an entry's, and that an entry was in the permitted class.
- Callers that pass malformed references to the ports: the keyslot code and
  `ProviderSecretStore` build canonical ones.
- The composition of `VaultStorage` and `DurableJobs` in one module. They are composed
  by contract: `VaultGate` is what the one is proved to provide and the other to
  rely on. Left open by that is the one transaction in which `commit_import` also
  enqueues the job.

## 9. State of the plan

The order put what a loss of data depends on first; all of it is done: canonical
store, jobs, session, keyslots, credential adapter, blob format, foundation IPC,
each with its proofs. Header admission and the bootstrap became parts of
`KeyslotLifecycle` instead of modules of their own, because what matters about
them is what creation and the keyslot changes leave behind.

The two interactions that carry the most weight, session with keyslots and store
with jobs, are contracts proved on both sides.

What would come next: the joint transaction of import and job named above, on a
smaller instance; abstract specifications of the credential entry and of the blob
format; and, once the code has them, a worker loop, backup and search.
