-------------------------- MODULE CredentialAdapter --------------------------
(***************************************************************************)
(* The adapter over the credential store of the operating system           *)
(* (crates/dvm-storage/src/credentials.rs) and what provider secrets make  *)
(* of its answers (crates/dvm-application/src/provider_secrets.rs), for    *)
(* one canonical reference; entries of different references do not meet.   *)
(*                                                                         *)
(* Every call of a native function is a step of its own: the process       *)
(* mutex ACCESS excludes other callers of the process, but not another     *)
(* program, which may change the entry between two steps.  External: a     *)
(* native call that reports an error changed nothing, the persistence      *)
(* class the system gives a written entry, and process death.              *)
(***************************************************************************)
EXTENDS Naturals

CONSTANTS
  Callers, Nobody,
  Secrets,      \* values a SecretValue can hold
  Malformed,    \* a stored value it cannot hold (empty, or too long)
  None,         \* no entry
  MaxOutside    \* bound: changes by other programs, and crashes

ASSUME AdapterAssumption ==
  /\ Nobody \notin Callers /\ Malformed \notin Secrets /\ MaxOutside \in Nat
  /\ \A v \in Secrets \cup {Malformed}, here \in BOOLEAN : None # [value |-> v, local |-> here]
  /\ {"none", "ok", "error", "missing", "invalid"} \cap Secrets = {}

VARIABLES
  entry,      \* the stored value and whether it persists on this machine only
  access,     \* the caller that holds ACCESS
  pc,         \* per caller: idle, the call it wants, or the native call it is at
  bytes,      \* what a store writes or a retrieve has read
  answer,     \* of the caller's last call; a secret stands for Present(secret)
  \* history
  seen,       \* entries that existed since the call began
  author,     \* of the entry: the adapter, outside, or a write that could not be settled
  acked,      \* the secret an acknowledged store last wrote, until the next change
  outside

vars == <<entry, access, pc, bytes, answer, seen, author, acked, outside>>

Entries == [value : Secrets \cup {Malformed}, local : BOOLEAN] \cup {None}
Wants == {"store", "retrieve", "delete"}
Inside == {"verify", "compensate", "class"}
Answers == {"none", "ok", "error", "missing", "invalid"} \cup Secrets

TypeOK ==
  /\ entry \in Entries
  /\ access \in Callers \cup {Nobody}
  /\ pc \in [Callers -> {"idle"} \cup Wants \cup Inside]
  /\ bytes \in [Callers -> Secrets \cup {Malformed}]
  /\ answer \in [Callers -> Answers]
  /\ seen \in [Callers -> SUBSET Entries]
  /\ author \in {"adapter", "outside", "unsettled"}
  /\ acked \in Secrets \cup {None}
  /\ outside \in 0..MaxOutside

-----------------------------------------------------------------------------
(* Decisions of the code; those marked "mutant" are slips the properties   *)
(* must detect and are not used.                                           *)

NotExcluded == TRUE                           \* mutant: ACCESS not taken
Free == access = Nobody

OutageIsAbsence(call) == IF call = "retrieve" THEN "missing" ELSE "error" \* mutant: Err(_) read as NoEntry
OnFailure(call) == "error"

ForgottenEntry == entry                       \* mutant: no compensating removal
AfterRemoval == None

InvalidIsAbsent(a) == CASE a \in Secrets -> "yes" [] a \in {"missing", "invalid"} -> "no"
                        [] OTHER -> "error"   \* mutant: a malformed value is not configured

\* ProviderSecretStore::configured, from the answer of the port.
Configured(a) == CASE a \in Secrets -> "yes" [] a = "missing" -> "no" [] OTHER -> "error"

ClassIgnored(here, value) == IF value \in Secrets THEN value ELSE "invalid" \* mutant: class not judged

\* CredentialLookup::classify, after the persistence class was judged.
Classified(here, value) == IF here /\ value \in Secrets THEN value ELSE "invalid"

-----------------------------------------------------------------------------
Init ==
  /\ entry = None /\ access = Nobody
  /\ pc = [c \in Callers |-> "idle"]
  /\ bytes = [c \in Callers |-> Malformed]
  /\ answer = [c \in Callers |-> "none"]
  /\ seen = [c \in Callers |-> {}]
  /\ author = "outside" /\ acked = None /\ outside = 0

\* A change of the entry is witnessed by every call in progress.
Becomes(e) ==
  /\ entry' = e
  /\ seen' = [c \in Callers |-> IF pc[c] = "idle" THEN seen[c] ELSE seen[c] \cup {e}]

Request(c, call, secret) ==
  /\ pc[c] = "idle"
  /\ pc' = [pc EXCEPT ![c] = call]
  /\ bytes' = [bytes EXCEPT ![c] = secret]
  /\ answer' = [answer EXCEPT ![c] = "none"]
  /\ seen' = [seen EXCEPT ![c] = {entry}]
  /\ UNCHANGED <<entry, access, author, acked, outside>>

Enter(c, where) == access' = c /\ pc' = [pc EXCEPT ![c] = where] /\ UNCHANGED answer
Return(c, a) ==
  /\ access' = Nobody
  /\ pc' = [pc EXCEPT ![c] = "idle"]
  /\ answer' = [answer EXCEPT ![c] = a]
  /\ bytes' = [bytes EXCEPT ![c] = Malformed]

\* A non-canonical reference, a poisoned ACCESS, or an error of the native store.
Fails(c, call) ==
  /\ pc[c] = call /\ Free
  /\ Return(c, OnFailure(call))
  /\ UNCHANGED <<entry, seen, author, acked, outside>>

-----------------------------------------------------------------------------
(* store                                                                   *)

\* The previous secret is gone from here on, whatever becomes of the new one.
SetSecret(c, here) ==
  /\ pc[c] = "store" /\ Free
  /\ Enter(c, "verify")
  /\ Becomes([value |-> bytes[c], local |-> here])
  /\ author' = "adapter" /\ acked' = None
  /\ UNCHANGED <<bytes, outside>>

VerifyLocal(c) ==
  /\ pc[c] = "verify" /\ entry # None /\ entry.local
  /\ Return(c, "ok")
  /\ acked' = IF author = "adapter" THEN entry.value ELSE None
  /\ UNCHANGED <<entry, seen, author, outside>>

\* The class is forbidden, the entry is gone, or the query failed.
VerifyFails(c) ==
  /\ pc[c] = "verify"
  /\ pc' = [pc EXCEPT ![c] = "compensate"]
  /\ UNCHANGED <<entry, access, bytes, answer, seen, author, acked, outside>>

\* The verification failure is the answer, with or without the removal.
Compensate(c) ==
  /\ pc[c] = "compensate"
  /\ Becomes(AfterRemoval)
  /\ Return(c, "error")
  /\ UNCHANGED <<author, acked, outside>>

CompensationFails(c) ==
  /\ pc[c] = "compensate"
  /\ Return(c, "error")
  /\ author' = IF author = "adapter" THEN "unsettled" ELSE author
  /\ UNCHANGED <<entry, seen, acked, outside>>

-----------------------------------------------------------------------------
(* retrieve and delete                                                     *)

ReadMissing(c) ==
  /\ pc[c] = "retrieve" /\ Free /\ entry = None
  /\ Return(c, "missing")
  /\ UNCHANGED <<entry, seen, author, acked, outside>>

ReadSecret(c) ==
  /\ pc[c] = "retrieve" /\ Free /\ entry # None
  /\ bytes' = [bytes EXCEPT ![c] = entry.value]
  /\ Enter(c, "class")
  /\ UNCHANGED <<entry, seen, author, acked, outside>>

ReadClass(c) ==
  /\ pc[c] = "class" /\ entry # None
  /\ Return(c, Classified(entry.local, bytes[c]))
  /\ UNCHANGED <<entry, seen, author, acked, outside>>

\* The attribute query failed, or the entry has gone since the read.
ReadClassFails(c) ==
  /\ pc[c] = "class"
  /\ Return(c, "error")
  /\ UNCHANGED <<entry, seen, author, acked, outside>>

Delete(c) ==
  /\ pc[c] = "delete" /\ Free
  /\ Becomes(None)
  /\ Return(c, "ok")
  /\ acked' = None
  /\ UNCHANGED <<author, outside>>

-----------------------------------------------------------------------------
(* Environment                                                             *)

\* Another program, an earlier release or the user changes or removes the entry.
Outside(e) ==
  /\ outside < MaxOutside /\ outside' = outside + 1
  /\ Becomes(e)
  /\ author' = "outside" /\ acked' = None
  /\ UNCHANGED <<access, pc, bytes, answer>>

Crash ==
  /\ outside < MaxOutside /\ outside' = outside + 1
  /\ access' = Nobody
  /\ pc' = [c \in Callers |-> "idle"]
  /\ bytes' = [c \in Callers |-> Malformed]
  /\ answer' = [c \in Callers |-> "none"]
  /\ seen' = [c \in Callers |-> {}]
  /\ author' = IF author = "adapter" /\ \E c \in Callers : pc[c] \in {"verify", "compensate"}
               THEN "unsettled" ELSE author
  /\ UNCHANGED <<entry, acked>>

StoreStep(c) ==
  \/ \E here \in BOOLEAN : SetSecret(c, here)
  \/ VerifyLocal(c) \/ VerifyFails(c) \/ Compensate(c) \/ CompensationFails(c)
RetrieveStep(c) == ReadMissing(c) \/ ReadSecret(c) \/ ReadClass(c) \/ ReadClassFails(c)

Next ==
  \/ \E c \in Callers :
       \/ \E secret \in Secrets : Request(c, "store", secret)
       \/ \E call \in {"retrieve", "delete"} : Request(c, call, Malformed)
       \/ \E call \in Wants : Fails(c, call)
       \/ StoreStep(c) \/ RetrieveStep(c) \/ Delete(c)
  \/ \E e \in Entries : Outside(e)
  \/ Crash

Spec == Init /\ [][Next]_vars

-----------------------------------------------------------------------------
(* Properties                                                              *)

Returned(c) == pc[c] = "idle"
SawLocal(c) == \E e \in seen[c] \ {None} : e.local

\* Missing, Present and InvalidStoredValue are facts: at a moment of the call the
\* entry was absent, held that value and was in the permitted class, or was
\* unusable, whoever interfered.  An outage is none of them.  (Value and class come
\* from two native calls, so another program may have exchanged the entry between.)
AnswersTruthful ==
  \A c \in Callers : Returned(c) =>
    /\ answer[c] = "missing" => None \in seen[c]
    /\ answer[c] \in Secrets => /\ \E e \in seen[c] \ {None} : e.value = answer[c]
                                /\ SawLocal(c)
    /\ answer[c] = "invalid" => \E e \in seen[c] \ {None} : e.value = Malformed \/ ~e.local

\* A provider is told "not configured" only when no credential existed, and
\* "configured" only when a secret and an entry in the permitted class did: a
\* malformed or roaming entry or an outage is neither, so nobody is invited to
\* overwrite what they have not seen or to rely on what cannot be used.
ConfiguredTruthful ==
  \A c \in Callers : Returned(c) =>
    /\ Configured(answer[c]) = "no" => None \in seen[c]
    /\ Configured(answer[c]) = "yes" => /\ \E e \in seen[c] \ {None} : e.value \in Secrets
                                        /\ SawLocal(c)

\* Once its call is over, what the adapter wrote is stored in the permitted class,
\* or removed; only a failed removal or a crash in the call leaves it otherwise.
ForbiddenClassRemoved ==
  author = "adapter" /\ entry # None /\ access = Nobody => entry.local

\* An acknowledged secret is in the store until a later store, a delete or another
\* program replaces it: no earlier call's verification or compensation takes it away.
AcknowledgedIsStored ==
  acked # None => entry = [value |-> acked, local |-> TRUE]
=============================================================================
