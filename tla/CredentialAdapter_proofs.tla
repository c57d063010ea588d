----------------------- MODULE CredentialAdapter_proofs -----------------------
(***************************************************************************)
(* Proofs about CredentialAdapter for any callers, any secrets and any     *)
(* number of changes by other programs and crashes.                        *)
(***************************************************************************)
EXTENDS CredentialAdapter, TLAPS

Unverified(c) == pc[c] \in {"verify", "compensate"}

\* ACCESS admits one caller to the native store.
Excluded == \A c \in Callers : pc[c] \in Inside <=> access = c

\* A call in progress has seen the present entry, and the value it read.
Witnessed ==
  \A c \in Callers :
    /\ pc[c] # "idle" => entry \in seen[c]
    /\ pc[c] = "class" => \E e \in seen[c] \ {None} : e.value = bytes[c]

\* What a store wrote is unacknowledged until its class is known.
Storing ==
  \A c \in Callers :
    /\ pc[c] = "store" => bytes[c] \in Secrets
    /\ Unverified(c) => acked = None
    /\ Unverified(c) /\ author = "adapter" /\ entry # None => entry.value \in Secrets

\* A forbidden class survives only under a caller that is about to remove it.
Forbidden ==
  author = "adapter" /\ entry # None => entry.local \/ \E c \in Callers : Unverified(c)

IInv == TypeOK /\ Excluded /\ Witnessed /\ Storing /\ Forbidden
        /\ AnswersTruthful /\ AcknowledgedIsStored

-----------------------------------------------------------------------------
(* IInv is inductive.                                                      *)

\* The initial states satisfy the invariant.
LEMMA InitEstablishes == Init => IInv
  BY AdapterAssumption DEF Init, IInv, TypeOK, Excluded, Witnessed, Storing, Forbidden, Unverified,
     AnswersTruthful, AcknowledgedIsStored, Returned, SawLocal, Entries, Wants, Inside, Answers

\* Every step preserves the invariant, action by action.
LEMMA StepPreserves == IInv /\ [Next]_vars => IInv'
  <1> SUFFICES ASSUME IInv, [Next]_vars PROVE IInv'
    OBVIOUS
  <1> USE AdapterAssumption DEF IInv, TypeOK, Excluded, Witnessed, Storing, Forbidden, Unverified,
          AnswersTruthful, AcknowledgedIsStored, Returned, SawLocal, Entries, Wants, Inside, Answers,
          Becomes, Enter, Return, Free
  <1>1. ASSUME NEW c \in Callers, NEW secret \in Secrets, Request(c, "store", secret) PROVE IInv'
    BY <1>1 DEF Request
  <1>2. ASSUME NEW c \in Callers, NEW call \in {"retrieve", "delete"}, Request(c, call, Malformed) PROVE IInv'
    BY <1>2 DEF Request
  <1>3. ASSUME NEW c \in Callers, NEW call \in Wants, Fails(c, call) PROVE IInv'
    BY <1>3 DEF Fails, OnFailure
  <1>4. ASSUME NEW c \in Callers, NEW here \in BOOLEAN, SetSecret(c, here) PROVE IInv'
    BY <1>4 DEF SetSecret
  <1>5. ASSUME NEW c \in Callers, VerifyLocal(c) PROVE IInv'
    BY <1>5 DEF VerifyLocal
  <1>6. ASSUME NEW c \in Callers, VerifyFails(c) PROVE IInv'
    BY <1>6 DEF VerifyFails
  <1>7. ASSUME NEW c \in Callers, Compensate(c) PROVE IInv'
    BY <1>7 DEF Compensate, AfterRemoval
  <1>8. ASSUME NEW c \in Callers, CompensationFails(c) PROVE IInv'
    BY <1>8 DEF CompensationFails
  <1>9. ASSUME NEW c \in Callers, ReadMissing(c) PROVE IInv'
    BY <1>9 DEF ReadMissing
  <1>10. ASSUME NEW c \in Callers, ReadSecret(c) PROVE IInv'
    BY <1>10 DEF ReadSecret
  <1>11. ASSUME NEW c \in Callers, ReadClass(c) PROVE IInv'
    BY <1>11 DEF ReadClass, Classified
  <1>12. ASSUME NEW c \in Callers, ReadClassFails(c) PROVE IInv'
    BY <1>12 DEF ReadClassFails
  <1>13. ASSUME NEW c \in Callers, Delete(c) PROVE IInv'
    BY <1>13 DEF Delete
  <1>14. ASSUME NEW e \in Entries, Outside(e) PROVE IInv'
    BY <1>14 DEF Outside
  <1>15. ASSUME Crash PROVE IInv'
    BY <1>15 DEF Crash
  <1>16. CASE UNCHANGED vars
    BY <1>16 DEF vars
  <1> HIDE DEF IInv
  <1>17. QED
    BY <1>1, <1>2, <1>3, <1>4, <1>5, <1>6, <1>7, <1>8, <1>9, <1>10, <1>11, <1>12, <1>13, <1>14,
       <1>15, <1>16 DEF Next, StoreStep, RetrieveStep

\* The invariant holds in every reachable state.
LEMMA Invariance == Spec => []IInv
  BY InitEstablishes, StepPreserves, PTL DEF Spec

-----------------------------------------------------------------------------
(* Theorems.                                                               *)

\* Every variable keeps its type; only a secret is ever acknowledged.
THEOREM SpecTypeOK == Spec => []TypeOK
  <1>1. IInv => TypeOK
    BY DEF IInv
  <1>2. QED
    BY <1>1, Invariance, PTL

\* Every classified answer was true at a moment of its call.
THEOREM SpecAnswersTruthful == Spec => []AnswersTruthful
  <1>1. IInv => AnswersTruthful
    BY DEF IInv
  <1>2. QED
    BY <1>1, Invariance, PTL

\* "Configured" and "not configured" are never told of an outage or of an
\* unusable entry.
THEOREM SpecConfiguredTruthful == Spec => []ConfiguredTruthful
  <1>1. IInv => ConfiguredTruthful
    BY AdapterAssumption DEF IInv, AnswersTruthful, ConfiguredTruthful, Configured, Returned, SawLocal
  <1>2. QED
    BY <1>1, Invariance, PTL

\* Outside a call, what the adapter wrote and settled is in the permitted class.
THEOREM SpecForbiddenClassRemoved == Spec => []ForbiddenClassRemoved
  <1>1. IInv => ForbiddenClassRemoved
    BY AdapterAssumption DEF IInv, Excluded, Forbidden, Unverified, Inside, ForbiddenClassRemoved
  <1>2. QED
    BY <1>1, Invariance, PTL

\* No interleaving takes an acknowledged secret away.
THEOREM SpecAcknowledgedIsStored == Spec => []AcknowledgedIsStored
  <1>1. IInv => AcknowledgedIsStored
    BY DEF IInv
  <1>2. QED
    BY <1>1, Invariance, PTL
=============================================================================
