--------------------------- MODULE ExclusiveVault ---------------------------
(***************************************************************************)
(* The exclusion around an unlocked vault, as seen from outside: one       *)
(* vault at a time is unlocked, one thread at a time uses it, and it stays *)
(* unlocked until that use is over.  VaultSession provides it with its     *)
(* mutex and its states; KeyslotLifecycle relies on it, where a keyslot    *)
(* change reads the header, works on it and replaces the whole file.       *)
(***************************************************************************)
CONSTANTS Threads, Nobody

VARIABLES
  unlocked,  \* storage and keys exist
  user       \* the thread whose operation runs on them, or Nobody

vars == <<unlocked, user>>

Init == unlocked = FALSE /\ user = Nobody

Unlock == ~unlocked /\ user = Nobody /\ unlocked' = TRUE /\ UNCHANGED user

Begin(t) == unlocked /\ user = Nobody /\ user' = t /\ UNCHANGED unlocked

\* The operation returned or panicked.
End == user # Nobody /\ user' = Nobody /\ UNCHANGED unlocked

\* By lock, or because a caller met a session that a panic has poisoned.
Lock == unlocked /\ user = Nobody /\ unlocked' = FALSE /\ UNCHANGED user

Next == Unlock \/ (\E t \in Threads : Begin(t)) \/ End \/ Lock

Spec == Init /\ [][Next]_vars

\* The same where the process may die.
Die == unlocked' = FALSE /\ user' = Nobody
MortalSpec == Init /\ [][Next \/ Die]_vars
=============================================================================
