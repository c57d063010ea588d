-------------------------- MODULE KeyslotAuthority --------------------------
(***************************************************************************)
(* What the keyslot lifecycle promises, without files, threads or the      *)
(* credential store: at any time one set of slots is authoritative.  It    *)
(* is founded once, changes one slot at a time, becomes stable, and falls  *)
(* back to its last stable value only when power is lost.                  *)
(***************************************************************************)
CONSTANTS Slots    \* records with a field "kind"

VARIABLES auth, stable

Updated(slots, s) == {x \in slots : x.kind # s.kind} \cup {s}

Init == auth = {} /\ stable = {}

\* A vault gets its first slots: a passphrase and, unless declined, recovery.
Found(slots) ==
  /\ auth = {} /\ stable = {}
  /\ \E s \in slots : s.kind = "passphrase-v1"
  /\ \A s \in slots : s.kind \in {"passphrase-v1", "recovery-v1"}
  /\ auth' = slots
  /\ UNCHANGED stable

\* One passphrase or device slot is replaced, or a device slot is added.
Change(s) ==
  /\ auth # {}
  /\ s.kind \in {"passphrase-v1", "device-v1"}
  /\ auth' = Updated(auth, s)
  /\ UNCHANGED stable

Harden == stable' = auth /\ UNCHANGED auth
LosePower == auth' = stable /\ UNCHANGED stable

Next ==
  \/ \E slots \in SUBSET Slots : Found(slots)
  \/ \E s \in Slots : Change(s)
  \/ Harden \/ LosePower

Spec == Init /\ [][Next]_<<auth, stable>>
=============================================================================
