------------------------------ MODULE VaultGate ------------------------------
(***************************************************************************)
(* When a vault admits writes, as its users see it.  Damage comes at any   *)
(* time.  Once some was found nothing is admitted until the vault is       *)
(* opened again, and an opening admits only if nothing was damaged when    *)
(* it began.  VaultStorage provides this with its verdict, its latch and   *)
(* its mutex; DurableJobs relies on it.                                    *)
(***************************************************************************)
VARIABLES
  open,      \* the vault was handed to its owner
  writable,  \* it admits writes
  damage     \* what the environment damaged; while it is being opened, what
             \* was damaged when that began

gate == <<open, writable, damage>>

GateInit == open = TRUE /\ writable = TRUE /\ damage = {}

Spread == damage \subseteq damage' /\ UNCHANGED <<open, writable>>

Discover ==
  /\ open /\ damage # {}
  /\ writable' = FALSE
  /\ UNCHANGED <<open, damage>>

\* Dropped by its owner, or the process died.
Withdraw ==
  /\ open' = FALSE /\ writable' = FALSE
  /\ UNCHANGED damage

\* A healthy startup verdict stands for every original as it was at the start.
Admit ==
  /\ ~open /\ open' = TRUE
  /\ writable' \in BOOLEAN /\ (writable' => damage = {})
  /\ damage \subseteq damage'

GateNext == Spread \/ Discover \/ Withdraw \/ Admit

GateSpec == GateInit /\ [][GateNext]_gate
=============================================================================
