---------------------------- MODULE VaultSession ----------------------------
(***************************************************************************)
(* Single ownership and admission of one local vault                       *)
(* (crates/dvm-application/src/session.rs).  Threads call attach, state,   *)
(* unlock, with_open and lock on one shared value; a mutex serialises the  *)
(* calls, and with_open keeps it while the caller's operation runs.        *)
(*                                                                         *)
(* A handle is the Active value a successful backend unlock created: it    *)
(* owns the storage and the keys until it is dropped.  External: std's     *)
(* Mutex, which a panic of its holder poisons, and the backend, which may  *)
(* refuse, panic, or find its vault damaged at any time.                   *)
(***************************************************************************)
EXTENDS Naturals

CONSTANTS
  Callers,     \* threads that share the session
  Nobody,      \* the mutex is free
  MaxUnlocks   \* bound: handles the backend creates in one behaviour

ASSUME SessionAssumption == Nobody \notin Callers /\ MaxUnlocks \in Nat

NoHandle == 0
Handles == 1..MaxUnlocks

VARIABLES
  state,       \* VaultState
  active,      \* Inner.active
  mutex,       \* the caller inside Inner, or Nobody
  poisoned,    \* a caller panicked while it held the mutex
  pc,          \* per caller: idle, the call it waits to enter, or where it is
  held,        \* the handle on the caller's stack or lent to its operation
  live,        \* handles created and not yet dropped
  damaged,     \* handles whose health is no longer Healthy
  opened       \* handles created so far

inner == <<state, active, poisoned>>
vars == <<inner, mutex, pc, held, live, damaged, opened>>

Calls == {"attach", "state", "unlock", "use", "lock"}
Inside == {"unlocking", "installing", "operating", "locking"}
States == {"CLOSED", "LOCKED", "UNLOCKING", "OPEN", "DEGRADED_READ_ONLY", "LOCKING"}

\* The session holds no dangling handle, and the transitional states are seen
\* only by the caller inside, or after it panicked.
TypeOK ==
  /\ state \in States
  /\ active \in live \cup {NoHandle}
  /\ mutex \in Callers \cup {Nobody}
  /\ poisoned \in BOOLEAN
  /\ pc \in [Callers -> {"idle"} \cup Calls \cup Inside]
  /\ held \in [Callers -> Handles \cup {NoHandle}]
  /\ live \subseteq 1..opened /\ damaged \subseteq 1..opened
  /\ opened \in 0..MaxUnlocks
  /\ state \in {"UNLOCKING", "LOCKING"} => mutex # Nobody \/ poisoned

-----------------------------------------------------------------------------
(* Decisions of the code; those marked "mutant" are slips the properties   *)
(* must detect and are not used.                                           *)

NeverWaits == TRUE                            \* mutant: operations run after the unlock of the mutex
Free == mutex = Nobody

PoisonCleared == FALSE                        \* mutant: guard() recovers the poisoned value
GuardFails == poisoned

KeepsStorage == active                        \* mutant: guard() only maps the error
ActiveAfterPoison == NoHandle

LeftUnlocking == "UNLOCKING"                  \* mutant: the error path forgets the state
AfterFailedUnlock == "LOCKED"

LeftAlive == live                             \* mutant: lock only changes the state
AfterDrop == live \ {active}

AlwaysSound(h) == TRUE                        \* mutant: health not read at admission
Sound(h) == h \notin damaged

\* The states in which a call is admitted, by call.
Required == [attach |-> {"CLOSED"}, state |-> States, unlock |-> {"LOCKED"},
             use |-> {"OPEN"}, lock |-> States \ {"CLOSED"}]

-----------------------------------------------------------------------------
Init ==
  /\ state = "CLOSED" /\ active = NoHandle /\ poisoned = FALSE
  /\ mutex = Nobody
  /\ pc = [c \in Callers |-> "idle"]
  /\ held = [c \in Callers |-> NoHandle]
  /\ live = {} /\ damaged = {} /\ opened = 0

Goto(c, where) == pc' = [pc EXCEPT ![c] = where]
Holding(c, h) == held' = [held EXCEPT ![c] = h]

Request(c, call) ==
  /\ pc[c] = "idle"
  /\ Goto(c, call)
  /\ UNCHANGED <<inner, mutex, held, live, damaged, opened>>

\* guard(): a poisoned session drops its storage and fails every call, for good.
FailClosed(c) ==
  /\ pc[c] \in Calls /\ Free /\ GuardFails
  /\ active' = ActiveAfterPoison
  /\ live' = live \ ({active} \ {active'})
  /\ state' = "LOCKED"
  /\ Goto(c, "idle")
  /\ UNCHANGED <<poisoned, mutex, held, damaged, opened>>

\* guard() succeeds.
Entered(c, call) == pc[c] = call /\ Free /\ ~GuardFails
Admitted(c, call) == Entered(c, call) /\ state \in Required[call]
Enter(c, where) == mutex' = c /\ Goto(c, where)
Leave(c) == mutex' = Nobody /\ Goto(c, "idle")

\* Every call is refused with VaultLocked in a state that does not admit it.
Refuse(c, call) ==
  /\ Entered(c, call) /\ state \notin Required[call]
  /\ Goto(c, "idle")
  /\ UNCHANGED <<inner, mutex, held, live, damaged, opened>>

\* The backend is installed in the step that leaves CLOSED, so every later call has one.
Attach(c) ==
  /\ Admitted(c, "attach")
  /\ state' = "LOCKED"
  /\ Goto(c, "idle")
  /\ UNCHANGED <<active, poisoned, mutex, held, live, damaged, opened>>

ReadState(c) ==
  /\ Admitted(c, "state")
  /\ Goto(c, "idle")
  /\ UNCHANGED <<inner, mutex, held, live, damaged, opened>>

-----------------------------------------------------------------------------
(* unlock                                                                  *)

UnlockBegin(c) ==
  /\ Admitted(c, "unlock")
  /\ Enter(c, "unlocking")
  /\ state' = "UNLOCKING"
  /\ UNCHANGED <<active, poisoned, held, live, damaged, opened>>

\* The backend returns a handle; its vault may already be degraded.
BackendUnlocks(c, sound) ==
  /\ pc[c] = "unlocking" /\ opened < MaxUnlocks
  /\ opened' = opened + 1
  /\ live' = live \cup {opened'}
  /\ damaged' = IF sound THEN damaged ELSE damaged \cup {opened'}
  /\ Goto(c, "installing") /\ Holding(c, opened')
  /\ UNCHANGED <<inner, mutex>>

Install(c) ==
  /\ pc[c] = "installing"
  /\ state' = IF Sound(held[c]) THEN "OPEN" ELSE "DEGRADED_READ_ONLY"
  /\ active' = held[c]
  /\ live' = live \ ({active} \ {active'})
  /\ Leave(c) /\ Holding(c, NoHandle)
  /\ UNCHANGED <<poisoned, damaged, opened>>

BackendRefuses(c) ==
  /\ pc[c] = "unlocking"
  /\ active' = NoHandle
  /\ live' = live \ {active}
  /\ state' = AfterFailedUnlock
  /\ Leave(c)
  /\ UNCHANGED <<poisoned, held, damaged, opened>>

-----------------------------------------------------------------------------
(* with_open and lock                                                      *)

UseBegin(c) ==
  /\ Admitted(c, "use") /\ active # NoHandle /\ Sound(active)
  /\ Enter(c, "operating") /\ Holding(c, active)
  /\ UNCHANGED <<inner, live, damaged, opened>>

\* The health changed since the last check: the call is refused, the state tells.
UseDegrades(c) ==
  /\ Admitted(c, "use") /\ active # NoHandle /\ ~Sound(active)
  /\ state' = "DEGRADED_READ_ONLY"
  /\ Goto(c, "idle")
  /\ UNCHANGED <<active, poisoned, mutex, held, live, damaged, opened>>

\* The operation returned, with a value or an error; health is read again.
OperationEnds(c) ==
  /\ pc[c] = "operating"
  /\ state' = IF Sound(held[c]) THEN state ELSE "DEGRADED_READ_ONLY"
  /\ Leave(c) /\ Holding(c, NoHandle)
  /\ UNCHANGED <<active, poisoned, live, damaged, opened>>

LockBegin(c) ==
  /\ Admitted(c, "lock")
  /\ Enter(c, "locking")
  /\ state' = "LOCKING"
  /\ UNCHANGED <<active, poisoned, held, live, damaged, opened>>

LockEnd(c) ==
  /\ pc[c] = "locking"
  /\ live' = AfterDrop
  /\ active' = NoHandle
  /\ state' = "LOCKED"
  /\ Leave(c)
  /\ UNCHANGED <<poisoned, held, damaged, opened>>

-----------------------------------------------------------------------------
(* Panics unwind: a handle on the stack is dropped, the mutex is poisoned. *)

Panic(c) ==
  /\ pc[c] \in {"unlocking", "installing", "operating"}
  /\ live' = IF pc[c] = "installing" THEN live \ {held[c]} ELSE live
  /\ poisoned' = TRUE
  /\ Leave(c) /\ Holding(c, NoHandle)
  /\ UNCHANGED <<state, active, damaged, opened>>

\* The live vault meets damage, during an operation or by what it shares.
Damage ==
  /\ damaged' = damaged \cup {active}
  /\ active \in live \ damaged
  /\ UNCHANGED <<inner, mutex, pc, held, live, opened>>

Answers(c) == FailClosed(c) \/ Attach(c) \/ ReadState(c) \/ (\E call \in Calls : Refuse(c, call))
Enters(c) == UnlockBegin(c) \/ UseBegin(c) \/ UseDegrades(c) \/ LockBegin(c)
Works(c) == (\E sound \in BOOLEAN : BackendUnlocks(c, sound)) \/ BackendRefuses(c) \/ Install(c)
            \/ OperationEnds(c) \/ LockEnd(c)

Next ==
  \/ \E c \in Callers :
       \/ \E call \in Calls : Request(c, call)
       \/ Answers(c) \/ Enters(c) \/ Works(c) \/ Panic(c)
  \/ Damage

Spec == Init /\ [][Next]_vars

\* A caller inside gets on, and somebody enters a mutex that stays free.
\* std's Mutex promises no particular waiter its turn.
Fairness ==
  /\ \A c \in Callers : WF_vars(Works(c))
  /\ WF_vars(\E c \in Callers : Answers(c) \/ Enters(c))
FairSpec == Spec /\ Fairness

-----------------------------------------------------------------------------
(* Properties                                                              *)

\* An operation runs only in the caller that owns the session, on the handle the
\* session owns, never on one that a lock, a new unlock or a panic has released.
NoUseAfterLock ==
  \A c \in Callers : pc[c] = "operating" =>
    /\ held[c] \in live /\ held[c] = active
    /\ mutex = c /\ state = "OPEN" /\ ~poisoned

\* Storage and keys exist only while unlocked: once a failed unlock, a lock or no
\* unlock at all left the session locked, nothing is live; otherwise at most one is.
ReleasedWhenLocked ==
  /\ \A g, h \in live : g = h
  /\ state \in {"CLOSED", "LOCKED"} => live = {}

\* A panic inside the session is final: nothing is admitted and no handle appears
\* again, in whatever order other threads unlock, lock or attach.
PoisonedStaysShut ==
  [][poisoned => /\ poisoned' /\ live' \subseteq live
                 /\ \A c \in Callers : pc[c] \in Inside \/ pc'[c] \notin Inside]_vars

\* No operation starts on a vault that is known to be damaged, also when the
\* damage came to light after the session was opened; only a new unlock, which
\* reads the health of a new handle, reopens it.
DamageEndsAdmission ==
  [][/\ \A c \in Callers : pc[c] = "use" /\ pc'[c] = "operating" => active \notin damaged
     /\ state = "DEGRADED_READ_ONLY" => state' # "OPEN"]_vars

\* From outside: one vault is unlocked at a time, one caller at a time uses it, and
\* no lock or new unlock comes in between; the keyslot changes rely on it.
User == IF mutex \in Callers /\ pc[mutex] = "operating" THEN mutex ELSE Nobody
Exclusive == INSTANCE ExclusiveVault WITH Threads <- Callers, unlocked <- live # {}, user <- User
ImplementsExclusiveVault == Exclusive!Spec

\* No call returns from a poisoned session before the storage it held is released,
\* and no call has to wait for that: the mutex is free.
ReleasedBeforeAnswer ==
  [][poisoned => /\ mutex = Nobody
                 /\ \A c \in Callers : pc[c] \in Calls /\ pc'[c] = "idle" => live' = {}]_vars

\* After a panic the storage it left behind is released as soon as anyone calls.
PanicReleases ==
  \A c \in Callers : (poisoned /\ pc[c] \in Calls) ~> live = {}
=============================================================================
