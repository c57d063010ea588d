------------------------- MODULE VaultSession_proofs -------------------------
(***************************************************************************)
(* Proofs about VaultSession for any number of threads and handles.        *)
(***************************************************************************)
EXTENDS VaultSession, TLAPS

\* The mutex is held by the one caller inside, and by nobody after a panic.
Excluded ==
  /\ \A c \in Callers : pc[c] \in Inside <=> mutex = c
  /\ poisoned => mutex = Nobody

\* What the session looks like from each place inside it.
Places ==
  \A c \in Callers :
    /\ pc[c] = "unlocking" => state = "UNLOCKING" /\ active = NoHandle
    /\ pc[c] = "installing" =>
         state = "UNLOCKING" /\ active = NoHandle /\ live = {held[c]} /\ held[c] # NoHandle
    /\ pc[c] = "operating" => state = "OPEN" /\ active # NoHandle /\ held[c] = active
    /\ pc[c] = "locking" => state = "LOCKING"

\* Except for a handle being installed, only the active handle is live.
Released ==
  /\ (\E c \in Callers : pc[c] = "installing") \/ live = {active} \ {NoHandle}
  /\ state \in {"CLOSED", "LOCKED"} => active = NoHandle

IInv == TypeOK /\ Excluded /\ Places /\ Released

-----------------------------------------------------------------------------
(* IInv is inductive.                                                      *)

\* The initial states satisfy the invariant.
LEMMA InitEstablishes == Init => IInv
  <1> SUFFICES ASSUME Init PROVE IInv
    OBVIOUS
  <1> USE SessionAssumption DEF Init, States, Calls, Inside, Handles, NoHandle
  <1>1. poisoned \in BOOLEAN
    BY Zenon
  <1>2. TypeOK
    BY <1>1 DEF TypeOK
  <1>3. Excluded /\ Places /\ Released
    BY DEF Excluded, Places, Released
  <1>4. QED
    BY <1>2, <1>3 DEF IInv

\* Every step preserves the invariant, action by action.
LEMMA StepPreserves == IInv /\ [Next]_vars => IInv'
  <1> SUFFICES ASSUME IInv, [Next]_vars PROVE IInv'
    OBVIOUS
  <1> USE SessionAssumption DEF IInv, TypeOK, Excluded, Places, Released, States, Calls, Inside,
          Handles, NoHandle, Goto, Holding, Enter, Leave, Entered, Admitted, Required, Free,
          GuardFails, inner
  <1>1. ASSUME NEW c \in Callers, NEW call \in Calls, Request(c, call) \/ Refuse(c, call) PROVE IInv'
    <2>1. CASE Request(c, call)
      BY <2>1 DEF Request
    <2>2. CASE Refuse(c, call)
      BY <2>2 DEF Refuse
    <2>3. QED
      BY <1>1, <2>1, <2>2
  <1>2. ASSUME NEW c \in Callers, FailClosed(c) PROVE IInv'
    BY <1>2 DEF FailClosed, ActiveAfterPoison
  <1>3. ASSUME NEW c \in Callers, Attach(c) \/ ReadState(c) PROVE IInv'
    BY <1>3 DEF Attach, ReadState
  <1>4. ASSUME NEW c \in Callers, UnlockBegin(c) PROVE IInv'
    BY <1>4 DEF UnlockBegin
  <1>5. ASSUME NEW c \in Callers, NEW sound \in BOOLEAN, BackendUnlocks(c, sound) PROVE IInv'
    BY <1>5 DEF BackendUnlocks
  <1>6. ASSUME NEW c \in Callers, BackendRefuses(c) PROVE IInv'
    BY <1>6 DEF BackendRefuses, AfterFailedUnlock
  <1>7. ASSUME NEW c \in Callers, Install(c) PROVE IInv'
    BY <1>7 DEF Install
  <1>8. ASSUME NEW c \in Callers, UseBegin(c) PROVE IInv'
    BY <1>8 DEF UseBegin
  <1>9. ASSUME NEW c \in Callers, UseDegrades(c) PROVE IInv'
    BY <1>9 DEF UseDegrades
  <1>10. ASSUME NEW c \in Callers, OperationEnds(c) PROVE IInv'
    BY <1>10 DEF OperationEnds
  <1>11. ASSUME NEW c \in Callers, LockBegin(c) PROVE IInv'
    BY <1>11 DEF LockBegin
  <1>12. ASSUME NEW c \in Callers, LockEnd(c) PROVE IInv'
    BY <1>12 DEF LockEnd, AfterDrop
  <1>13. ASSUME NEW c \in Callers, Panic(c) PROVE IInv'
    BY <1>13 DEF Panic
  <1>14. ASSUME Damage PROVE IInv'
    BY <1>14 DEF Damage
  <1>15. CASE UNCHANGED vars
    BY <1>15 DEF vars
  <1>16. QED
    BY <1>1, <1>2, <1>3, <1>4, <1>5, <1>6, <1>7, <1>8, <1>9, <1>10, <1>11, <1>12, <1>13, <1>14, <1>15
       DEF Next, Answers, Enters, Works

\* The invariant holds in every reachable state.
LEMMA Invariance == Spec => []IInv
  BY InitEstablishes, StepPreserves, PTL DEF Spec

-----------------------------------------------------------------------------
(* Invariants.                                                             *)

\* The session holds no dangling handle, and its transitional states are seen
\* only by the caller inside or after a panic.
THEOREM SpecTypeOK == Spec => []TypeOK
  <1>1. IInv => TypeOK
    BY DEF IInv
  <1>2. QED
    BY <1>1, Invariance, PTL

\* An operation runs only on the live handle the session owns, inside the mutex.
THEOREM SpecNoUseAfterLock == Spec => []NoUseAfterLock
  <1>1. IInv => NoUseAfterLock
    BY SessionAssumption DEF IInv, TypeOK, Excluded, Places, Released, NoUseAfterLock, Inside, NoHandle
  <1>2. QED
    BY <1>1, Invariance, PTL

\* Nothing is live in a locked session, and never more than one handle.
THEOREM SpecReleasedWhenLocked == Spec => []ReleasedWhenLocked
  <1>1. IInv => ReleasedWhenLocked
    BY DEF IInv, Places, Released, ReleasedWhenLocked, NoHandle
  <1>2. QED
    BY <1>1, Invariance, PTL

-----------------------------------------------------------------------------
(* Action properties.                                                      *)

\* After a panic nobody is admitted and no handle appears, for good.
THEOREM SpecPoisonedStaysShut == Spec => PoisonedStaysShut
  <1> DEFINE Shut == poisoned => /\ poisoned' /\ live' \subseteq live
                       /\ \A c \in Callers : pc[c] \in Inside \/ pc'[c] \notin Inside
  <1>1. IInv /\ [Next]_vars => [Shut]_vars
    <2> SUFFICES ASSUME IInv, Next, poisoned
                 PROVE /\ poisoned' /\ live' \subseteq live
                       /\ \A c \in Callers : pc[c] \in Inside \/ pc'[c] \notin Inside
      OBVIOUS
    <2> USE SessionAssumption DEF IInv, TypeOK, Excluded, Inside, Calls, Goto, Holding, Enter, Leave,
            Entered, Admitted, Free, GuardFails, inner
    <2>1. ASSUME NEW c \in Callers, NEW call \in Calls, Request(c, call)
          PROVE /\ poisoned' /\ live' \subseteq live
                /\ \A d \in Callers : pc[d] \in Inside \/ pc'[d] \notin Inside
      BY <2>1 DEF Request
    <2>2. ASSUME NEW c \in Callers, FailClosed(c)
          PROVE /\ poisoned' /\ live' \subseteq live
                /\ \A d \in Callers : pc[d] \in Inside \/ pc'[d] \notin Inside
      BY <2>2 DEF FailClosed
    <2>3. ASSUME Damage
          PROVE /\ poisoned' /\ live' \subseteq live
                /\ \A d \in Callers : pc[d] \in Inside \/ pc'[d] \notin Inside
      BY <2>3 DEF Damage
    <2>4. QED
      BY <2>1, <2>2, <2>3 DEF Next, Answers, Enters, Works, Refuse, Attach, ReadState, UnlockBegin,
         UseBegin, UseDegrades, LockBegin, BackendUnlocks, BackendRefuses, Install, OperationEnds,
         LockEnd, Panic
  <1>2. QED
    BY <1>1, Invariance, PTL DEF Spec, PoisonedStaysShut

\* No operation starts on a vault known to be damaged, and only a new unlock
\* leaves the degraded state for OPEN.
THEOREM SpecDamageEndsAdmission == Spec => DamageEndsAdmission
  <1> DEFINE Admission ==
        /\ \A c \in Callers : pc[c] = "use" /\ pc'[c] = "operating" => active \notin damaged
        /\ state = "DEGRADED_READ_ONLY" => state' # "OPEN"
  <1>1. IInv /\ [Next]_vars => [Admission]_vars
    <2> SUFFICES ASSUME IInv, Next PROVE Admission
      OBVIOUS
    <2> USE SessionAssumption DEF IInv, TypeOK, Places, Inside, Calls, Goto, Holding, Enter, Leave,
            Entered, Admitted, Required, inner
    <2>1. ASSUME NEW c \in Callers, NEW call \in Calls, Request(c, call) \/ Refuse(c, call) PROVE Admission
      BY <2>1 DEF Request, Refuse
    <2>2. ASSUME NEW c \in Callers, FailClosed(c) \/ Attach(c) \/ ReadState(c) PROVE Admission
      BY <2>2 DEF FailClosed, Attach, ReadState
    <2>3. ASSUME NEW c \in Callers, UnlockBegin(c) \/ UseDegrades(c) \/ LockBegin(c) PROVE Admission
      BY <2>3 DEF UnlockBegin, UseDegrades, LockBegin
    <2>4. ASSUME NEW c \in Callers, UseBegin(c) PROVE Admission
      BY <2>4 DEF UseBegin, Sound
    <2>5. ASSUME NEW c \in Callers, NEW sound \in BOOLEAN, BackendUnlocks(c, sound) PROVE Admission
      BY <2>5 DEF BackendUnlocks
    <2>6. ASSUME NEW c \in Callers, BackendRefuses(c) \/ Install(c) PROVE Admission
      BY <2>6 DEF BackendRefuses, AfterFailedUnlock, Install
    <2>7. ASSUME NEW c \in Callers, OperationEnds(c) \/ LockEnd(c) \/ Panic(c) PROVE Admission
      BY <2>7 DEF OperationEnds, LockEnd, Panic
    <2>8. ASSUME Damage PROVE Admission
      BY <2>8 DEF Damage
    <2>9. QED
      BY <2>1, <2>2, <2>3, <2>4, <2>5, <2>6, <2>7, <2>8 DEF Next, Answers, Enters, Works
  <1>2. QED
    BY <1>1, Invariance, PTL DEF Spec, DamageEndsAdmission

\* No call returns from a poisoned session before its storage is released, and the
\* mutex is free for it.
THEOREM SpecReleasedBeforeAnswer == Spec => ReleasedBeforeAnswer
  <1> DEFINE Answered == poisoned =>
        /\ mutex = Nobody
        /\ \A c \in Callers : pc[c] \in Calls /\ pc'[c] = "idle" => live' = {}
  <1>1. IInv /\ [Next]_vars => [Answered]_vars
    <2> SUFFICES ASSUME IInv, Next, poisoned
                 PROVE \A c \in Callers : pc[c] \in Calls /\ pc'[c] = "idle" => live' = {}
      BY DEF IInv, Excluded
    <2> DEFINE Out == \A c \in Callers : pc[c] \in Calls /\ pc'[c] = "idle" => live' = {}
    <2>1. \A c \in Callers : pc[c] \notin Inside
      BY SessionAssumption DEF IInv, Excluded, Inside
    <2> USE DEF IInv, TypeOK, Inside, Calls, Goto, Entered, Admitted, GuardFails
    <2>2. ASSUME NEW c \in Callers, NEW call \in Calls, Request(c, call) PROVE Out
      BY <2>2 DEF Request
    <2>3. ASSUME NEW c \in Callers, FailClosed(c) PROVE Out
      <3>1. live = {active} \ {NoHandle}
        BY <2>1 DEF Released
      <3>2. QED
        BY <2>3, <3>1 DEF FailClosed, ActiveAfterPoison
    <2>4. ASSUME Damage PROVE Out
      BY <2>4 DEF Damage
    <2>5. QED
      BY <2>1, <2>2, <2>3, <2>4 DEF Next, Answers, Enters, Works, Refuse, Attach, ReadState, UnlockBegin,
         UseBegin, UseDegrades, LockBegin, BackendUnlocks, BackendRefuses, Install, OperationEnds,
         LockEnd, Panic
  <1>2. QED
    BY <1>1, Invariance, PTL DEF Spec, ReleasedBeforeAnswer

-----------------------------------------------------------------------------
(* The session implements the exclusion the keyslot changes rely on.       *)

\* Whoever uses the vault is inside, in an operation.
Usage ==
  /\ mutex = Nobody => User = Nobody
  /\ \A c \in Callers : User = c <=> pc[c] = "operating"
  /\ User # Nobody => User \in Callers

\* The invariant says who uses the vault.
LEMMA Users == IInv => Usage
  BY SessionAssumption DEF IInv, Excluded, Inside, User, Usage

\* Seen from outside, every step unlocks, begins or ends a use, locks, or is none
\* of that.
LEMMA StepExcludes == IInv /\ [Next]_vars => [Exclusive!Next]_<<live # {}, User>>
  <1> SUFFICES ASSUME IInv, [Next]_vars PROVE [Exclusive!Next]_<<live # {}, User>>
    OBVIOUS
  <1> DEFINE Outside == [Exclusive!Next]_<<live # {}, User>>
             Seen(up, who) == (live' # {}) = up /\ User' = who
  <1>1. IInv' /\ Usage /\ Usage'
    <2>1. IInv'
      BY StepPreserves
    <2>2. Usage'
      BY <2>1, Users, PTL
    <2>3. QED
      BY <2>1, <2>2, Users
  <1>2. ASSUME Seen(live # {}, User) PROVE Outside
    BY <1>2
  <1>3. ASSUME live = {}, User = Nobody, Seen(TRUE, Nobody) PROVE Outside
    BY <1>3 DEF Exclusive!Next, Exclusive!Unlock
  <1>4. ASSUME NEW c \in Callers, live # {}, User = Nobody, Seen(TRUE, c) PROVE Outside
    BY <1>4 DEF Exclusive!Next, Exclusive!Begin
  <1>5. ASSUME User # Nobody, Seen(live # {}, Nobody) PROVE Outside
    BY <1>5 DEF Exclusive!Next, Exclusive!End
  <1>6. ASSUME live # {}, User = Nobody, Seen(FALSE, Nobody) PROVE Outside
    BY <1>6 DEF Exclusive!Next, Exclusive!Lock
  <1> HIDE DEF Outside
  <1>7. ASSUME UNCHANGED live, \A c \in Callers : pc[c] = "operating" <=> pc'[c] = "operating" PROVE Outside
    <2>1. User' = User
      BY <1>1, <1>7, SessionAssumption DEF Usage
    <2>2. QED
      BY <1>2, <1>7, <2>1
  <1> USE SessionAssumption DEF Goto, Holding, Enter, Leave, Entered, Admitted, Calls
  <1>8. ASSUME NEW c \in Callers, NEW call \in Calls, Request(c, call) \/ Refuse(c, call) PROVE Outside
    BY <1>7, <1>8 DEF Request, Refuse, IInv, TypeOK
  <1>9. ASSUME NEW c \in Callers, Attach(c) \/ ReadState(c) \/ UnlockBegin(c) \/ UseDegrades(c) \/ LockBegin(c)
        PROVE Outside
    BY <1>7, <1>9 DEF Attach, ReadState, UnlockBegin, UseDegrades, LockBegin, IInv, TypeOK
  <1>10. ASSUME NEW c \in Callers, FailClosed(c) PROVE Outside
    <2>1. User = Nobody /\ User' = Nobody /\ live' = {}
      <3>1. mutex = Nobody /\ mutex' = Nobody
        BY <1>10 DEF FailClosed, Free
      <3>2. live = {active} \ {NoHandle}
        BY <3>1 DEF IInv, Excluded, Released, Inside
      <3>3. QED
        BY <1>1, <1>10, <3>1, <3>2 DEF Usage, FailClosed, ActiveAfterPoison
    <2>2. QED
      BY <1>2, <1>6, <2>1
  <1>11. ASSUME NEW c \in Callers, NEW sound \in BOOLEAN, BackendUnlocks(c, sound) PROVE Outside
    <2>1. live = {}
      <3>1. \A d \in Callers : pc[d] # "installing"
        BY <1>11 DEF BackendUnlocks, IInv, Excluded, Inside
      <3>2. QED
        BY <1>11, <3>1 DEF BackendUnlocks, IInv, Places, Released
    <2>2. User = Nobody /\ User' = Nobody
      <3>1. mutex = c /\ mutex' = c /\ pc[c] # "operating" /\ pc'[c] # "operating"
        BY <1>11 DEF BackendUnlocks, IInv, TypeOK, Excluded, Inside
      <3>2. QED
        BY <3>1, <1>1 DEF User
    <2>3. live' # {}
      BY <1>11 DEF BackendUnlocks
    <2>4. QED
      BY <1>3, <2>1, <2>2, <2>3
  <1>12. ASSUME NEW c \in Callers, BackendRefuses(c) PROVE Outside
    <2>1. active = NoHandle /\ live = {}
      <3>1. \A d \in Callers : pc[d] # "installing"
        BY <1>12 DEF BackendRefuses, IInv, Excluded, Inside
      <3>2. QED
        BY <1>12, <3>1 DEF BackendRefuses, IInv, Places, Released
    <2>2. QED
      BY <1>7, <1>12, <2>1 DEF BackendRefuses, IInv, TypeOK
  <1>13. ASSUME NEW c \in Callers, Install(c) PROVE Outside
    <2>1. live = {held[c]} /\ active = NoHandle /\ held[c] # NoHandle
      BY <1>13 DEF Install, IInv, Places
    <2>2. UNCHANGED live
      BY <1>13, <2>1 DEF Install
    <2>3. QED
      BY <1>7, <1>13, <2>2 DEF Install, IInv, TypeOK
  <1>14. ASSUME NEW c \in Callers, UseBegin(c) PROVE Outside
    <2>1. User = Nobody /\ live # {} /\ UNCHANGED live
      BY <1>1, <1>14 DEF UseBegin, Free, Usage, IInv, TypeOK
    <2>2. User' = c
      BY <1>14 DEF UseBegin, User, IInv, TypeOK
    <2>3. QED
      BY <1>4, <2>1, <2>2
  <1>15. ASSUME NEW c \in Callers, OperationEnds(c) PROVE Outside
    <2>1. User # Nobody /\ User' = Nobody /\ UNCHANGED live
      BY <1>1, <1>15 DEF OperationEnds, Usage
    <2>2. QED
      BY <1>5, <2>1
  <1>16. ASSUME NEW c \in Callers, LockEnd(c) PROVE Outside
    <2>1. mutex = c /\ mutex' = Nobody
      BY <1>16 DEF LockEnd, IInv, Excluded, Inside
    <2>2. User = Nobody /\ User' = Nobody
      BY <1>1, <1>16, <2>1 DEF LockEnd, Usage, User
    <2>3. live' = {}
      <3>1. \A d \in Callers : pc[d] # "installing"
        BY <1>16, <2>1 DEF LockEnd, IInv, Excluded, Inside
      <3>2. QED
        BY <1>16, <3>1 DEF LockEnd, AfterDrop, IInv, Released
    <2>4. QED
      BY <1>2, <1>6, <2>2, <2>3
  <1>17. ASSUME NEW c \in Callers, Panic(c) PROVE Outside
    <2>1. mutex = c /\ User' = Nobody
      BY <1>1, <1>17 DEF Panic, IInv, Excluded, Inside, Usage
    <2>2. CASE pc[c] = "operating"
      <3>1. User # Nobody /\ UNCHANGED live
        BY <1>1, <1>17, <2>2 DEF Panic, Usage
      <3>2. QED
        BY <1>5, <2>1, <3>1
    <2>3. CASE pc[c] = "unlocking"
      BY <1>7, <1>17, <2>3 DEF Panic, IInv, TypeOK
    <2>4. CASE pc[c] = "installing"
      <3>1. live = {held[c]} /\ live' = {} /\ User = Nobody
        BY <1>17, <2>1, <2>4 DEF Panic, IInv, Places, User
      <3>2. QED
        BY <1>6, <2>1, <3>1
    <2>5. QED
      BY <1>17, <2>2, <2>3, <2>4 DEF Panic
  <1>18. ASSUME Damage \/ UNCHANGED vars PROVE Outside
    BY <1>7, <1>18 DEF Damage, vars
  <1>19. Outside
    BY <1>8, <1>9, <1>10, <1>11, <1>12, <1>13, <1>14, <1>15, <1>16, <1>17, <1>18
       DEF Next, Answers, Enters, Works
  <1>20. QED
    BY <1>19 DEF Outside

\* From outside, the session is an exclusive vault: one handle at a time, one user
\* at a time, and no lock or unlock while it is used.
THEOREM SpecImplementsExclusiveVault == Spec => ImplementsExclusiveVault
  <1>1. Init => Exclusive!Init
    BY SessionAssumption DEF Init, Exclusive!Init, User
  <1>2. QED
    BY <1>1, StepExcludes, Invariance, PTL DEF Spec, ImplementsExclusiveVault, Exclusive!Spec, Exclusive!vars
=============================================================================
