------------------------- MODULE FoundationIpc_proofs -------------------------
(***************************************************************************)
(* Proofs about FoundationIpc for any set of ports and any number of       *)
(* effect runs.                                                            *)
(***************************************************************************)
EXTENDS FoundationIpc, SequenceTheorems, TLAPS

\* The panel's answer to an effect run.
AnswerOf(id) == StateFor(id, PortAnswer(requests[id].port, requests[id].raw))

\* Every effect run but the current one has been cleaned up.
OneRun == \A id \in 1..Len(requests) : id \notin cancelled => id = current

\* What is shown is the loading state or the answer of a settled run.
ShownInv ==
  IF shown.run = 0 THEN shown = Loading
  ELSE requests[shown.run].stage = "settled" /\ shown = AnswerOf(shown.run)

\* A status or a refusal of the backend comes with what emit returned for it.
ServedInv ==
  \A id \in 1..Len(requests) : requests[id].port = Native =>
    /\ requests[id].raw \in {"compatible", "incompatible"} =>
         requests[id].emit \in {"StdoutOnly", "StdoutAndSink"}
    /\ requests[id].raw = "compatible" => agreed
    /\ requests[id].raw = "incompatible" => ~agreed
    /\ requests[id].raw = "envelope" => requests[id].emit = "SinkFailed"

IInv == TypeOK /\ OneRun /\ ShownInv /\ ServedInv /\ NewestAnswerWins

-----------------------------------------------------------------------------
(* The steps of one request.                                               *)

\* A step that changes one request leaves the others, and its port, alone.
LEMMA OneChanged ==
  ASSUME requests \in Seq(Requests), NEW id \in 1..Len(requests), NEW r \in Requests,
         requests' = [requests EXCEPT ![id] = r]
  PROVE  /\ requests' \in Seq(Requests) /\ Len(requests') = Len(requests)
         /\ requests'[id] = r
         /\ \A k \in 1..Len(requests) \ {id} : requests'[k] = requests[k]
  BY ExceptSeq

\* How an answer changes the request.
LEMMA AnsweredChanges ==
  ASSUME TypeOK, NEW id \in 1..Len(requests), NEW raw \in Raws, NEW emit \in Emits,
         Answered(id, raw, emit)
  PROVE  /\ requests' \in Seq(Requests) /\ Len(requests') = Len(requests)
         /\ requests'[id] = [port |-> requests[id].port, stage |-> "answered", raw |-> raw, emit |-> emit]
         /\ \A k \in 1..Len(requests) \ {id} : requests'[k] = requests[k]
  <1> DEFINE r == [port |-> requests[id].port, stage |-> "answered", raw |-> raw, emit |-> emit]
  <1>1. requests[id] \in Requests
    BY ElementOfSeq DEF TypeOK
  <1>2. r \in Requests
    BY <1>1 DEF Requests
  <1>3. requests' = [requests EXCEPT ![id] = r]
    BY DEF Answered
  <1>4. QED
    BY <1>2, <1>3, OneChanged DEF TypeOK

\* A new effect run is added at the end.
LEMMA RunAppends ==
  ASSUME TypeOK, NEW port \in Ports, RunEffect(port)
  PROVE  /\ requests' \in Seq(Requests) /\ Len(requests') = Len(requests) + 1
         /\ Len(requests') <= MaxRequests
         /\ current' = Len(requests')
         /\ requests'[Len(requests')] = [port |-> port, stage |-> "sent", raw |-> "none", emit |-> "none"]
         /\ \A k \in 1..Len(requests) : requests'[k] = requests[k]
  <1> DEFINE r == [port |-> port, stage |-> "sent", raw |-> "none", emit |-> "none"]
  <1>1. r \in Requests
    BY DEF Requests, Emits
  <1>2. requests' = Append(requests, r) /\ Len(requests) \in Nat
    BY LenProperties DEF RunEffect, TypeOK
  <1>3. Len(requests') <= MaxRequests
    BY <1>1, <1>2, AppendProperties, IpcAssumption DEF RunEffect, TypeOK
  <1>4. QED
    BY <1>1, <1>2, <1>3, AppendProperties DEF RunEffect, TypeOK

-----------------------------------------------------------------------------
(* IInv is inductive.                                                      *)

\* The initial states satisfy the invariant.
LEMMA InitEstablishes == Init => IInv
  <1> SUFFICES ASSUME Init PROVE IInv
    OBVIOUS
  <1>1. Loading \in Views /\ Loading.run = 0
    BY DEF Loading, View, Views, Kinds, Causes
  <1>2. requests \in Seq(Requests) /\ Len(requests) = 0
    BY EmptySeq DEF Init
  <1>3. agreed \in BOOLEAN
    BY Zenon DEF Init
  <1>4. TypeOK
    BY <1>1, <1>2, <1>3, IpcAssumption DEF Init, TypeOK
  <1>5. OneRun /\ ShownInv /\ ServedInv /\ NewestAnswerWins
    BY <1>1, <1>2 DEF Init, OneRun, ShownInv, ServedInv, NewestAnswerWins
  <1>6. QED
    BY <1>4, <1>5 DEF IInv

\* Adding a run keeps what is shown valid.
LEMMA MountPreserves ==
  ASSUME IInv, NEW port \in Ports, Mount(port) \/ Rerun(port) PROVE IInv'
  <1> USE DEF IInv
  <1>1. RunEffect(port) /\ TypeOK
    BY DEF Mount, Rerun
  <1>2. /\ requests' \in Seq(Requests) /\ Len(requests') = Len(requests) + 1
        /\ Len(requests') <= MaxRequests
        /\ current' = Len(requests')
        /\ requests'[Len(requests')] = [port |-> port, stage |-> "sent", raw |-> "none", emit |-> "none"]
        /\ \A k \in 1..Len(requests) : requests'[k] = requests[k]
    BY <1>1, RunAppends
  <1>3. Len(requests) \in Nat /\ Loading \in Views /\ Loading.run = 0
    BY <1>1, LenProperties DEF TypeOK, Loading, View, Views, Kinds, Causes
  <1>4. agreed' = agreed /\ sink' = sink
    BY <1>1, Zenon DEF RunEffect
  <1>5. shown' \in {shown, Loading} /\ shown.run \in 0..Len(requests)
    BY <1>3, SMT DEF Mount, Rerun, TypeOK, Views, Runs
  <1>6. /\ cancelled' = cancelled \/ cancelled' = cancelled \cup {current}
        /\ current \in 1..Len(requests) => current \in cancelled'
    BY DEF Mount, Rerun, TypeOK
  <1>7. TypeOK'
    <2>1. agreed' \in BOOLEAN /\ sink' \in {"unset", "works", "fails"}
      BY <1>4, Zenon DEF TypeOK
    <2>2. cancelled' \subseteq 1..Len(requests) /\ current' \notin cancelled'
      BY <1>2, <1>3, <1>6 DEF Mount, Rerun, TypeOK
    <2>3. QED
      BY <2>1, <2>2, <1>2, <1>3, <1>5 DEF TypeOK
  <1>8. OneRun'
    BY <1>2, <1>3, <1>6 DEF OneRun
  <1>9. ShownInv'
    BY <1>2, <1>3, <1>5 DEF ShownInv, AnswerOf
  <1>10. ServedInv'
    BY <1>2, <1>3, <1>4 DEF ServedInv
  <1>11. NewestAnswerWins'
    BY <1>2 DEF NewestAnswerWins
  <1>12. QED
    BY <1>7, <1>8, <1>9, <1>10, <1>11

\* An answer that arrives in the renderer changes nothing that is shown.
LEMMA AnsweredPreserves ==
  ASSUME IInv, NEW id \in 1..Len(requests), NEW raw \in Raws, NEW emit \in Emits,
         requests[id].stage # "settled", Answered(id, raw, emit),
         UNCHANGED <<agreed, sink, cancelled, current, shown>>,
         requests[id].port = Native =>
           /\ raw \in {"compatible", "incompatible"} => emit \in {"StdoutOnly", "StdoutAndSink"}
           /\ raw = "compatible" => agreed
           /\ raw = "incompatible" => ~agreed
           /\ raw = "envelope" => emit = "SinkFailed"
  PROVE  IInv'
  <1> USE DEF IInv
  <1>1. /\ requests' \in Seq(Requests) /\ Len(requests') = Len(requests)
        /\ requests'[id] = [port |-> requests[id].port, stage |-> "answered", raw |-> raw, emit |-> emit]
        /\ \A k \in 1..Len(requests) \ {id} : requests'[k] = requests[k]
    BY AnsweredChanges
  <1>2. TypeOK'
    BY <1>1 DEF TypeOK
  <1>3. OneRun' /\ ServedInv'
    BY <1>1 DEF OneRun, ServedInv
  <1>4. ShownInv'
    BY <1>1 DEF ShownInv, AnswerOf, TypeOK, Views, Runs
  <1>5. NewestAnswerWins'
    BY <1>1 DEF NewestAnswerWins, TypeOK
  <1>6. QED
    BY <1>2, <1>3, <1>4, <1>5

\* Only the current run may still set the state, and it sets its own answer.
LEMMA SettlePreserves ==
  ASSUME IInv, NEW id \in 1..Len(requests), Settle(id) PROVE IInv'
  <1> USE DEF IInv
  <1> DEFINE r == [port |-> requests[id].port, stage |-> "settled", raw |-> requests[id].raw,
                   emit |-> requests[id].emit]
  <1>1. requests[id] \in Requests
    BY ElementOfSeq DEF TypeOK
  <1>2. requests' = [requests EXCEPT ![id] = r] /\ r \in Requests
    <2>1. r = [requests[id] EXCEPT !.stage = "settled"] /\ r \in Requests
      BY <1>1 DEF Requests
    <2>2. requests' = [requests EXCEPT ![id] = [requests[id] EXCEPT !.stage = "settled"]]
      BY DEF Settle
    <2>3. QED
      BY <2>1, <2>2
  <1>3. /\ requests' \in Seq(Requests) /\ Len(requests') = Len(requests)
        /\ requests'[id] = r
        /\ \A k \in 1..Len(requests) \ {id} : requests'[k] = requests[k]
    BY <1>2, OneChanged DEF TypeOK
  <1>4. UNCHANGED <<agreed, sink, cancelled, current>>
    BY DEF Settle
  <1>5. /\ AnswerOf(id) \in Views /\ AnswerOf(id).run = id
        /\ AnswerOf(id) = StateFor(id, PortAnswer(requests'[id].port, requests'[id].raw))
    <2> DEFINE answer == PortAnswer(requests[id].port, requests[id].raw)
    <2>1. id \in Runs
      BY IpcAssumption DEF Runs, TypeOK
    <2>2. Cause(answer) \in Causes
      BY DEF Cause, IsAppError, Causes
    <2>3. (answer = "compatible") \in BOOLEAN
      BY Zenon
    <2>4. View("ready", answer = "compatible", "none", id) \in Views
      BY <2>1, <2>3 DEF View, Views, Kinds, Causes
    <2>5. View("error", FALSE, Cause(answer), id) \in Views
      BY <2>1, <2>2 DEF View, Views, Kinds
    <2>6. AnswerOf(id).run = id
      BY DEF AnswerOf, StateFor, View
    <2>7. requests'[id].port = requests[id].port /\ requests'[id].raw = requests[id].raw
      BY <1>3
    <2>8. QED
      BY <2>4, <2>5, <2>6, <2>7, Zenon DEF AnswerOf, StateFor
  <1>6. CASE id \in cancelled
    <2>1. shown' = shown /\ id # current
      BY <1>6 DEF Settle, Cancelled, TypeOK
    <2>2. TypeOK'
      BY <2>1, <1>3, <1>4 DEF TypeOK
    <2>3. OneRun' /\ ServedInv'
      BY <1>3, <1>4 DEF OneRun, ServedInv
    <2>4. ShownInv'
      BY <2>1, <1>3 DEF ShownInv, AnswerOf, TypeOK, Views, Runs
    <2>5. NewestAnswerWins'
      BY <2>1, <1>3, <1>4 DEF NewestAnswerWins, TypeOK
    <2>6. QED
      BY <2>2, <2>3, <2>4, <2>5
  <1>7. CASE id \notin cancelled
    <2>1. shown' = AnswerOf(id) /\ id = current
      BY <1>7 DEF Settle, Cancelled, AnswerOf, OneRun
    <2>2. TypeOK'
      BY <2>1, <1>3, <1>4, <1>5 DEF TypeOK
    <2>3. OneRun' /\ ServedInv'
      BY <1>3, <1>4 DEF OneRun, ServedInv
    <2>4. ShownInv'
      BY <2>1, <1>3, <1>5 DEF ShownInv, AnswerOf
    <2>5. NewestAnswerWins'
      BY <2>1, <1>3, <1>4, <1>5 DEF NewestAnswerWins
    <2>6. QED
      BY <2>2, <2>3, <2>4, <2>5
  <1>8. QED
    BY <1>6, <1>7

\* Every step preserves the invariant, action by action.
LEMMA StepPreserves == IInv /\ [Next]_vars => IInv'
  <1> SUFFICES ASSUME IInv, [Next]_vars PROVE IInv'
    OBVIOUS
  <1>1. ASSUME NEW port \in Ports, Mount(port) \/ Rerun(port) PROVE IInv'
    BY <1>1, MountPreserves
  <1>2. ASSUME Unmount PROVE IInv'
    <2>1. Loading \in Views /\ Loading.run = 0
      BY DEF Loading, View, Views, Kinds, Causes
    <2>2. QED
      BY <1>2, <2>1 DEF Unmount, IInv, TypeOK, OneRun, ShownInv, ServedInv, NewestAnswerWins, AnswerOf
  <1>3. ASSUME NEW id \in 1..Len(requests), Serve(id) PROVE IInv'
    <2> DEFINE outcome == EmitOutcome[sink]
    <2>1. PICK raw \in RawResults(outcome) : Answered(id, raw, outcome)
      BY <1>3 DEF Serve
    <2>2. outcome \in Emits \ {"none"}
      BY DEF IInv, TypeOK, EmitOutcome, Emits
    <2>3. /\ raw \in Raws
          /\ raw \in {"compatible", "incompatible"} => outcome \in {"StdoutOnly", "StdoutAndSink"}
          /\ raw = "compatible" => agreed
          /\ raw = "incompatible" => ~agreed
          /\ raw = "envelope" => outcome = "SinkFailed"
      BY <2>1, <2>2 DEF RawResults, CommandResult, StatusPayloads, Raws, Emits
    <2>4. UNCHANGED <<agreed, sink, cancelled, current, shown>> /\ requests[id].stage # "settled"
      BY <1>3 DEF Serve
    <2>5. QED
      BY <2>1, <2>2, <2>3, <2>4, AnsweredPreserves
  <1>4. ASSUME NEW id \in 1..Len(requests), TransportFails(id) PROVE IInv'
    <2>1. requests[id] \in Requests
      BY ElementOfSeq DEF IInv, TypeOK
    <2>2. QED
      BY <1>4, <2>1, AnsweredPreserves DEF TransportFails, Requests, Raws
  <1>5. ASSUME NEW id \in 1..Len(requests), NEW raw \in Raws, InjectedAnswers(id, raw) PROVE IInv'
    BY <1>5, AnsweredPreserves DEF InjectedAnswers, Emits
  <1>6. ASSUME NEW id \in 1..Len(requests), Settle(id) PROVE IInv'
    BY <1>6, SettlePreserves
  <1>7. ASSUME NEW state \in {"unset", "works", "fails"}, SinkChanges(state) PROVE IInv'
    BY <1>7 DEF SinkChanges, IInv, TypeOK, OneRun, ShownInv, ServedInv, NewestAnswerWins, AnswerOf
  <1>8. CASE UNCHANGED vars
    BY <1>8 DEF vars, IInv, TypeOK, OneRun, ShownInv, ServedInv, NewestAnswerWins, AnswerOf
  <1>9. QED
    BY <1>1, <1>2, <1>3, <1>4, <1>5, <1>6, <1>7, <1>8 DEF Next

\* The invariant holds in every reachable state.
LEMMA Invariance == Spec => []IInv
  BY InitEstablishes, StepPreserves, PTL DEF Spec

-----------------------------------------------------------------------------
(* Invariants.                                                             *)

\* Only an existing effect run is current, cancelled or shown.
THEOREM SpecTypeOK == Spec => []TypeOK
  <1>1. IInv => TypeOK
    BY DEF IInv
  <1>2. QED
    BY <1>1, Invariance, PTL

\* The answer of the mounted effect is what the panel shows, in whatever order
\* the answers of earlier runs come in.
THEOREM SpecNewestAnswerWins == Spec => []NewestAnswerWins
  <1>1. IInv => NewestAnswerWins
    BY DEF IInv
  <1>2. QED
    BY <1>1, Invariance, PTL

\* What is shown as the backend's word is the backend's word, with its event.
THEOREM SpecShownHasEvidence == Spec => []ShownHasEvidence
  <1>1. IInv => ShownHasEvidence
    <2> SUFFICES ASSUME IInv, shown.run # 0, requests[shown.run].port = Native
                 PROVE ShownHasEvidence
      BY DEF ShownHasEvidence
    <2> DEFINE id == shown.run
    <2>1. id \in 1..Len(requests) /\ requests[id] \in Requests
      BY ElementOfSeq DEF IInv, TypeOK, Views, Runs
    <2>2. shown = StateFor(id, Adapted(requests[id].raw))
      BY DEF IInv, ShownInv, AnswerOf, PortAnswer
    <2>3. /\ shown.kind = "ready" => requests[id].raw \in {"compatible", "incompatible"}
          /\ Described(shown) = "Connected" => requests[id].raw = "compatible"
          /\ Described(shown) = "Incompatible" => requests[id].raw = "incompatible"
          /\ shown.cause = "backend" => requests[id].raw = "envelope"
      <3> DEFINE raw == requests[id].raw
      <3>1. CASE IsFoundationStatus(raw)
        <4>1. shown = View("ready", raw = "compatible", "none", id)
          BY <2>2, <3>1 DEF StateFor, Adapted
        <4>2. shown.kind = "ready" /\ shown.cause = "none"
          BY <4>1 DEF View
        <4>3. shown.compatible = (raw = "compatible")
          <5>1. ASSUME NEW here PROVE View("ready", here, "none", id).compatible = here
            BY Zenon DEF View
          <5>2. QED
            BY <4>1, <5>1, Zenon
        <4>4. Described(shown) = IF shown.compatible THEN "Connected" ELSE "Incompatible"
          BY <4>2 DEF Described
        <4>5. QED
          BY <3>1, <4>2, <4>3, <4>4 DEF IsFoundationStatus
      <3>2. CASE ~IsFoundationStatus(raw)
        BY <2>2, <3>2 DEF StateFor, View, Adapted, IsFoundationStatus, IsAppError, Cause, Described
      <3>3. QED
        BY <3>1, <3>2
    <2>4. /\ requests[id].raw \in {"compatible", "incompatible"} =>
               requests[id].emit \in {"StdoutOnly", "StdoutAndSink"}
          /\ requests[id].raw = "compatible" => agreed
          /\ requests[id].raw = "incompatible" => ~agreed
          /\ requests[id].raw = "envelope" => requests[id].emit = "SinkFailed"
      BY <2>1 DEF IInv, ServedInv
    <2>5. QED
      BY <2>3, <2>4 DEF Panel, ShownHasEvidence
  <1>2. QED
    BY <1>1, Invariance, PTL
=============================================================================
