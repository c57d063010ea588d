---------------------------- MODULE FoundationIpc ----------------------------
(***************************************************************************)
(* The foundation_status command from the renderer's hook to the sink of   *)
(* the diagnostics and back (apps/desktop/src, apps/desktop/src-tauri,     *)
(* dvm-application FoundationService, dvm-observability).                  *)
(*                                                                         *)
(* Every run of the hook's effect sends one request.  Answers come in any  *)
(* order, late or never; StrictMode or a new port reruns the effect of a   *)
(* mounted component, which keeps what it shows.  The port Native is the   *)
(* Tauri adapter; any other port is injected and may reject with anything. *)
(* External: the transport, React, the file behind the sink, and a backend *)
(* or renderer of another build.                                           *)
(***************************************************************************)
EXTENDS Naturals, Sequences

CONSTANTS
  Ports, Native,
  MaxRequests    \* bound: runs of the effect

ASSUME IpcAssumption == Native \in Ports /\ MaxRequests \in Nat

VARIABLES
  agreed,      \* the contract versions of renderer and backend are equal
  sink,        \* DVM_G0_DIAGNOSTICS_FILE: unset, works or fails
  requests,    \* per effect run: its port, stage, raw answer and what emit returned
  cancelled,   \* effect runs that were cleaned up
  current,     \* the effect run of the mounted component, or 0
  shown        \* FoundationState, with the effect run that set it

vars == <<agreed, sink, requests, cancelled, current, shown>>

Runs == 1..MaxRequests
Raws == {"compatible", "incompatible", "misshapen", "envelope", "other"}
Emits == {"none", "StdoutOnly", "StdoutAndSink", "SinkFailed"}
Requests == [port : Ports, stage : {"sent", "answered", "settled"},
             raw : Raws \cup {"none"}, emit : Emits]

Kinds == {"loading", "ready", "error"}
Causes == {"none", "backend", "renderer-transport", "renderer-unclassified"}
View(kind, compatible, cause, run) ==
  [kind |-> kind, compatible |-> compatible, cause |-> cause, run |-> run]
Views == [kind : Kinds, compatible : BOOLEAN, cause : Causes, run : Runs \cup {0}]
Loading == View("loading", FALSE, "none", 0)

\* Only an existing effect run is current, cancelled or shown.
TypeOK ==
  /\ agreed \in BOOLEAN /\ sink \in {"unset", "works", "fails"}
  /\ requests \in Seq(Requests) /\ Len(requests) <= MaxRequests
  /\ cancelled \subseteq 1..Len(requests)
  /\ current \in 0..Len(requests) /\ current \notin cancelled
  /\ shown \in Views /\ shown.run <= Len(requests)

-----------------------------------------------------------------------------
(* Decisions of the code; those marked "mutant" are slips the properties   *)
(* must detect and are not used.                                           *)

NeverCancelled(id) == FALSE                   \* mutant: no cleanup of the effect
Cancelled(id) == id \in cancelled

FailureIgnored(outcome) == "status"           \* mutant: status returned whatever emit says
CommandResult(outcome) == IF outcome = "SinkFailed" THEN "envelope" ELSE "status"

\* DiagnosticEvent::emit: standard output always, the sink when it is configured.
EmitOutcome == [unset |-> "StdoutOnly", works |-> "StdoutAndSink", fails |-> "SinkFailed"]

\* The payload of a backend of another build may not have the shape of this one.
StatusPayloads == IF agreed THEN {"compatible"} ELSE {"incompatible", "misshapen"}
RawResults(outcome) == IF CommandResult(outcome) = "envelope" THEN {"envelope"} ELSE StatusPayloads

\* isFoundationStatus and isAppError of parse.ts, toAppError of tauri-adapter.ts.
IsFoundationStatus(raw) == raw \in {"compatible", "incompatible"}
IsAppError(answer) == answer \in {"envelope", "renderer-transport"}
Adapted(raw) == IF IsFoundationStatus(raw) \/ raw = "envelope" THEN raw ELSE "renderer-transport"
PortAnswer(port, raw) == IF port = Native THEN Adapted(raw) ELSE raw

\* The error state keeps an envelope and replaces what is none.
Cause(answer) ==
  IF ~IsAppError(answer) THEN "renderer-unclassified"
  ELSE IF answer = "envelope" THEN "backend" ELSE answer

StateFor(id, answer) ==
  IF IsFoundationStatus(answer)
  THEN View("ready", answer = "compatible", "none", id)
  ELSE View("error", FALSE, Cause(answer), id)

\* describe(): the word the panel shows.
Described(view) ==
  CASE view.kind = "loading" -> "Connecting"
    [] view.kind = "ready" -> IF view.compatible THEN "Connected" ELSE "Incompatible"
    [] view.kind = "error" -> "Unavailable"

\* The panel: the word, the backend's versions when ready, the envelope when in error.
Panel(view) ==
  [word |-> Described(view), versions |-> view.kind = "ready",
   error |-> IF view.kind = "error" THEN view.cause ELSE "none"]

-----------------------------------------------------------------------------
Init ==
  /\ agreed \in BOOLEAN /\ sink \in {"unset", "works", "fails"}
  /\ requests = <<>> /\ cancelled = {} /\ current = 0 /\ shown = Loading

\* The effect runs: one request, owned by this run.
RunEffect(port) ==
  /\ Len(requests) < MaxRequests
  /\ requests' = Append(requests, [port |-> port, stage |-> "sent", raw |-> "none", emit |-> "none"])
  /\ current' = Len(requests')
  /\ UNCHANGED <<agreed, sink>>

\* A new component starts with the loading state.
Mount(port) ==
  /\ current = 0
  /\ RunEffect(port)
  /\ shown' = Loading
  /\ UNCHANGED cancelled

\* StrictMode, or a render with another port: clean up, then run again.
Rerun(port) ==
  /\ current # 0
  /\ RunEffect(port)
  /\ cancelled' = cancelled \cup {current}
  /\ UNCHANGED shown

Unmount ==
  /\ current # 0
  /\ cancelled' = cancelled \cup {current}
  /\ current' = 0
  /\ shown' = Loading
  /\ UNCHANGED <<agreed, sink, requests>>

Answered(id, raw, emit) ==
  requests' = [requests EXCEPT
                 ![id] = [port |-> @.port, stage |-> "answered", raw |-> raw, emit |-> emit]]

\* The command: build the status, emit the event, answer by the outcome.
Serve(id) ==
  /\ requests[id].stage = "sent" /\ requests[id].port = Native
  /\ \E raw \in RawResults(EmitOutcome[sink]) : Answered(id, raw, EmitOutcome[sink])
  /\ UNCHANGED <<agreed, sink, cancelled, current, shown>>

\* The command never reached the backend, or its answer got lost on the way.
TransportFails(id) ==
  /\ requests[id].stage # "settled" /\ requests[id].port = Native
  /\ Answered(id, "other", requests[id].emit)
  /\ UNCHANGED <<agreed, sink, cancelled, current, shown>>

InjectedAnswers(id, raw) ==
  /\ requests[id].stage = "sent" /\ requests[id].port # Native
  /\ Answered(id, raw, "none")
  /\ UNCHANGED <<agreed, sink, cancelled, current, shown>>

\* The promise settles in the renderer.
Settle(id) ==
  /\ requests[id].stage = "answered"
  /\ requests' = [requests EXCEPT ![id] = [@ EXCEPT !.stage = "settled"]]
  /\ shown' = IF Cancelled(id) THEN shown ELSE StateFor(id, PortAnswer(requests[id].port, requests[id].raw))
  /\ UNCHANGED <<agreed, sink, cancelled, current>>

\* The operator points the variable elsewhere, or the disk fails or recovers.
SinkChanges(state) ==
  /\ sink' = state
  /\ UNCHANGED <<agreed, requests, cancelled, current, shown>>

Next ==
  \/ \E port \in Ports : Mount(port) \/ Rerun(port)
  \/ Unmount
  \/ \E id \in 1..Len(requests) :
       \/ Serve(id) \/ TransportFails(id) \/ Settle(id)
       \/ \E raw \in Raws \ {"misshapen"} : InjectedAnswers(id, raw)
  \/ \E state \in {"unset", "works", "fails"} : SinkChanges(state)

Spec == Init /\ [][Next]_vars

-----------------------------------------------------------------------------
(* Properties                                                              *)

\* Once the mounted effect's own request has settled, the panel shows its answer,
\* whenever the answers of earlier effect runs, mounts or ports come in.
NewestAnswerWins ==
  current # 0 /\ requests[current].stage = "settled" =>
    shown = StateFor(current, PortAnswer(requests[current].port, requests[current].raw))

\* Versions shown through the native port are those of a backend that served this
\* request and, where a sink was configured, left its event there; "Connected" says
\* that its contract is this renderer's, "Incompatible" that it is not; an error
\* with a backend's classification is one the backend gave to this request.
ShownHasEvidence ==
  LET panel == Panel(shown) IN
  shown.run # 0 /\ requests[shown.run].port = Native =>
    /\ panel.versions => requests[shown.run].emit \in {"StdoutOnly", "StdoutAndSink"}
    /\ panel.word = "Connected" => agreed
    /\ panel.word = "Incompatible" => ~agreed
    /\ panel.error = "backend" => requests[shown.run].emit = "SinkFailed"

\* dvm-observability lib.rs:128: "diagnostics must never be able to fail an
\* operation the user asked for".
DiagnosticsNeverFail ==
  \A id \in 1..Len(requests) :
    requests[id].emit = "SinkFailed" => requests[id].raw # "envelope"
=============================================================================
