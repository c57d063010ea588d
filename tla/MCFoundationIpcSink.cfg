SPECIFICATION Spec
CONSTANTS
  Ports = {tauri, injected}
  Native = tauri
  MaxRequests = 3
INVARIANTS
  DiagnosticsNeverFail
