SPECIFICATION Spec
CONSTANTS
  Callers = {c1, c2}
  Nobody = Nobody
  Secrets = {s1, s2}
  Malformed = Malformed
  None = None
  MaxOutside = 2
SYMMETRY Symmetry
INVARIANTS
  AnswersTruthful
  ConfiguredTruthful
  ForbiddenClassRemoved
  AcknowledgedIsStored
