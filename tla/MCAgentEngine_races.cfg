CONSTANTS
  Replies <- MCReplies
  Nil = Nil
  Sessions = {s1}
  Approvals = {a1, a2}
  Requests = {r1, r2}
  MaxSessions = 1
  MaxMessages = 4
  MaxRounds = 1
  MaxCalls = 2
  MaxTurns = 2
SYMMETRY Alike
SPECIFICATION Spec
INVARIANTS
  IInv
  TranscriptIsAccounted
  RequestsAreTaken
PROPERTIES
  ImplementsGate
  PendingFreezesSession
CHECK_DEADLOCK FALSE
