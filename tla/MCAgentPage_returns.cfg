CONSTANTS
  Nil = Nil
  Sessions = {s1, s2}
  Approvals = {a1}
  Requests = {r1, r2}
  MaxSessions = 1
  MaxMessages = 2
  MaxRounds = 1
  MaxCalls = 1
  MaxTurns = 2
SPECIFICATION FairPageSpec
ACTION_CONSTRAINT InOrder
INVARIANTS
  SessionsBounded
  NoSessionIsLost
  ShownCanBeAnswered
  WaitingIsShown
PROPERTIES
  PageSettles
CHECK_DEADLOCK FALSE
