SPECIFICATION FairSession
CONSTANTS
  Code = {c1, c2}
  LoopLimit = 3
  MaxQueue = 2
  NHost = 2
INVARIANTS TypeOK SessionTypeOK AnswersChallenge OneConnection
PROPERTIES ChatterEndsLogin ProcessEnds
CHECK_DEADLOCK FALSE
