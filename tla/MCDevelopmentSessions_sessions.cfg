SPECIFICATION FairSpec
CONSTANTS
  s1 = s1
  s2 = s2
  e1 = e1
  o1 = o1
  o2 = o2
  NoSession = NoSession
  Processor = Processor
  Sessions <- MCSessions
  Events <- MCEvents
  Operators <- MCOperators
  MaxCommands = 3
  MaxCrashes = 1
INVARIANTS
  SessionsTypeOK
  ReferencesExist
PROPERTIES
  EndedStaysEnded
  
