SPECIFICATION Spec
CONSTANTS
  None = None
  Junk = Junk
  Wide = Wide
  Num = {1, 2, 3}
  insert_all = insert_all
  hand = hand
  Clients = {insert_all, hand}
  Script <- Files
  Served <- AllButOne
  MaxCrashes = 2
INVARIANTS
  TypeOK
  OwnAnswer
  Stands
PROPERTIES
  ImplementsCommands
  EveryScriptEnds
CHECK_DEADLOCK FALSE
