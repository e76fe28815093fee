CONSTANTS
  Messages = {m1, m2}
  Turns = {1, 2, 3}
  Workers = {chain, side}
  Chain = chain
  Null = Null
  Convs = {1, 2}
  Listings = {l1}
  Parts = {"place"}
  Instances = {1, 2}
  Visitor = visitor
  Cells = {x, y}
  Types = {}
  CellsPerTick = 1
  MaxFailures = 1
  MaxCrashes = 1
  Nobody = Nobody
  Foci = {"inbound", "bot", "spatial"}
SPECIFICATION Spec
INVARIANTS TypeOK SerialTurns OneOpenConversation QueuedIsSubmitted
PROPERTIES EveryMessageSettles HeldIsReleased StaleIsRefreshed
CHECK_DEADLOCK FALSE
