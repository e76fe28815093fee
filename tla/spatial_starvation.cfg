CONSTANTS
  Messages = {m1}
  Turns = {1}
  Workers = {chain, side}
  Chain = chain
  Null = Null
  Convs = {1, 2}
  Listings = {l1}
  Parts = {"place"}
  Instances = {1}
  Visitor = visitor
  Cells = {x, y}
  Types = {shop}
  CellsPerTick = 1
  MaxFailures = 1
  MaxCrashes = 0
  Nobody = Nobody
  Foci = {"spatial"}
SPECIFICATION Spec
PROPERTIES StaleIsRefreshed
CHECK_DEADLOCK FALSE
