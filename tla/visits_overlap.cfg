CONSTANTS
  Appts = {a1, a2}
  Tenants = {ann, bob}
  Days = {1, 2}
  Slots <- MCVisitSlots
  Workers = {w1, w2}
  Null = Null
  MaxStamps = 1
  Stay = FALSE
  InstantBook = {FALSE}
  MayCrash = TRUE
SYMMETRY Symmetry
SPECIFICATION HistorySpec
INVARIANTS TypeOK AnsweredStamped OneRequestPerRenter
PROPERTIES SupersedeSparesAnswered ReopeningIsLate
