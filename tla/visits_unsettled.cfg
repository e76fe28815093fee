CONSTANTS
  Appts = {a1, a2, a3}
  Tenants = {ann, bob}
  Days = {1, 2, 3}
  Slots <- MCVisitSlots
  Workers = {w1}
  Null = Null
  MaxStamps = 1
  Stay = FALSE
  InstantBook = {FALSE}
  MayCrash = FALSE
SYMMETRY Symmetry
SPECIFICATION Spec
INVARIANT AcceptanceSettlesDay
