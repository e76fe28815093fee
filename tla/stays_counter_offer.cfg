CONSTANTS
  Appts = {a1, a2}
  Tenants = {ann, bob}
  Days = {1, 2, 3, 4}
  Slots <- MCStaySlots
  Workers = {w1}
  Null = Null
  MaxStamps = 1
  Stay = TRUE
  InstantBook = {TRUE, FALSE}
  MayCrash = FALSE
SYMMETRY Symmetry
SPECIFICATION Spec
PROPERTIES CounterOfferIsFree
