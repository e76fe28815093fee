CONSTANTS
  Appts = {a1, a2}
  Tenants = {ann, bob}
  Days = {1, 2, 3}
  Slots <- MCStaySlots
  Workers = {w1, w2}
  Null = Null
  MaxStamps = 1
  Stay = TRUE
  InstantBook = {TRUE, FALSE}
  MayCrash = TRUE
SYMMETRY Symmetry
SPECIFICATION BookingsSpec
PROPERTIES DoubleBookingIsLate
