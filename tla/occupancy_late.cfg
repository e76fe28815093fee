CONSTANTS
  Users = {owner, ann}
  Owner = owner
  Properties = {home}
  Leases = {l1}
  Marks = {m1}
  Workers = {w1, w2}
  Null = Null
  OwnerOf <- MCOwnerOf
  Contacts <- MCContacts
  MaxStamps = 2
SYMMETRY Symmetry
SPECIFICATION HistorySpec
PROPERTIES RestampIsLate SuspensionLifted EvidenceLossIsLate
CHECK_DEADLOCK FALSE
