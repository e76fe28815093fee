CONSTANTS
  Users = {owner, ann, bob}
  Owner = owner
  Properties = {home}
  Leases = {l1}
  Marks = {m1}
  Workers = {w1, w2}
  Null = Null
  OwnerOf <- MCOwnerOf
  Contacts <- MCContacts
  MaxStamps = 0
SYMMETRY Symmetry
SPECIFICATION Spec
INVARIANTS TypeOK OccupancyRecorded SignedLeaseRecorded TerminatedLeaseEnded
PROPERTIES BookSpec
CHECK_DEADLOCK FALSE
