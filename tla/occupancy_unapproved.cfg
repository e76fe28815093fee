CONSTANTS
  Users = {owner, ann, bob}
  Owner = owner
  Properties = {home}
  Leases = {l1, l2}
  Marks = {m1}
  Workers = {w1}
  Null = Null
  OwnerOf <- MCOwnerOf
  Contacts <- MCContacts
  MaxStamps = 2
SYMMETRY Symmetry
SPECIFICATION Spec
CHECK_DEADLOCK FALSE
INVARIANT LiveWasApproved
