----------------------------- MODULE MCOccupancy -----------------------------
(* Instances of Occupancy for TLC: one owner, tenants who have all been in   *)
(* touch about every listing.                                                *)
EXTENDS Occupancy, TLC

CONSTANTS Owner

MCOwnerOf  == [p \in Properties |-> Owner]
MCContacts == Properties \X Users

Symmetry == Permutations(Workers) \cup Permutations(Leases)
              \cup Permutations(Users \ {Owner})
=============================================================================
