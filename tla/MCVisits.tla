------------------------------- MODULE MCVisits -------------------------------
(* Instances of Visits for TLC: every slot between two of a few days.        *)
EXTENDS Visits, TLC

MCVisitSlots == {s \in [from : Days, until : Days] : s.until = s.from + 1}
MCStaySlots  == {s \in [from : Days, until : Days] : s.from < s.until}

Symmetry == Permutations(Workers) \cup Permutations(Appts) \cup Permutations(Tenants)
=============================================================================
