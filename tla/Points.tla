-------------------------------- MODULE Points ---------------------------------
(***************************************************************************)
(* Contribution points of one user: the ledger, where each thing is paid    *)
(* once, and the notification that is due when a level is reached.          *)
(***************************************************************************)
EXTENDS Settling

CONSTANTS
  Awards,    \* what the user can be paid for: (action, referenceId) pairs
  Worth      \* POINTS of each award's action

ASSUME PointsAssumption ==
  /\ Null \notin Awards
  /\ Worth \in [Awards -> {30, 40, 50, 80, 100, 120}]

VARIABLES
  earned,    \* the PointsLedger rows
  told       \* how often each level was announced, counted to 2

pointsRows == <<earned, told>>
pointsVars == <<pointsRows, settlingVars>>

-----------------------------------------------------------------------------
Levels == 1..5
LevelMin == <<0, 100, 300, 600, 1000>>

OfWorth(ledger, n) == Cardinality({a \in ledger : Worth[a] = n})

\* getPoints: the sum over the ledger, taken by the worth of its rows.
Total(ledger) ==
  30 * OfWorth(ledger, 30) + 40 * OfWorth(ledger, 40) + 50 * OfWorth(ledger, 50)
    + 80 * OfWorth(ledger, 80) + 100 * OfWorth(ledger, 100) + 120 * OfWorth(ledger, 120)

LevelFor(points) == CHOOSE l \in Levels :
  LevelMin[l] <= points /\ \A m \in Levels : LevelMin[m] <= points => m <= l

PointsRequest == [op : {"announce"}, on : Awards]

ASSUME PointsRequestAssumption == Null \notin PointsRequest

PointsInit == earned = {} /\ told = [l \in Levels |-> 0] /\ SettlingInit

\* awardPoints: the unique (userId, action, referenceId) pays a thing once; the
\* handler goes on to read the total, its own row included.
AwardPoints(w, a) ==
  /\ a \notin earned
  /\ earned' = earned \cup {a}
  /\ CommitFirst(w, [op |-> "announce", on |-> a])
  /\ UNCHANGED <<told, died>>

\* Mutant: the total read after the insert is taken for the total before it.
CrossedFrom(total, a) == LevelFor(total)

\* The level the user had before this award.
LevelBefore(total, a) == LevelFor(total - Worth[a])

Announce(w) ==
  /\ Running(w, "announce")
  /\ LET total == Total(earned)  after == LevelFor(total) IN
     told' = IF after > LevelBefore(total, inflight[w].on)
               THEN [told EXCEPT ![after] = IF @ = 2 THEN 2 ELSE @ + 1] ELSE told
  /\ Commit(w)
  /\ UNCHANGED <<earned, died>>

DropAward(w) == Die(w) /\ UNCHANGED pointsRows

PointsNext ==
  /\ \E w \in Workers :
       (\E a \in Awards : AwardPoints(w, a)) \/ Announce(w) \/ DropAward(w)
  /\ Noted

PointsSpec == PointsInit /\ [][PointsNext]_pointsVars

-----------------------------------------------------------------------------
PointsTypeOK ==
  /\ SettlingOK
  /\ \A w \in Workers : Running(w, "announce") => inflight[w] \in PointsRequest
  /\ earned \subseteq Awards
  /\ told \in [Levels -> 0..2]

\* "Only tell someone when they cross a level": when the awards came one after
\* another, each level the ledger is worth has been announced exactly once and
\* no other level has.
LevelsToldOnce ==
  Settled => \A l \in Levels \ {1} :
    told[l] = IF LevelMin[l] <= Total(earned) THEN 1 ELSE 0
=============================================================================
