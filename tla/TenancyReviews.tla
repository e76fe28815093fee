---------------------------- MODULE TenancyReviews -----------------------------
(***************************************************************************)
(* The double-blind reviews of one tenancy: who may write one, and the      *)
(* message that tells both parties their reviews have become visible.       *)
(***************************************************************************)
EXTENDS Settling

VARIABLES
  tenancy,   \* "asserted" by the owner, "confirmed" by the tenant, or "gone"
  ripe,      \* ended, or MIN_TENANCY_DAYS old
  written,   \* the parties that have a TenancyReview row
  toldOpen   \* the parties told that both reviews are visible

tenancyRows == <<tenancy, ripe, written, toldOpen>>
tenancyVars == <<tenancyRows, settlingVars>>

-----------------------------------------------------------------------------
Hats == {"owner", "tenant"}
Counterpart(hat) == IF hat = "owner" THEN "tenant" ELSE "owner"

TenancyOps == {"addReview", "lookUp", "decline"}
TenancyRequest == [op : TenancyOps, on : {"tenancy"}, hat : Hats]
TenancyReq(o, hat) == [op |-> o, on |-> "tenancy", hat |-> hat]

ASSUME TenancyAssumption == Null \notin TenancyRequest

TenancyInit ==
  /\ tenancy = "asserted"
  /\ ripe = FALSE
  /\ written = {} /\ toldOpen = {}
  /\ SettlingInit

\* The tenancy ends, or time passes.
Ripen == /\ ~ ripe /\ tenancy # "gone" /\ ripe' = TRUE
         /\ UNCHANGED <<tenancy, written, toldOpen, handlerVars, died>>

\* confirmTenancy: one conditional statement.
ConfirmTenancy ==
  /\ tenancy = "asserted"
  /\ tenancy' = "confirmed"
  /\ CommitAtOnce("tenancy")
  /\ UNCHANGED <<ripe, written, toldOpen, died>>

\* declineTenancy reads an unconfirmed row and deletes it by id, with whatever
\* reviews it has by then.
ReadDecline(w) ==
  /\ tenancy = "asserted"
  /\ Begin(w, TenancyReq("decline", "tenant"))
  /\ UNCHANGED <<tenancyRows, died>>

WriteDecline(w) ==
  /\ Running(w, "decline") /\ tenancy # "gone"
  /\ tenancy' = "gone" /\ written' = {}
  /\ Commit(w)
  /\ UNCHANGED <<ripe, toldOpen, died>>

\* canReview, for a party.
CanReview == tenancy = "confirmed" /\ ripe

ReadAddReview(w, hat) ==
  /\ CanReview
  /\ Begin(w, TenancyReq("addReview", hat))
  /\ UNCHANGED <<tenancyRows, died>>

\* One review per tenancy and author; the row needs its tenancy.
WriteAddReview(w) ==
  LET hat == inflight[w].hat IN
  /\ Running(w, "addReview")
  /\ tenancy # "gone" /\ hat \notin written
  /\ written' = written \cup {hat}
  /\ CommitThen(w, TenancyReq("lookUp", hat))
  /\ UNCHANGED <<tenancy, ripe, toldOpen, died>>

\* Mutant: only the one whose review was waited for is told.
OnlyCounterpart(hat) == {Counterpart(hat)}

\* Who is told once the counterpart review is found.
ToldBy(hat) == {hat, Counterpart(hat)}

\* The counterpart is looked up after the review is written, not before.
LookUpCounterpart(w) ==
  LET hat == inflight[w].hat IN
  /\ Running(w, "lookUp")
  /\ toldOpen' = IF Counterpart(hat) \in written
                   THEN toldOpen \cup ToldBy(hat) ELSE toldOpen
  /\ Commit(w)
  /\ UNCHANGED <<tenancy, ripe, written, died>>

DropTenancy(w) == Die(w) /\ UNCHANGED tenancyRows

TenancyNext ==
  /\ \/ Ripen \/ ConfirmTenancy
     \/ \E w \in Workers :
          \/ ReadDecline(w) \/ WriteDecline(w)
          \/ \E hat \in Hats : ReadAddReview(w, hat)
          \/ WriteAddReview(w) \/ LookUpCounterpart(w) \/ DropTenancy(w)
  /\ Noted

TenancySpec == TenancyInit /\ [][TenancyNext]_tenancyVars

-----------------------------------------------------------------------------
TenancyTypeOK ==
  /\ SettlingOK
  /\ \A w \in Workers :
       ~ Idle(w) /\ inflight[w].op \in TenancyOps => inflight[w] \in TenancyRequest
  /\ tenancy \in {"asserted", "confirmed", "gone"}
  /\ ripe \in BOOLEAN
  /\ written \subseteq Hats
  /\ toldOpen \subseteq Hats

\* "Both are in - the blind lifts NOW, tell both sides": whatever overlapped, no
\* pair of reviews is left standing with a party who was not told, for
\* the later writer always finds the other review.
BlindLiftIsTold ==
  Quiet /\ ~ died /\ written = Hats => toldOpen = Hats
=============================================================================
