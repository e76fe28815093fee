------------------------------- MODULE Reviews -------------------------------
(***************************************************************************)
(* Community reviews of one listing: what publishes itself, what a          *)
(* moderator decides, and the TrustScore row computed from what is public.  *)
(***************************************************************************)
EXTENDS Settling

CONSTANT Renters   \* accounts that review the listing, one review each

ASSUME ReviewsAssumption == Null \notin Renters

VARIABLES
  review,     \* CommunityReview.status by reviewer, "none" before the row exists
  verdict,    \* what a moderator last decided on the review, "none" for nothing
  counted     \* the reviews the TrustScore row was computed from

reviewRows == <<review, verdict, counted>>
reviewVars == <<reviewRows, settlingVars>>

-----------------------------------------------------------------------------
ReviewStatus == {"PENDING", "APPROVED", "REJECTED", "FLAGGED"}
ModeratedOut == {"REJECTED", "FLAGGED"}

ReviewOps == {"submitReview", "rescore", "storeScore"}

\* next: the status a submission will write.  seen: the approved reviews read.
ReviewRequest == [op : ReviewOps, on : Renters \cup {Null},
                  next : {"PENDING", "APPROVED"}, seen : SUBSET Renters]

ReviewReq(o, u) == [op |-> o, on |-> u, next |-> "PENDING", seen |-> {}]

ASSUME ReviewRequestAssumption == Null \notin ReviewRequest

ReviewsInit ==
  /\ review = [u \in Renters |-> "none"]
  /\ verdict = [u \in Renters |-> "none"]
  /\ counted = {}
  /\ SettlingInit

Approved == {u \in Renters : review[u] = "APPROVED"}

-----------------------------------------------------------------------------
\* nextStatus: `glowing` is an average above AUTO_APPROVE_ABOVE, `signalled`
\* any integrity signal, the failure of the checks included.
NextStatus(previous, glowing, signalled) ==
  IF previous \notin ModeratedOut /\ ~ signalled /\ glowing THEN "APPROVED" ELSE "PENDING"

\* submitReview up to its upsert.
ReadReview(w, u) ==
  \E glowing, signalled \in BOOLEAN :
    /\ Begin(w, [ReviewReq("submitReview", u) EXCEPT
                   !.next = NextStatus(review[u], glowing, signalled)])
    /\ UNCHANGED <<reviewRows, died>>

\* Mutant: a review that publishes itself does not reach the score.
UpsertWithoutScore(w) ==
  LET u == inflight[w].on IN
  /\ Running(w, "submitReview")
  /\ review' = [review EXCEPT ![u] = inflight[w].next]
  /\ Commit(w)
  /\ UNCHANGED <<verdict, counted, died>>

WriteReview(w) ==
  LET u == inflight[w].on IN
  /\ Running(w, "submitReview")
  /\ review' = [review EXCEPT ![u] = inflight[w].next]
  /\ IF inflight[w].next = "APPROVED"
       THEN CommitThen(w, ReviewReq("rescore", u)) ELSE Commit(w)
  /\ UNCHANGED <<verdict, counted, died>>

\* moderateReview: one update, and a new score only for an approval.
ModerateReview(w, u, decided) ==
  /\ Idle(w) /\ review[u] # "none"
  /\ review' = [review EXCEPT ![u] = decided]
  /\ verdict' = [verdict EXCEPT ![u] = decided]
  /\ IF decided = "APPROVED" THEN CommitFirst(w, ReviewReq("rescore", u))
                             ELSE CommitAtOnce(u)
  /\ UNCHANGED <<counted, died>>

\* voteRecommendation, the trust page, which recomputes what it shows, and
\* whatever else recalculates the score of the listing.
AskForScore(w) ==
  /\ Begin(w, ReviewReq("rescore", Null))
  /\ UNCHANGED <<reviewRows, died>>

\* recalculateTrustScore: a snapshot of the approved reviews, then an upsert.
ReadScore(w) ==
  /\ Running(w, "rescore")
  /\ Reread(w, [ReviewReq("storeScore", Null) EXCEPT !.seen = Approved])
  /\ UNCHANGED <<reviewRows, died>>

WriteScore(w) ==
  /\ Running(w, "storeScore")
  /\ counted' = inflight[w].seen
  /\ Commit(w)
  /\ UNCHANGED <<review, verdict, died>>

DropReview(w) == Die(w) /\ UNCHANGED reviewRows

ReviewsNext ==
  /\ \E w \in Workers :
       \/ \E u \in Renters :
            \/ ReadReview(w, u)
            \/ \E decided \in {"APPROVED"} \cup ModeratedOut : ModerateReview(w, u, decided)
       \/ WriteReview(w) \/ AskForScore(w) \/ ReadScore(w) \/ WriteScore(w)
       \/ DropReview(w)
  /\ Noted

ReviewsSpec == ReviewsInit /\ [][ReviewsNext]_reviewVars

-----------------------------------------------------------------------------
ReviewsTypeOK ==
  /\ SettlingOK
  /\ \A w \in Workers :
       ~ Idle(w) /\ inflight[w].op \in ReviewOps => inflight[w] \in ReviewRequest
  /\ review \in [Renters -> ReviewStatus \cup {"none"}]
  /\ verdict \in [Renters -> ReviewStatus \cup {"none"}]
  /\ counted \subseteq Renters

\* When the handlers have finished one after another, no public review is
\* missing from the score next to it, whichever way it became public.
ApprovedIsCounted == Settled => Approved \subseteq counted

\* "A moderator's REJECTED/FLAGGED verdict is not undone by an edit": until a
\* moderator decides again, the review is not public.
VerdictStands ==
  \A u \in Renters : verdict[u] \in ModeratedOut => review[u] # "APPROVED"
=============================================================================
