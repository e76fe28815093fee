---------------------------- MODULE SettlingProofs ----------------------------
(***************************************************************************)
(* TLAPS proofs about the components whose handlers write and then settle   *)
(* what follows from it: tenancy reviews, community reviews and reports,    *)
(* for any number of people, rows and requests.                             *)
(***************************************************************************)
EXTENDS TenancyReviews, Reviews, Reports, Points, HandlerProofs, FiniteSetTheorems

USE TenancyAssumption, ReviewsAssumption, ReviewRequestAssumption,
    ReportsAssumption, ReportRequestAssumption

-----------------------------------------------------------------------------
(* Tenancy reviews                                                          *)

\* If both reviews are written, both parties have been told, or a handler is
\* about to find that out.
ToldOrAboutTo ==
  ~ died /\ written = Hats => toldOpen = Hats \/ \E w \in Workers : Running(w, "lookUp")

TenancyInv == TenancyTypeOK /\ ToldOrAboutTo

\* What a handler of the tenancy begins with.
LEMMA TenancyRequestType ==
  ASSUME NEW o \in TenancyOps, NEW hat \in Hats
  PROVE  TenancyReq(o, hat) \in TenancyRequest /\ TenancyReq(o, hat).op = o
         /\ TenancyReq(o, hat).hat = hat
BY DEF TenancyReq, TenancyRequest

\* A step of worker w, which holds a request of the tenancy afterwards or none.
LEMMA TenancyTypes ==
  ASSUME TenancyTypeOK, NEW w \in Workers, NEW r \in TenancyRequest \cup {Null}, Takes(w, r),
         died' \in BOOLEAN, Noted,
         tenancy' \in {"asserted", "confirmed", "gone"},
         ripe' \in BOOLEAN, written' \subseteq Hats, toldOpen' \subseteq Hats
  PROVE  TenancyTypeOK' /\ \A v \in Workers : inflight'[v] = IF v = w THEN r ELSE inflight[v]
<1>1. SettlingOK' /\ \A v \in Workers : inflight'[v] = IF v = w THEN r ELSE inflight[v]
  BY StepBy DEF TenancyTypeOK
<1>2. \A v \in Workers : ~ Idle(v)' /\ inflight'[v].op \in TenancyOps =>
                           inflight'[v] \in TenancyRequest
  BY <1>1 DEF TenancyTypeOK, Idle
<1>3. QED BY <1>1, <1>2 DEF TenancyTypeOK

\* Every step keeps the invariant,
LEMMA TenancyNextInv ==
  ASSUME TenancyInv, [TenancyNext]_tenancyVars
  PROVE  TenancyInv'
<1> USE DEF TenancyInv
<1>1. CASE UNCHANGED tenancyVars
  BY <1>1 DEF tenancyVars, tenancyRows, settlingVars, handlerVars, TenancyTypeOK, SettlingOK,
       InflightOK, Idle, ToldOrAboutTo, Running
<1>2. CASE Ripen /\ Noted
  BY <1>2 DEF Ripen, Noted, Bystander, handlerVars, TenancyTypeOK, SettlingOK, InflightOK, Idle,
       ToldOrAboutTo, Running
<1>3. CASE ConfirmTenancy /\ Noted
  <2>1. CommitAtOnce("tenancy") /\ inflight' = inflight
    BY <1>3 DEF ConfirmTenancy, CommitAtOnce
  <2>2. SettlingOK' BY <1>3, <2>1, StepAtOnce DEF TenancyTypeOK, SettlingOK, ConfirmTenancy
  <2>3. TenancyTypeOK' BY <1>3, <2>1, <2>2 DEF TenancyTypeOK, ConfirmTenancy, Idle
  <2>4. ToldOrAboutTo' BY <1>3, <2>1 DEF ToldOrAboutTo, ConfirmTenancy, Running
  <2>5. QED BY <2>3, <2>4
<1>4. ASSUME NEW w \in Workers, ReadDecline(w) \/ (\E hat \in Hats : ReadAddReview(w, hat)), Noted
      PROVE  TenancyInv'
  <2>1. PICK hat \in Hats, o \in {"decline", "addReview"} : Begin(w, TenancyReq(o, hat))
    BY <1>4 DEF ReadDecline, ReadAddReview, Hats
  <2> DEFINE r == TenancyReq(o, hat)
  <2>2. r \in TenancyRequest /\ Begin(w, r) BY <2>1, TenancyRequestType DEF TenancyOps
  <2> HIDE DEF r
  <2>3. UNCHANGED <<tenancyRows, died>> BY <1>4 DEF ReadDecline, ReadAddReview
  <2>4. TenancyTypeOK' BY <1>4, <2>2, <2>3, TenancyTypes DEF Takes, TenancyTypeOK, SettlingOK, tenancyRows
  <2>5. \A v \in Workers : Running(v, "lookUp") => Running(v, "lookUp")'
    <3>1. Idle(w) /\ \A v \in Workers : v # w => inflight'[v] = inflight[v]
      BY <2>2, GoesOn DEF TenancyTypeOK, SettlingOK, Begin
    <3>2. QED BY <3>1 DEF Running, Idle
  <2>6. ToldOrAboutTo' BY <2>3, <2>5 DEF ToldOrAboutTo, tenancyRows
  <2>7. QED BY <2>4, <2>6
<1>5. ASSUME NEW w \in Workers, WriteDecline(w), Noted PROVE TenancyInv'
  <2>1. Commit(w) /\ UNCHANGED <<ripe, toldOpen, died>> /\ tenancy' = "gone" /\ written' = {}
    BY <1>5 DEF WriteDecline
  <2>2. TenancyTypeOK' BY <1>5, <2>1, EndTakesNull, TenancyTypes DEF TenancyTypeOK, SettlingOK
  <2>3. QED BY <2>1, <2>2 DEF ToldOrAboutTo, Hats
<1>6. ASSUME NEW w \in Workers, WriteAddReview(w), Noted PROVE TenancyInv'
  <2> DEFINE hat == inflight[w].hat
             r == TenancyReq("lookUp", hat)
  <2>1. hat \in Hats
    BY <1>6 DEF WriteAddReview, Running, TenancyTypeOK, Idle, TenancyOps, TenancyRequest
  <2>2. r \in TenancyRequest /\ r.op = "lookUp" BY <2>1, TenancyRequestType DEF TenancyOps
  <2>3. CommitThen(w, r) /\ UNCHANGED <<tenancy, ripe, toldOpen, died>>
        /\ written' = written \cup {hat}
    BY <1>6 DEF WriteAddReview
  <2>4. r # Null BY <2>2
  <2> HIDE DEF r
  <2>5. TenancyTypeOK' BY <1>6, <2>1, <2>2, <2>3, TenancyTypes DEF Takes, TenancyTypeOK, SettlingOK
  <2>6. inflight'[w] = r BY <2>3, GoesOn DEF TenancyTypeOK, SettlingOK
  <2>7. Running(w, "lookUp")' BY <2>2, <2>4, <2>6 DEF Running
  <2>8. QED BY <2>5, <2>7 DEF ToldOrAboutTo
<1>7. ASSUME NEW w \in Workers, LookUpCounterpart(w), Noted PROVE TenancyInv'
  <2> DEFINE hat == inflight[w].hat
  <2>1. hat \in Hats
    BY <1>7 DEF LookUpCounterpart, Running, TenancyTypeOK, Idle, TenancyOps, TenancyRequest
  <2>2. Commit(w) /\ UNCHANGED <<tenancy, ripe, written, died>>
        /\ toldOpen' = IF Counterpart(hat) \in written THEN toldOpen \cup ToldBy(hat) ELSE toldOpen
    BY <1>7 DEF LookUpCounterpart
  <2>3. Counterpart(hat) \in Hats /\ ToldBy(hat) = Hats
    BY <2>1 DEF Counterpart, ToldBy, Hats
  <2>4. toldOpen' \subseteq Hats /\ (written = Hats => toldOpen' = Hats)
    BY <2>2, <2>3 DEF TenancyTypeOK
  <2>5. TenancyTypeOK' BY <1>7, <2>2, <2>4, EndTakesNull, TenancyTypes DEF TenancyTypeOK, SettlingOK
  <2>6. QED BY <2>2, <2>4, <2>5 DEF ToldOrAboutTo
<1>8. ASSUME NEW w \in Workers, DropTenancy(w), Noted PROVE TenancyInv'
  <2>1. Drop(w) /\ died' = TRUE /\ UNCHANGED tenancyRows BY <1>8 DEF DropTenancy, Die
  <2>2. TenancyTypeOK'
    BY <1>8, <2>1, EndTakesNull, TenancyTypes DEF TenancyTypeOK, SettlingOK, tenancyRows
  <2>3. QED BY <2>1, <2>2 DEF ToldOrAboutTo
<1>9. QED BY <1>1, <1>2, <1>3, <1>4, <1>5, <1>6, <1>7, <1>8 DEF TenancyNext

\* which holds at first.
LEMMA TenancyInitInv == TenancyInit => TenancyInv
<1> SUFFICES ASSUME TenancyInit PROVE TenancyInv OBVIOUS
<1>1. InflightOK /\ (\A w \in Workers : inflight[w] = Null)
  BY NoneInflight DEF TenancyInit, SettlingInit
<1>2. QED BY <1>1 DEF TenancyInit, SettlingInit, TenancyInv, TenancyTypeOK, SettlingOK, Idle,
       ToldOrAboutTo, Hats

\* Both parties of a tenancy whose two reviews are in have been told, however
\* the two writers overlapped, unless one of them died before it could tell.
THEOREM BlindLift == TenancySpec => []BlindLiftIsTold
<1>1. TenancyInv => BlindLiftIsTold
  BY DEF TenancyInv, ToldOrAboutTo, BlindLiftIsTold, Quiet, Running, Idle
<1>2. QED BY <1>1, TenancyInitInv, TenancyNextInv, PTL DEF TenancySpec

\* The tenancy, its reviews and the requests about it have their types.
THEOREM TenancyTyped == TenancySpec => []TenancyTypeOK
<1>1. TenancyInv => TenancyTypeOK BY DEF TenancyInv
<1>2. QED BY <1>1, TenancyInitInv, TenancyNextInv, PTL DEF TenancySpec

-----------------------------------------------------------------------------
(* Community reviews                                                        *)

\* What the one handler under way leaves right, while the handlers come one
\* after another and none has died: nothing if it is still to read the reviews,
\* otherwise that the score counts, or is about to count, what is public.
ScoreRight ==
  ~ overlapped /\ ~ died =>
    /\ \A w \in Workers :
         /\ Running(w, "submitReview") => Approved \subseteq counted
         /\ Running(w, "storeScore") => inflight[w].seen = Approved
    /\ Quiet => Approved \subseteq counted

\* On the reviews, every request is one of theirs.
ReviewOnly == \A w \in Workers : ~ Idle(w) => inflight[w] \in ReviewRequest

ReviewsInv == ReviewsTypeOK /\ ReviewOnly /\ ScoreRight

\* A step of worker w, which holds a request about a review afterwards or none.
LEMMA ReviewsTypes ==
  ASSUME ReviewsTypeOK, ReviewOnly, NEW w \in Workers, NEW r \in ReviewRequest \cup {Null},
         Takes(w, r), Noted, died' \in BOOLEAN,
         review' \in [Renters -> ReviewStatus \cup {"none"}],
         verdict' \in [Renters -> ReviewStatus \cup {"none"}], counted' \subseteq Renters
  PROVE  /\ ReviewsTypeOK' /\ ReviewOnly' /\ overlapped \in BOOLEAN
         /\ \A v \in Workers : inflight'[v] = IF v = w THEN r ELSE inflight[v]
<1>1. SettlingOK' /\ \A v \in Workers : inflight'[v] = IF v = w THEN r ELSE inflight[v]
  BY StepBy DEF ReviewsTypeOK
<1>2. ReviewOnly' BY <1>1 DEF ReviewOnly, Idle
<1>3. QED BY <1>1, <1>2 DEF ReviewsTypeOK, ReviewOnly, SettlingOK

\* A step that leaves worker w with r, the others being idle.
LEMMA ScoreStep ==
  ASSUME ReviewsInv, NEW w \in Workers, NEW r \in ReviewRequest \cup {Null}, Noted,
         overlapped \in BOOLEAN,
         \A v \in Workers : inflight'[v] = IF v = w THEN r ELSE inflight[v],
         ~ overlapped /\ ~ overlapped' /\ ~ died /\ ~ died' =>
           /\ r = Null => (Approved \subseteq counted)'
           /\ r # Null /\ r.op = "submitReview" => (Approved \subseteq counted)'
           /\ r # Null /\ r.op = "storeScore" => r.seen = Approved',
         died => died'
  PROVE  ScoreRight'
<1> SUFFICES ASSUME ~ overlapped', ~ died'
             PROVE  /\ \A v \in Workers :
                         /\ Running(v, "submitReview")' => (Approved \subseteq counted)'
                         /\ Running(v, "storeScore")' => inflight'[v].seen = Approved'
                    /\ Quiet' => (Approved \subseteq counted)'
  BY DEF ScoreRight
<1>1. ~ overlapped /\ \A v \in Workers : v # w => inflight'[v] = Null BY Alone
<1>2. inflight'[w] = r BY <1>1
<1>3. QED BY <1>1, <1>2 DEF Running, Quiet, Idle

\* A request that begins has found every other worker idle.
LEMMA QuietBefore ==
  ASSUME NEW w \in Workers, Idle(w), NEW r, Noted, overlapped \in BOOLEAN, ~ overlapped',
         \A v \in Workers : inflight'[v] = IF v = w THEN r ELSE inflight[v]
  PROVE  Quiet
<1>1. \A v \in Workers : v # w => inflight[v] = Null BY Alone
<1>2. QED BY <1>1 DEF Quiet, Idle

\* Every step keeps the invariant,
LEMMA ReviewsNextInv ==
  ASSUME ReviewsInv, [ReviewsNext]_reviewVars
  PROVE  ReviewsInv'
<1>0. ReviewsTypeOK /\ ReviewOnly /\ ScoreRight /\ died \in BOOLEAN
  BY DEF ReviewsInv, ReviewsTypeOK, SettlingOK
<1>1. CASE UNCHANGED reviewVars
  BY <1>1 DEF ReviewsInv, reviewVars, reviewRows, settlingVars, handlerVars, ReviewsTypeOK,
       SettlingOK, InflightOK, Idle, ReviewOnly, ScoreRight, Running, Quiet, Approved
<1>2. ASSUME NEW w \in Workers, NEW u \in Renters, ReadReview(w, u), Noted PROVE ReviewsInv'
  <2>1. PICK next \in {"PENDING", "APPROVED"} :
          Begin(w, [ReviewReq("submitReview", u) EXCEPT !.next = next])
    BY <1>2 DEF ReadReview, NextStatus
  <2> DEFINE r == [ReviewReq("submitReview", u) EXCEPT !.next = next]
  <2>2. r \in ReviewRequest /\ r.op = "submitReview"
    BY DEF ReviewReq, ReviewRequest, ReviewOps
  <2>3. Begin(w, r) BY <2>1
  <2> HIDE DEF r
  <2>4. Takes(w, r) /\ Idle(w) BY <2>3 DEF Takes, Begin
  <2>5. UNCHANGED <<review, verdict, counted, died>> BY <1>2 DEF ReadReview, reviewRows
  <2>6. /\ ReviewsTypeOK' /\ ReviewOnly' /\ overlapped \in BOOLEAN
        /\ \A v \in Workers : inflight'[v] = IF v = w THEN r ELSE inflight[v]
    BY <1>0, <1>2, <2>2, <2>4, <2>5, ReviewsTypes DEF ReviewsTypeOK
  <2>7. ~ overlapped /\ ~ overlapped' /\ ~ died => (Approved \subseteq counted)'
    BY <1>0, <1>2, <2>4, <2>5, <2>6, QuietBefore DEF ScoreRight, Approved
  <2>8. ScoreRight' BY <1>2, <2>2, <2>5, <2>6, <2>7, ScoreStep
  <2>9. QED BY <2>6, <2>8 DEF ReviewsInv
<1>3. ASSUME NEW w \in Workers, WriteReview(w), Noted PROVE ReviewsInv'
  <2> DEFINE u == inflight[w].on
             next == inflight[w].next
             s == ReviewReq("rescore", u)
  <2>1. inflight[w] \in ReviewRequest /\ next \in {"PENDING", "APPROVED"} /\ u \in Renters \cup {Null}
        /\ Running(w, "submitReview")
    BY <1>0, <1>3 DEF WriteReview, Running, ReviewOnly, Idle, ReviewRequest
  <2>2. s \in ReviewRequest /\ s.op = "rescore" BY <2>1 DEF ReviewReq, ReviewRequest, ReviewOps
  <2>3. /\ review' = [review EXCEPT ![u] = next]
        /\ IF next = "APPROVED" THEN CommitThen(w, s) ELSE Commit(w)
        /\ UNCHANGED <<verdict, counted, died>>
    BY <1>3 DEF WriteReview
  <2> HIDE DEF s
  <2>4. review' \in [Renters -> ReviewStatus \cup {"none"}]
    BY <1>0, <2>1, <2>3 DEF ReviewsTypeOK, ReviewStatus
  <2>5. PICK r \in ReviewRequest \cup {Null} :
          Takes(w, r) /\ (r = Null => next = "PENDING") /\ (r # Null => r.op = "rescore")
    BY <2>1, <2>2, <2>3, EndTakesNull DEF Takes
  <2>6. /\ ReviewsTypeOK' /\ ReviewOnly' /\ overlapped \in BOOLEAN
        /\ \A v \in Workers : inflight'[v] = IF v = w THEN r ELSE inflight[v]
    BY <1>0, <1>3, <2>3, <2>4, <2>5, ReviewsTypes DEF ReviewsTypeOK
  <2>7. ~ overlapped /\ ~ died /\ r = Null => (Approved \subseteq counted)'
    <3> SUFFICES ASSUME ~ overlapped, ~ died, next = "PENDING" PROVE Approved' \subseteq counted
      BY <2>3, <2>5
    <3>1. Approved \subseteq counted BY <1>0, <2>1 DEF ScoreRight
    <3>2. \A x \in Renters : review'[x] = "APPROVED" => review[x] = "APPROVED"
      BY <1>0, <2>3 DEF ReviewsTypeOK
    <3>3. QED BY <3>1, <3>2 DEF Approved
  <2>8. ScoreRight' BY <1>3, <2>3, <2>5, <2>6, <2>7, ScoreStep
  <2>9. QED BY <2>6, <2>8 DEF ReviewsInv
<1>4. ASSUME NEW w \in Workers, NEW u \in Renters, NEW decided \in {"APPROVED"} \cup ModeratedOut,
             ModerateReview(w, u, decided), Noted
      PROVE  ReviewsInv'
  <2> DEFINE r == ReviewReq("rescore", u)
  <2>1. r \in ReviewRequest /\ r.op = "rescore" BY DEF ReviewReq, ReviewRequest, ReviewOps
  <2>2. /\ Idle(w) /\ review' = [review EXCEPT ![u] = decided]
        /\ verdict' = [verdict EXCEPT ![u] = decided]
        /\ IF decided = "APPROVED" THEN CommitFirst(w, r) ELSE CommitAtOnce(u)
        /\ UNCHANGED <<counted, died>>
    BY <1>4 DEF ModerateReview
  <2>3. /\ review' \in [Renters -> ReviewStatus \cup {"none"}]
        /\ verdict' \in [Renters -> ReviewStatus \cup {"none"}]
    BY <1>0, <2>2 DEF ReviewsTypeOK, ReviewStatus, ModeratedOut
  <2> HIDE DEF r
  <2>4. CASE decided = "APPROVED"
    <3>1. Takes(w, r) BY <2>2, <2>4 DEF Takes
    <3>2. /\ ReviewsTypeOK' /\ ReviewOnly' /\ overlapped \in BOOLEAN
          /\ \A v \in Workers : inflight'[v] = IF v = w THEN r ELSE inflight[v]
      BY <1>0, <1>4, <2>1, <2>2, <2>3, <3>1, ReviewsTypes DEF ReviewsTypeOK
    <3>3. ScoreRight' BY <1>4, <2>1, <2>2, <3>2, ScoreStep
    <3>4. QED BY <3>2, <3>3 DEF ReviewsInv
  <2>5. CASE decided # "APPROVED"
    <3>1. SettlingOK' /\ inflight' = inflight
      BY <1>0, <1>4, <2>2, <2>5, StepAtOnce DEF ReviewsTypeOK
    <3>2. ReviewsTypeOK' /\ ReviewOnly'
      BY <1>0, <2>2, <2>3, <3>1 DEF ReviewsTypeOK, ReviewOnly, Idle
    <3>3. \A v \in Workers : inflight'[v] = IF v = w THEN Null ELSE inflight[v]
      BY <2>2, <3>1 DEF Idle
    <3>4. overlapped \in BOOLEAN BY <1>0 DEF ReviewsTypeOK, SettlingOK
    <3>5. \A x \in Renters : review'[x] = "APPROVED" => review[x] = "APPROVED"
      BY <1>0, <2>2, <2>5 DEF ReviewsTypeOK
    <3>6. ~ overlapped /\ ~ overlapped' /\ ~ died => (Approved \subseteq counted)'
      <4>1. ~ overlapped /\ ~ overlapped' /\ ~ died => Approved \subseteq counted
        BY <1>0, <1>4, <2>2, <3>3, <3>4, QuietBefore DEF ScoreRight
      <4>2. QED BY <2>2, <3>5, <4>1 DEF Approved
    <3>7. ScoreRight' BY <1>4, <2>2, <3>3, <3>4, <3>6, ScoreStep
    <3>8. QED BY <3>2, <3>7 DEF ReviewsInv
  <2>6. QED BY <2>4, <2>5
<1>5. ASSUME NEW w \in Workers, AskForScore(w), Noted PROVE ReviewsInv'
  <2> DEFINE r == ReviewReq("rescore", Null)
  <2>1. r \in ReviewRequest /\ r.op = "rescore" BY DEF ReviewReq, ReviewRequest, ReviewOps
  <2>2. Begin(w, r) /\ UNCHANGED <<review, verdict, counted, died>>
    BY <1>5 DEF AskForScore, reviewRows
  <2> HIDE DEF r
  <2>3. /\ ReviewsTypeOK' /\ ReviewOnly' /\ overlapped \in BOOLEAN
        /\ \A v \in Workers : inflight'[v] = IF v = w THEN r ELSE inflight[v]
    BY <1>0, <1>5, <2>1, <2>2, ReviewsTypes DEF ReviewsTypeOK, Takes
  <2>4. ScoreRight' BY <1>5, <2>1, <2>2, <2>3, ScoreStep
  <2>5. QED BY <2>3, <2>4 DEF ReviewsInv
<1>6. ASSUME NEW w \in Workers, ReadScore(w), Noted PROVE ReviewsInv'
  <2> DEFINE r == [ReviewReq("storeScore", Null) EXCEPT !.seen = Approved]
  <2>1. r \in ReviewRequest /\ r.op = "storeScore" /\ r.seen = Approved
    BY DEF ReviewReq, ReviewRequest, ReviewOps, Approved
  <2>2. Reread(w, r) /\ UNCHANGED <<review, verdict, counted, died>>
    BY <1>6 DEF ReadScore, reviewRows
  <2>3. Approved' = Approved BY <2>2 DEF Approved
  <2> HIDE DEF r
  <2>4. /\ ReviewsTypeOK' /\ ReviewOnly' /\ overlapped \in BOOLEAN
        /\ \A v \in Workers : inflight'[v] = IF v = w THEN r ELSE inflight[v]
    BY <1>0, <1>6, <2>1, <2>2, ReviewsTypes DEF ReviewsTypeOK, Takes
  <2>5. ScoreRight' BY <1>6, <2>1, <2>2, <2>3, <2>4, ScoreStep
  <2>6. QED BY <2>4, <2>5 DEF ReviewsInv
<1>7. ASSUME NEW w \in Workers, WriteScore(w), Noted PROVE ReviewsInv'
  <2>1. /\ Running(w, "storeScore") /\ counted' = inflight[w].seen /\ Commit(w)
        /\ UNCHANGED <<review, verdict, died>>
    BY <1>7 DEF WriteScore
  <2>2. inflight[w].seen \subseteq Renters
    BY <1>0, <2>1 DEF ReviewOnly, Running, Idle, ReviewRequest
  <2>3. /\ ReviewsTypeOK' /\ ReviewOnly' /\ overlapped \in BOOLEAN
        /\ \A v \in Workers : inflight'[v] = IF v = w THEN Null ELSE inflight[v]
    BY <1>0, <1>7, <2>1, <2>2, EndTakesNull, ReviewsTypes DEF ReviewsTypeOK
  <2>4. ~ overlapped /\ ~ died => (Approved \subseteq counted)'
    BY <1>0, <2>1 DEF ScoreRight, Approved
  <2>5. ScoreRight' BY <1>7, <2>1, <2>3, <2>4, ScoreStep
  <2>6. QED BY <2>3, <2>5 DEF ReviewsInv
<1>8. ASSUME NEW w \in Workers, DropReview(w), Noted PROVE ReviewsInv'
  <2>1. Drop(w) /\ died' = TRUE /\ UNCHANGED <<review, verdict, counted>>
    BY <1>8 DEF DropReview, Die, reviewRows
  <2>2. ReviewsTypeOK' /\ ReviewOnly'
    BY <1>0, <1>8, <2>1, EndTakesNull, ReviewsTypes DEF ReviewsTypeOK
  <2>3. QED BY <2>1, <2>2 DEF ReviewsInv, ScoreRight
<1>9. QED BY <1>1, <1>2, <1>3, <1>4, <1>5, <1>6, <1>7, <1>8 DEF ReviewsNext

\* which holds at first.
LEMMA ReviewsInitInv == ReviewsInit => ReviewsInv
<1> SUFFICES ASSUME ReviewsInit PROVE ReviewsInv OBVIOUS
<1>1. InflightOK /\ (\A w \in Workers : inflight[w] = Null)
  BY NoneInflight DEF ReviewsInit, SettlingInit
<1>2. QED BY <1>1 DEF ReviewsInit, SettlingInit, ReviewsInv, ReviewsTypeOK, SettlingOK, Idle,
       ReviewOnly, ScoreRight, Running, Quiet, Approved

\* When the handlers have finished one after another, the trust score counts
\* every public review, whichever way it became public.
THEOREM ScoreCountsApproved == ReviewsSpec => []ApprovedIsCounted
<1>1. ReviewsInv => ApprovedIsCounted
  BY DEF ReviewsInv, ScoreRight, ApprovedIsCounted, Settled
<1>2. QED BY <1>1, ReviewsInitInv, ReviewsNextInv, PTL DEF ReviewsSpec

\* Reviews, verdicts, the score and the requests about them have their types.
THEOREM ReviewsTyped == ReviewsSpec => []ReviewsTypeOK
<1>1. ReviewsInv => ReviewsTypeOK BY DEF ReviewsInv
<1>2. QED BY <1>1, ReviewsInitInv, ReviewsNextInv, PTL DEF ReviewsSpec
-----------------------------------------------------------------------------
(* Reports                                                                  *)

ReportRow == [by : Reporters \cup {Null},
              severity : {"LOW", "MEDIUM", "HIGH", "CRITICAL"},
              status : {"none", "PENDING", "UNDER_REVIEW", "RESOLVED", "DISMISSED"}]

\* Two people named themselves and reported the listing for something severe.
Corroborated ==
  \E r, q \in ReportIds :
    /\ {report[r].severity, report[q].severity} \subseteq Severe
    /\ Null \notin {report[r].by, report[q].by}
    /\ report[r].by # report[q].by

\* An unfiled report is nobody's, and one that was not ruled on is pending.
ReportRowsOK ==
  /\ SettlingOK
  /\ \A w \in Workers : ~ Idle(w) => inflight[w] \in ReportRequest
  /\ report \in [ReportIds -> ReportRow]
  /\ \A r \in ReportIds : report[r].status = "none" => report[r].by = Null
  /\ \A r \in ReportIds \ ruled : report[r].status \in {"none", "PENDING"}
  /\ ruled \subseteq ReportIds /\ risk \subseteq ReportIds
  /\ badge \in RiskLevel /\ suspended \in {"no", "system", "admin"}

\* The platform is only about to suspend a listing when it may.
ReportInv ==
  /\ ReportRowsOK /\ SuspensionCorroborated
  /\ \A w \in Workers : Running(w, "suspend") => Corroborated

RiskFits == risk = OpenReports
BadgeFits == RiskFits /\ badge = LevelOf(risk)

\* What the handler that is at work has still to bring about.
Due(r) ==
  /\ r.op = "rate" => r.seen = OpenReports
  /\ r.op = "score" => RiskFits
  /\ r.op = "stamp" => RiskFits /\ r.level = LevelOf(risk)
  /\ r.op \in {"weigh", "suspend", "suspendByAdmin"} => BadgeFits

StandingInv ==
  ~ died /\ ~ overlapped =>
    /\ Quiet => BadgeFits
    /\ \A w \in Workers : ~ Idle(w) => Due(inflight[w])

\* The level is one of four, whatever the score.
LEMMA LevelType ==
  ASSUME NEW rs
  PROVE  LevelOf(rs) \in RiskLevel
BY DEF LevelOf, RiskLevel

\* Two in the count are two people.
LEMMA TwoReporters ==
  ASSUME report \in [ReportIds -> ReportRow], Cardinality(Corroborating) >= 2
  PROVE  Corroborated
<1>1. Corroborating # {} BY FS_EmptySet
<1>2. PICK x : x \in Corroborating BY <1>1
<1>3. Corroborating # {x}
  <2>1. Cardinality({x}) = 1 BY FS_Singleton
  <2>2. ASSUME Corroborating = {x} PROVE FALSE
    <3>1. Cardinality(Corroborating) = 1 BY <2>1, <2>2
    <3>2. QED BY <3>1
  <2>3. QED BY <2>2
<1>4. PICK y : y \in Corroborating /\ y # x BY <1>2, <1>3
<1>5. PICK r \in ReportIds : report[r].severity \in Severe /\ report[r].by # Null
                             /\ report[r].by = x
  BY <1>2 DEF Corroborating
<1>6. PICK q \in ReportIds : report[q].severity \in Severe /\ report[q].by # Null
                             /\ report[q].by = y
  BY <1>4 DEF Corroborating
<1>7. QED BY <1>4, <1>5, <1>6 DEF Corroborated

\* The requests of a handler that begins or goes on.
LEMMA ReportReqType ==
  ASSUME NEW o \in ReportOps, NEW r \in ReportIds \cup {Null}, NEW weighs \in BOOLEAN
  PROVE  /\ ReportReq(o, r, weighs) \in ReportRequest /\ ReportReq(o, r, weighs).op = o
         /\ ReportReq(o, r, weighs) # Null
<1>1. ReportReq(o, r, weighs) \in ReportRequest
  BY DEF ReportReq, ReportRequest, RiskLevel
<1>2. QED BY <1>1 DEF ReportReq

\* A step of worker w that changes no report.
LEMMA ReportStep ==
  ASSUME ReportInv, NEW w \in Workers, NEW r, Takes(w, r), Noted, died' \in BOOLEAN,
         r = Null \/ r \in ReportRequest, r # Null /\ r.op = "suspend" => Corroborated,
         report' = report, ruled' = ruled, risk' \subseteq ReportIds, badge' \in RiskLevel,
         suspended' \in {"no", "system", "admin"},
         suspended' = "system" => Corroborated
  PROVE  ReportInv' /\ \A v \in Workers : inflight'[v] = IF v = w THEN r ELSE inflight[v]
<1>1. SettlingOK' /\ \A v \in Workers : inflight'[v] = IF v = w THEN r ELSE inflight[v]
  BY StepBy DEF ReportInv, ReportRowsOK
<1>2. ReportRowsOK' BY <1>1 DEF ReportInv, ReportRowsOK, Idle
<1>3. Corroborated' <=> Corroborated BY DEF Corroborated
<1>4. SuspensionCorroborated' BY <1>3 DEF SuspensionCorroborated, Corroborated
<1>5. \A v \in Workers : Running(v, "suspend")' => Corroborated'
  BY <1>1, <1>3 DEF ReportInv, Running
<1>6. QED BY <1>1, <1>2, <1>4, <1>5 DEF ReportInv

\* A report is filed, or ruled on: who filed which others stays.
LEMMA RowStep ==
  ASSUME ReportInv, NEW r \in ReportIds, NEW row \in ReportRow,
         report' = [report EXCEPT ![r] = row], row.status # "none",
         r \notin ruled' => row.status = "PENDING",
         \/ report[r].status = "none"
         \/ row.by = report[r].by /\ row.severity = report[r].severity,
         ruled \subseteq ruled', ruled' \subseteq ReportIds,
         risk' = risk, badge' = badge, suspended' = suspended,
         SettlingOK', \A w \in Workers : ~ Idle(w)' => inflight'[w] \in ReportRequest,
         \A w \in Workers : Running(w, "suspend")' => Running(w, "suspend")
  PROVE  ReportInv'
<1>1. /\ report' \in [ReportIds -> ReportRow] /\ report'[r] = row
      /\ \A q \in ReportIds \ {r} : report'[q] = report[q]
  BY DEF ReportInv, ReportRowsOK
<1>2. ReportRowsOK' BY <1>1 DEF ReportInv, ReportRowsOK
<1>3. Corroborated => Corroborated'
  BY <1>1 DEF ReportInv, ReportRowsOK, Corroborated
<1>4. QED BY <1>2, <1>3 DEF ReportInv, SuspensionCorroborated, Corroborated

\* The handlers that settle what follows from the reports.
LEMMA SettlesInv ==
  ASSUME ReportInv, NEW w \in Workers, Noted,
         \/ ReadRisk(w) \/ WriteRisk(w) \/ AskForBadge(w) \/ ReadBadge(w) \/ WriteBadge(w)
         \/ Weigh(w) \/ Suspend(w) \/ DropReport(w)
  PROVE  ReportInv'
<1>1. ReportRowsOK /\ (suspended = "system" => Corroborated)
  BY DEF ReportInv, SuspensionCorroborated, Corroborated
<1>2. inflight[w] # Null => inflight[w] \in ReportRequest BY <1>1 DEF ReportRowsOK, Idle
<1>3. died \in BOOLEAN /\ risk \subseteq ReportIds /\ badge \in RiskLevel
      /\ suspended \in {"no", "system", "admin"} /\ OpenReports \subseteq ReportIds
  BY <1>1 DEF ReportRowsOK, SettlingOK, OpenReports
<1> DEFINE Next(r) ==
      /\ Takes(w, r) /\ (r = Null \/ r \in ReportRequest)
      /\ r # Null /\ r.op = "suspend" => Corroborated
<1>4. PICK r : Next(r) /\ report' = report /\ ruled' = ruled /\ died' \in BOOLEAN
               /\ risk' \subseteq ReportIds /\ badge' \in RiskLevel
               /\ suspended' \in {"no", "system", "admin"}
               /\ (suspended' = "system" => Corroborated)
  <2>1. CASE ReadRisk(w)
    <3> DEFINE r == [inflight[w] EXCEPT !.op = "rate", !.seen = OpenReports]
    <3>1. r \in ReportRequest /\ r.op = "rate"
      BY <1>2, <1>3, <2>1 DEF ReadRisk, Running, ReportRequest, ReportOps
    <3>2. Takes(w, r) /\ UNCHANGED <<reportRows, died>> BY <2>1 DEF ReadRisk, Takes
    <3> HIDE DEF r
    <3>3. Next(r) BY <3>1, <3>2
    <3>4. QED BY <1>1, <1>3, <3>2, <3>3 DEF reportRows
  <2>2. CASE WriteRisk(w)
    <3> DEFINE r == [inflight[w] EXCEPT !.op = "score"]
    <3>1. r \in ReportRequest /\ r.op = "score" /\ inflight[w].seen \subseteq ReportIds
      BY <1>2, <2>2 DEF WriteRisk, Running, ReportRequest, ReportOps
    <3>2. Takes(w, r) /\ risk' = inflight[w].seen /\ UNCHANGED <<report, ruled, badge, suspended, died>>
      BY <2>2 DEF WriteRisk, Takes
    <3> HIDE DEF r
    <3>3. Next(r) BY <3>1, <3>2
    <3>4. QED BY <1>1, <1>3, <3>1, <3>2, <3>3
  <2>3. CASE AskForBadge(w)
    <3> DEFINE r == ReportReq("score", Null, FALSE)
    <3>1. r \in ReportRequest /\ r.op = "score" BY ReportReqType DEF ReportOps
    <3>2. Takes(w, r) /\ UNCHANGED <<reportRows, died>> BY <2>3 DEF AskForBadge, Takes
    <3> HIDE DEF r
    <3>3. Next(r) BY <3>1, <3>2
    <3>4. QED BY <1>1, <1>3, <3>2, <3>3 DEF reportRows
  <2>4. CASE ReadBadge(w)
    <3> DEFINE level == LevelOf(risk)
               r == [inflight[w] EXCEPT !.op = "stamp", !.level = level]
    <3>1. level \in RiskLevel BY LevelType
    <3> HIDE DEF level
    <3>2. r \in ReportRequest /\ r.op = "stamp"
      BY <1>2, <2>4, <3>1 DEF ReadBadge, Running, ReportRequest, ReportOps
    <3>3. Takes(w, r) /\ UNCHANGED <<reportRows, died>> BY <2>4 DEF ReadBadge, Takes, level
    <3> HIDE DEF r
    <3>4. Next(r) BY <3>2, <3>3
    <3>5. QED BY <1>1, <1>3, <3>3, <3>4 DEF reportRows
  <2>5. CASE WriteBadge(w)
    <3>1. inflight[w] \in ReportRequest /\ inflight[w].level \in RiskLevel
      BY <1>2, <2>5 DEF WriteBadge, Running, ReportRequest
    <3>2. badge' = inflight[w].level /\ UNCHANGED <<report, ruled, risk, suspended, died>>
      BY <2>5 DEF WriteBadge
    <3>3. CASE inflight[w].weighs
      <4> DEFINE r == [inflight[w] EXCEPT !.op = "weigh"]
      <4>1. r \in ReportRequest /\ r.op = "weigh" BY <3>1 DEF ReportRequest, ReportOps
      <4>2. Takes(w, r) BY <2>5, <3>3 DEF WriteBadge, Takes
      <4> HIDE DEF r
      <4>3. Next(r) BY <4>1, <4>2
      <4>4. QED BY <1>1, <1>3, <3>1, <3>2, <4>3
    <3>4. CASE ~ inflight[w].weighs
      <4>1. Next(Null) BY <2>5, <3>4, EndTakesNull DEF WriteBadge
      <4>2. QED BY <1>1, <1>3, <3>1, <3>2, <4>1
    <3>5. QED BY <3>3, <3>4
  <2>6. CASE Weigh(w)
    <3>1. UNCHANGED <<reportRows, died>> BY <2>6 DEF Weigh
    <3>2. CASE LevelOf(risk) \in {"HIGH", "SUSPICIOUS"} /\ Cardinality(Corroborating) >= 2
      <4> DEFINE r == [inflight[w] EXCEPT !.op = "suspend"]
      <4>1. Corroborated BY <1>1, <3>2, TwoReporters DEF ReportRowsOK
      <4>2. r \in ReportRequest /\ r.op = "suspend"
        BY <1>2, <2>6 DEF Weigh, Running, ReportRequest, ReportOps
      <4>3. Takes(w, r) BY <2>6, <3>2 DEF Weigh, Takes
      <4> HIDE DEF r
      <4>4. Next(r) BY <4>1, <4>2, <4>3
      <4>5. QED BY <1>1, <1>3, <3>1, <4>4 DEF reportRows
    <3>3. CASE ~ (LevelOf(risk) \in {"HIGH", "SUSPICIOUS"} /\ Cardinality(Corroborating) >= 2)
      <4>1. Next(Null) BY <2>6, <3>3, EndTakesNull DEF Weigh
      <4>2. QED BY <1>1, <1>3, <3>1, <4>1 DEF reportRows
    <3>4. QED BY <3>2, <3>3
  <2>7. CASE Suspend(w)
    <3>1. Next(Null) BY <2>7, EndTakesNull DEF Suspend
    <3>2. suspended' = IF inflight[w].op = "suspend" THEN "system" ELSE "admin"
      BY <2>7 DEF Suspend
    <3>3. inflight[w].op = "suspend" => Corroborated BY <2>7 DEF Suspend, ReportInv, Running
    <3>4. UNCHANGED <<report, ruled, risk, badge, died>> BY <2>7 DEF Suspend
    <3>5. QED BY <1>3, <3>1, <3>2, <3>3, <3>4
  <2>8. CASE DropReport(w)
    <3>1. Next(Null) BY <2>8, EndTakesNull DEF DropReport, Die
    <3>2. UNCHANGED reportRows /\ died' = TRUE BY <2>8 DEF DropReport, Die
    <3>3. QED BY <1>1, <1>3, <3>1, <3>2 DEF reportRows
  <2>9. QED BY <2>1, <2>2, <2>3, <2>4, <2>5, <2>6, <2>7, <2>8
<1>5. QED BY <1>4, ReportStep

\* A report is filed.
LEMMA SubmitInv ==
  ASSUME ReportInv, Noted, NEW w \in Workers, NEW r \in ReportIds,
         NEW who \in Reporters \cup {Null}, NEW severity \in Severities,
         SubmitReport(w, r, who, severity)
  PROVE  ReportInv'
<1> DEFINE row == [by |-> who, severity |-> severity, status |-> "PENDING"]
           weighs == severity \in Severe
           req == ReportReq("assess", r, weighs)
<1>1. row \in ReportRow /\ row.status = "PENDING" BY DEF ReportRow
<1>2. req \in ReportRequest /\ req # Null /\ req.op = "assess"
  <2>1. weighs \in BOOLEAN OBVIOUS
  <2> HIDE DEF weighs
  <2>2. QED BY <2>1, ReportReqType DEF ReportOps
<1>3. /\ Takes(w, req) /\ report' = [report EXCEPT ![r] = row] /\ report[r].status = "none"
      /\ ruled' = ruled /\ risk' = risk /\ badge' = badge /\ suspended' = suspended
      /\ died' = died
  BY DEF SubmitReport, Takes
<1> HIDE DEF req, row
<1>4. /\ SettlingOK'
      /\ \A v \in Workers : inflight'[v] = IF v = w THEN req ELSE inflight[v]
  BY <1>3, StepBy DEF ReportInv, ReportRowsOK, SettlingOK
<1>5. /\ \A v \in Workers : ~ Idle(v)' => inflight'[v] \in ReportRequest
      /\ \A v \in Workers : Running(v, "suspend")' => Running(v, "suspend")
  BY <1>2, <1>4 DEF ReportInv, ReportRowsOK, Idle, Running
<1>6. ruled \subseteq ruled' /\ ruled' \subseteq ReportIds
  BY <1>3 DEF ReportInv, ReportRowsOK
<1>7. QED BY <1>1, <1>3, <1>4, <1>5, <1>6, RowStep

\* A report is ruled on.
LEMMA ModerateInv ==
  ASSUME ReportInv, Noted, NEW w \in Workers, NEW r \in ReportIds, NEW action \in Actions,
         ModerateReport(w, r, action)
  PROVE  ReportInv'
<1> DEFINE status == StatusMap(action)
           row == [report[r] EXCEPT !.status = status]
<1>1. /\ SettlingOK /\ report[r] \in ReportRow
      /\ \A v \in Workers : ~ Idle(v) => inflight[v] \in ReportRequest
  BY DEF ReportInv, ReportRowsOK
<1>2. status \in {"UNDER_REVIEW", "RESOLVED", "DISMISSED"} BY DEF StatusMap, Actions
<1> HIDE DEF status
<1>3. row \in ReportRow /\ row.status # "none" /\ row.by = report[r].by
      /\ row.severity = report[r].severity
  BY <1>1, <1>2 DEF ReportRow
<1>4. /\ report' = [report EXCEPT ![r] = row] /\ ruled' = ruled \cup {r} /\ died' = died
      /\ risk' = risk /\ badge' = badge /\ suspended' = suspended
  BY DEF ModerateReport, ReportInv, ReportRowsOK, status
<1> HIDE DEF row
<1>5. \/ CommitFirst(w, ReportReq("suspendByAdmin", r, FALSE))
      \/ CommitFirst(w, ReportReq("assess", r, FALSE))
      \/ CommitAtOnce(r)
  BY DEF ModerateReport
<1>6. /\ SettlingOK'
      /\ \A v \in Workers : ~ Idle(v)' => inflight'[v] \in ReportRequest
      /\ \A v \in Workers : Running(v, "suspend")' => Running(v, "suspend")
  <2>1. ASSUME NEW o \in {"suspendByAdmin", "assess"}, CommitFirst(w, ReportReq(o, r, FALSE))
        PROVE  <1>6!1 /\ <1>6!2 /\ <1>6!3
    <3> DEFINE req == ReportReq(o, r, FALSE)
    <3>1. req \in ReportRequest /\ req.op = o BY ReportReqType DEF ReportOps
    <3>2. Takes(w, req) BY <2>1 DEF Takes
    <3> HIDE DEF req
    <3>3. /\ SettlingOK'
          /\ \A v \in Workers : inflight'[v] = IF v = w THEN req ELSE inflight[v]
      BY <1>1, <1>4, <3>2, StepBy DEF SettlingOK
    <3>4. QED BY <1>1, <3>1, <3>3 DEF Idle, Running
  <2>2. CASE CommitAtOnce(r)
    <3>1. SettlingOK' /\ inflight' = inflight
      BY <1>1, <1>4, <2>2, StepAtOnce DEF SettlingOK
    <3>2. QED BY <1>1, <3>1 DEF Idle, Running
  <2>3. QED BY <1>5, <2>1, <2>2
<1>7. ruled \subseteq ruled' /\ ruled' \subseteq ReportIds /\ r \in ruled'
  BY <1>4 DEF ReportInv, ReportRowsOK
<1>8. QED BY <1>3, <1>4, <1>6, <1>7, RowStep

\* A step of worker w while nothing overlaps, which leaves it with what is due.
LEMMA StandingStep ==
  ASSUME SettlingOK, NEW w \in Workers, NEW r, Takes(w, r), Noted, died' \in BOOLEAN,
         died => died',
         ~ died' /\ ~ overlapped => IF r = Null THEN BadgeFits' ELSE Due(r)'
  PROVE  StandingInv'
<1> SUFFICES ASSUME ~ died', ~ overlapped'
             PROVE  /\ Quiet' => BadgeFits'
                    /\ \A v \in Workers : ~ Idle(v)' => Due(inflight[v])'
  BY DEF StandingInv
<1>1. \A v \in Workers : inflight'[v] = IF v = w THEN r ELSE inflight[v] BY StepBy
<1>2. ~ overlapped /\ \A v \in Workers : v # w => inflight'[v] = Null BY SoloStep
<1>3. IF r = Null THEN BadgeFits' ELSE Due(r)' BY <1>2
<1>4. Quiet' => r = Null BY <1>1 DEF Quiet, Idle
<1>5. QED BY <1>1, <1>2, <1>3, <1>4 DEF Idle, Due

\* The handlers that settle what follows from the reports.
LEMMA SettlesStanding ==
  ASSUME ReportInv, StandingInv, NEW w \in Workers, Noted,
         \/ ReadRisk(w) \/ WriteRisk(w) \/ AskForBadge(w) \/ ReadBadge(w) \/ WriteBadge(w)
         \/ Weigh(w) \/ Suspend(w) \/ DropReport(w)
  PROVE  StandingInv'
<1>1. SettlingOK /\ died \in BOOLEAN /\ (inflight[w] # Null => inflight[w] \in ReportRequest)
  BY DEF ReportInv, ReportRowsOK, SettlingOK, Idle
<1>2. ~ died /\ ~ overlapped /\ inflight[w] # Null => Due(inflight[w])
  BY DEF StandingInv, Idle
<1>3. CASE ReadRisk(w)
  <2> DEFINE seen == OpenReports
             x == [inflight[w] EXCEPT !.op = "rate", !.seen = seen]
  <2>1. seen \subseteq ReportIds BY DEF OpenReports
  <2> HIDE DEF seen
  <2>2. x \in ReportRequest /\ x.op = "rate" /\ x.seen = seen
    BY <1>1, <1>3, <2>1 DEF ReadRisk, Running, ReportRequest, ReportOps
  <2>3. Takes(w, x) /\ UNCHANGED <<reportRows, died>> BY <1>3 DEF ReadRisk, Takes, seen
  <2> HIDE DEF x
  <2>4. PICK r : r = x OBVIOUS
  <2>5. OpenReports' = OpenReports BY <2>3 DEF reportRows, OpenReports
  <2>6. Due(r)' BY <2>2, <2>4, <2>5 DEF Due, seen
  <2>7. r # Null /\ Takes(w, r) BY <2>2, <2>3, <2>4
  <2>8. QED BY <1>1, <2>3, <2>6, <2>7, StandingStep
<1>4. CASE WriteRisk(w)
  <2> DEFINE x == [inflight[w] EXCEPT !.op = "score"]
  <2>1. x \in ReportRequest /\ x.op = "score" /\ inflight[w].op = "rate"
    BY <1>1, <1>4 DEF WriteRisk, Running, ReportRequest, ReportOps
  <2>2. Takes(w, x) /\ risk' = inflight[w].seen /\ report' = report /\ died' = died
    BY <1>4 DEF WriteRisk, Takes
  <2> HIDE DEF x
  <2>3. OpenReports' = OpenReports BY <2>2 DEF OpenReports
  <2>4. ~ died /\ ~ overlapped => RiskFits'
    BY <1>2, <1>4, <2>1, <2>2, <2>3 DEF Due, RiskFits, WriteRisk, Running
  <2>5. PICK r : r = x OBVIOUS
  <2>6. r # Null /\ r.op = "score" /\ Takes(w, r) BY <2>1, <2>2, <2>5
  <2>7. ~ died /\ ~ overlapped => Due(r)' BY <2>4, <2>6 DEF Due
  <2>8. QED BY <1>1, <2>2, <2>6, <2>7, StandingStep
<1>5. CASE AskForBadge(w)
  <2> DEFINE r == ReportReq("score", Null, FALSE)
  <2>1. r # Null /\ r.op = "score" BY ReportReqType DEF ReportOps
  <2>2. Takes(w, r) /\ UNCHANGED <<reportRows, died>> /\ inflight[w] = Null
    BY <1>5 DEF AskForBadge, Takes, Begin, Idle
  <2> HIDE DEF r
  <2>3. OpenReports' = OpenReports /\ risk' = risk BY <2>2 DEF OpenReports, reportRows
  <2>4. ~ died' /\ ~ overlapped' => Quiet
    BY <1>1, <2>2, SoloStep DEF Quiet, Idle
  <2>5. ASSUME ~ died', ~ overlapped' PROVE RiskFits'
    <3>1. ~ died /\ ~ overlapped /\ Quiet BY <1>1, <2>2, <2>4, <2>5, SoloStep
    <3>2. QED BY <2>3, <3>1 DEF StandingInv, BadgeFits, RiskFits
  <2>6. ASSUME ~ died', ~ overlapped' PROVE StandingInv'
    <3>1. \A v \in Workers : inflight'[v] = IF v = w THEN r ELSE Null
      <4>1. died' \in BOOLEAN BY <1>1, <2>2
      <4>2. QED BY <1>1, <2>2, <2>4, <2>6, <4>1, StepBy DEF Quiet, Idle
    <3>2. Due(r)' BY <2>1, <2>5, <2>6 DEF Due
    <3>3. ~ Quiet' /\ \A v \in Workers : ~ Idle(v)' => Due(inflight[v])'
      BY <2>1, <3>1, <3>2 DEF Quiet, Idle, Due
    <3>4. QED BY <3>3 DEF StandingInv
  <2>7. QED BY <2>6 DEF StandingInv
<1>6. CASE ReadBadge(w)
  <2> DEFINE level == LevelOf(risk)
             x == [inflight[w] EXCEPT !.op = "stamp", !.level = level]
  <2>1. level \in RiskLevel BY LevelType
  <2> HIDE DEF level
  <2>2. x \in ReportRequest /\ x.op = "stamp" /\ x.level = level
        /\ inflight[w].op = "score" /\ inflight[w] # Null
    BY <1>1, <1>6, <2>1 DEF ReadBadge, Running, ReportRequest, ReportOps
  <2>3. Takes(w, x) /\ UNCHANGED <<reportRows, died>> BY <1>6 DEF ReadBadge, Takes, level
  <2> HIDE DEF x
  <2>4. OpenReports' = OpenReports /\ risk' = risk /\ LevelOf(risk)' = LevelOf(risk)
    BY <2>3 DEF OpenReports, reportRows, LevelOf, Score, OfSeverity
  <2>5. ~ died /\ ~ overlapped => RiskFits' BY <1>2, <2>2, <2>4 DEF Due, RiskFits
  <2>6. PICK r : r = x OBVIOUS
  <2>7. r # Null /\ r.op = "stamp" /\ r.level = LevelOf(risk)' /\ Takes(w, r)
    BY <2>2, <2>3, <2>4, <2>6 DEF level
  <2>8. ~ died /\ ~ overlapped => Due(r)' BY <2>5, <2>7 DEF Due
  <2>9. QED BY <1>1, <2>3, <2>7, <2>8, StandingStep
<1>7. CASE WriteBadge(w)
  <2>1. /\ inflight[w] \in ReportRequest /\ inflight[w].op = "stamp" /\ inflight[w] # Null
        /\ badge' = inflight[w].level /\ UNCHANGED <<report, ruled, risk, suspended, died>>
    BY <1>1, <1>7 DEF WriteBadge, Running
  <2>2. OpenReports' = OpenReports /\ risk' = risk /\ LevelOf(risk)' = LevelOf(risk)
    BY <2>1 DEF OpenReports, LevelOf, Score, OfSeverity
  <2>3. ~ died /\ ~ overlapped => BadgeFits'
    BY <1>2, <2>1, <2>2 DEF Due, RiskFits, BadgeFits
  <2>4. CASE inflight[w].weighs
    <3> DEFINE x == [inflight[w] EXCEPT !.op = "weigh"]
    <3>1. x \in ReportRequest /\ x.op = "weigh" BY <2>1 DEF ReportRequest, ReportOps
    <3>2. Takes(w, x) BY <1>7, <2>4 DEF WriteBadge, Takes
    <3> HIDE DEF x
    <3>3. PICK r : r = x OBVIOUS
    <3>4. r # Null /\ r.op = "weigh" /\ Takes(w, r) BY <3>1, <3>2, <3>3
    <3>5. ~ died /\ ~ overlapped => Due(r)' BY <2>3, <3>4 DEF Due
    <3>6. QED BY <1>1, <2>1, <3>4, <3>5, StandingStep
  <2>5. CASE ~ inflight[w].weighs
    <3>1. Takes(w, Null) BY <1>7, <2>5, EndTakesNull DEF WriteBadge
    <3>2. QED BY <1>1, <2>1, <2>3, <3>1, StandingStep
  <2>6. QED BY <2>4, <2>5
<1>8. CASE Weigh(w) \/ Suspend(w)
  <2>1. /\ inflight[w] \in ReportRequest /\ inflight[w] # Null
        /\ inflight[w].op \in {"weigh", "suspend", "suspendByAdmin"}
        /\ UNCHANGED <<report, risk, badge, died>>
    BY <1>1, <1>8 DEF Weigh, Suspend, Running, reportRows
  <2>2. OpenReports' = OpenReports /\ LevelOf(risk)' = LevelOf(risk)
    BY <2>1 DEF OpenReports, LevelOf, Score, OfSeverity
  <2>3. ~ died /\ ~ overlapped => BadgeFits'
    BY <1>2, <2>1, <2>2 DEF Due, RiskFits, BadgeFits
  <2> DEFINE x == [inflight[w] EXCEPT !.op = "suspend"]
  <2>4. x \in ReportRequest /\ x.op = "suspend" BY <2>1 DEF ReportRequest, ReportOps
  <2>5. Takes(w, x) \/ Takes(w, Null) BY <1>8, EndTakesNull DEF Weigh, Suspend, Takes
  <2> HIDE DEF x
  <2>6. PICK r : r = x OBVIOUS
  <2>7. r # Null /\ r.op = "suspend" /\ (Takes(w, r) \/ Takes(w, Null))
    BY <2>4, <2>5, <2>6
  <2>8. ~ died /\ ~ overlapped => Due(r)' BY <2>3, <2>7 DEF Due
  <2>9. QED BY <1>1, <2>1, <2>3, <2>7, <2>8, StandingStep
<1>9. CASE DropReport(w)
  BY <1>9 DEF DropReport, Die, StandingInv
<1>10. QED BY <1>3, <1>4, <1>5, <1>6, <1>7, <1>8, <1>9

\* A ruling that does not dismiss the report changes nothing the score is made of.
LEMMA RulingFits ==
  ASSUME ReportInv, NEW w \in Workers, NEW r \in ReportIds, NEW action \in Actions,
         ModerateReport(w, r, action), ~ Rescores(action), BadgeFits
  PROVE  BadgeFits'
<1> DEFINE status == StatusMap(action)
<1>1. /\ report[r] \in ReportRow /\ report[r].status = "PENDING"
      /\ report \in [ReportIds -> ReportRow]
  BY DEF ReportInv, ReportRowsOK, ModerateReport
<1>2. status \notin {"none", "DISMISSED"} BY DEF StatusMap, Actions, Rescores
<1> HIDE DEF status
<1>3. /\ report' = [report EXCEPT ![r].status = status] /\ risk' = risk /\ badge' = badge
  BY DEF ModerateReport, status
<1>4. /\ report'[r].status = status /\ \A q \in ReportIds : report'[q].severity = report[q].severity
      /\ \A q \in ReportIds \ {r} : report'[q] = report[q]
  BY <1>1, <1>3 DEF ReportRow
<1>5. OpenReports' = OpenReports BY <1>1, <1>2, <1>4 DEF OpenReports
<1>6. risk \subseteq ReportIds BY DEF ReportInv, ReportRowsOK
<1>7. ASSUME NEW s PROVE OfSeverity(risk, s)' = OfSeverity(risk, s)
  <2>1. {q \in risk : report'[q].severity = s} = {q \in risk : report[q].severity = s}
    BY <1>4, <1>6
  <2>2. QED BY <1>3, <2>1 DEF OfSeverity
<1>8. LevelOf(risk)' = LevelOf(risk)
  <2>1. Score(risk)' = Score(risk) BY <1>7 DEF Score
  <2>2. QED BY <2>1 DEF LevelOf
<1>9. QED BY <1>3, <1>5, <1>8 DEF BadgeFits, RiskFits

\* A report is filed, or ruled on.
LEMMA FilesStanding ==
  ASSUME ReportInv, StandingInv, Noted, NEW w \in Workers, NEW r \in ReportIds,
         \/ \E who \in Reporters \cup {Null}, severity \in Severities :
              SubmitReport(w, r, who, severity)
         \/ \E action \in Actions : ModerateReport(w, r, action)
  PROVE  StandingInv'
<1> SUFFICES ASSUME ~ died', ~ overlapped' PROVE StandingInv'
  BY DEF StandingInv
<1>1. SettlingOK /\ inflight[w] = Null /\ died' = died
  BY DEF ReportInv, ReportRowsOK, SubmitReport, ModerateReport, Idle
<1>2. ASSUME NEW o \in {"assess", "suspendByAdmin"}, NEW weighs \in BOOLEAN,
             CommitFirst(w, ReportReq(o, r, weighs)),
             o = "suspendByAdmin" /\ Quiet => BadgeFits'
      PROVE  StandingInv'
  <2> DEFINE req == ReportReq(o, r, weighs)
  <2>1. req # Null /\ req.op = o BY ReportReqType DEF ReportOps
  <2>2. Takes(w, req) BY <1>2 DEF Takes
  <2> HIDE DEF req
  <2>3. Quiet BY <1>1, <2>2, SoloStep DEF Quiet, Idle
  <2>4. Due(req)' BY <1>2, <2>1, <2>3 DEF Due
  <2>5. died' \in BOOLEAN BY <1>1 DEF SettlingOK
  <2>6. QED BY <1>1, <2>1, <2>2, <2>4, <2>5, StandingStep
<1>3. ASSUME NEW who \in Reporters \cup {Null}, NEW severity \in Severities,
             SubmitReport(w, r, who, severity)
      PROVE  StandingInv'
  <2> DEFINE weighs == severity \in Severe
  <2>1. CommitFirst(w, ReportReq("assess", r, weighs)) /\ weighs \in BOOLEAN
    BY <1>3 DEF SubmitReport
  <2> HIDE DEF weighs
  <2>2. QED BY <1>2, <2>1
<1>4. ASSUME NEW action \in Actions, ModerateReport(w, r, action) PROVE StandingInv'
  <2>1. ASSUME Quiet, ~ Rescores(action) PROVE BadgeFits'
    <3>1. overlapped \in BOOLEAN /\ ~ overlapped BY <1>1 DEF SettlingOK, Noted
    <3>2. BadgeFits BY <1>1, <2>1, <3>1 DEF StandingInv
    <3>3. QED BY <1>4, <2>1, <3>2, RulingFits
  <2>2. CASE action = "SUSPEND"
    <3>1. ~ Rescores(action) BY <2>2 DEF Rescores, StatusMap
    <3>2. CommitFirst(w, ReportReq("suspendByAdmin", r, FALSE))
      BY <1>4, <2>2, <3>1 DEF ModerateReport
    <3>3. QED BY <1>2, <2>1, <3>1, <3>2
  <2>3. CASE Rescores(action)
    <3>1. action # "SUSPEND" BY <2>3 DEF Rescores, StatusMap
    <3>2. CommitFirst(w, ReportReq("assess", r, FALSE)) BY <1>4, <2>3, <3>1 DEF ModerateReport
    <3>3. QED BY <1>2, <3>2
  <2>4. CASE action # "SUSPEND" /\ ~ Rescores(action)
    <3>1. CommitAtOnce(r) BY <1>4, <2>4 DEF ModerateReport
    <3>2. inflight' = inflight BY <3>1 DEF CommitAtOnce
    <3>3. Quiet BY <3>2 DEF Noted, Bystander, Quiet
    <3>4. BadgeFits' BY <2>1, <2>4, <3>3
    <3>5. QED BY <3>2, <3>3, <3>4 DEF StandingInv, Quiet, Idle
  <2>5. QED BY <2>2, <2>3, <2>4
<1>5. QED BY <1>3, <1>4

\* Every step keeps both.
LEMMA ReportsNextInv ==
  ASSUME ReportInv, StandingInv, [ReportsNext]_reportVars
  PROVE  ReportInv' /\ StandingInv'
<1>1. CASE UNCHANGED reportVars
  <2>1. UNCHANGED <<report, ruled, risk, badge, suspended, inflight, overtaken, died, overlapped>>
    BY <1>1 DEF reportVars, reportRows, settlingVars, handlerVars
  <2>2. ReportInv'
    BY <2>1 DEF ReportInv, ReportRowsOK, SettlingOK, InflightOK, SuspensionCorroborated,
       Corroborated, Idle, Running
  <2>3. OpenReports' = OpenReports /\ LevelOf(risk)' = LevelOf(risk)
    BY <2>1 DEF OpenReports, LevelOf, Score, OfSeverity
  <2>4. BadgeFits' = BadgeFits /\ RiskFits' = RiskFits BY <2>1, <2>3 DEF BadgeFits, RiskFits
  <2>5. StandingInv' BY <2>1, <2>3, <2>4 DEF StandingInv, Due, Quiet, Idle
  <2>6. QED BY <2>2, <2>5
<1>2. CASE ReportsNext
  <2>1. Noted BY <1>2 DEF ReportsNext
  <2>2. ASSUME NEW w \in Workers,
               \/ ReadRisk(w) \/ WriteRisk(w) \/ AskForBadge(w) \/ ReadBadge(w)
               \/ WriteBadge(w) \/ Weigh(w) \/ Suspend(w) \/ DropReport(w)
        PROVE  ReportInv' /\ StandingInv'
    BY <2>1, <2>2, SettlesInv, SettlesStanding
  <2>3. ASSUME NEW w \in Workers, NEW r \in ReportIds,
               \/ \E who \in Reporters \cup {Null}, severity \in Severities :
                    SubmitReport(w, r, who, severity)
               \/ \E action \in Actions : ModerateReport(w, r, action)
        PROVE  ReportInv' /\ StandingInv'
    BY <2>1, <2>3, SubmitInv, ModerateInv, FilesStanding
  <2>4. QED BY <1>2, <2>2, <2>3 DEF ReportsNext
<1>3. QED BY <1>1, <1>2

\* No reports, no risk.
LEMMA ReportsInitInv == ReportsInit => ReportInv /\ StandingInv
<1> SUFFICES ASSUME ReportsInit PROVE ReportInv /\ StandingInv
  OBVIOUS
<1>1. SettlingOK /\ \A w \in Workers : inflight[w] = Null
  BY NoneInflight DEF ReportsInit, SettlingInit, SettlingOK
<1>2. Unfiled \in ReportRow BY DEF Unfiled, ReportRow
<1>3. ReportInv
  BY <1>1, <1>2 DEF ReportsInit, ReportInv, ReportRowsOK, SuspensionCorroborated, RiskLevel,
     Unfiled, Idle, Running
<1>4. risk = {} /\ OpenReports = {} BY DEF ReportsInit, OpenReports, Unfiled
<1>5. LevelOf(risk) = "LOW"
  <2>1. ASSUME NEW s PROVE OfSeverity(risk, s) = 0
    <3>1. {r \in risk : report[r].severity = s} = {} BY <1>4
    <3>2. QED BY <3>1, FS_EmptySet DEF OfSeverity
  <2>2. Score(risk) = 0 BY <2>1 DEF Score
  <2>3. QED BY <2>2 DEF LevelOf
<1>6. StandingInv
  BY <1>1, <1>4, <1>5 DEF ReportsInit, StandingInv, BadgeFits, RiskFits, Idle
<1>7. QED BY <1>3, <1>6

\* No account alone, and no number of anonymous reports, has the platform suspend a
\* listing, for any reports, reporters and overlapping handlers.
THEOREM NoLoneSuspension == ReportsSpec => []SuspensionCorroborated
<1>1. ReportInv => SuspensionCorroborated BY DEF ReportInv
<1>2. QED BY <1>1, ReportsInitInv, ReportsNextInv, PTL DEF ReportsSpec

\* After handlers one by one the risk row and the badge are about the open reports,
\* whatever was filed, dismissed or ruled on in between.
THEOREM StandingIsCurrent == ReportsSpec => []StandingFollowsReports
<1>1. ReportInv /\ StandingInv => StandingFollowsReports
  BY DEF ReportInv, ReportRowsOK, SettlingOK, StandingInv, StandingFollowsReports, Settled,
     BadgeFits, RiskFits
<1>2. QED BY <1>1, ReportsInitInv, ReportsNextInv, PTL DEF ReportsSpec

\* Reports, the listing's risk and badge, and the requests about them keep their types.
THEOREM ReportsTyped == ReportsSpec => []ReportsTypeOK
<1>1. ReportInv => ReportsTypeOK
  BY DEF ReportInv, ReportRowsOK, ReportRow, ReportsTypeOK
<1>2. QED BY <1>1, ReportsInitInv, ReportsNextInv, PTL DEF ReportsSpec
-----------------------------------------------------------------------------
(* Points                                                                   *)

\* The levels that points amount to have been announced once each.
ToldFor(points) ==
  \A l \in Levels \ {1} : told[l] = IF LevelMin[l] <= points THEN 1 ELSE 0

\* While no handler overlaps another or dies, the levels told are those of the
\* ledger, less the one award whose handler has yet to look.
ToldRight ==
  ~ died /\ ~ overlapped =>
    /\ Quiet => ToldFor(Total(earned))
    /\ \A w \in Workers : Running(w, "announce") =>
         inflight[w].on \in earned /\ ToldFor(Total(earned) - Worth[inflight[w].on])

PointsOnly == \A w \in Workers : ~ Idle(w) => inflight[w] \in PointsRequest

PointsInv == PointsTypeOK /\ IsFiniteSet(earned) /\ PointsOnly /\ ToldRight

\* One more row counts under its own worth.
LEMMA OfWorthPlus ==
  ASSUME NEW S \in SUBSET Awards, IsFiniteSet(S), NEW a \in Awards \ S, NEW n \in Nat
  PROVE  /\ OfWorth(S, n) \in Nat
         /\ OfWorth(S \cup {a}, n) = OfWorth(S, n) + (IF Worth[a] = n THEN 1 ELSE 0)
<1> DEFINE C == {b \in S : Worth[b] = n}
<1>1. IsFiniteSet(C) BY FS_Subset
<1>2. Cardinality(C) \in Nat BY <1>1, FS_CardinalityType
<1>3. CASE Worth[a] = n
  <2>1. {b \in S \cup {a} : Worth[b] = n} = C \cup {a} BY <1>3
  <2>2. Cardinality(C \cup {a}) = Cardinality(C) + 1 BY <1>1, FS_AddElement
  <2>3. QED BY <1>2, <1>3, <2>1, <2>2 DEF OfWorth
<1>4. CASE Worth[a] # n
  <2>1. {b \in S \cup {a} : Worth[b] = n} = C BY <1>4
  <2>2. OfWorth(S \cup {a}, n) = Cardinality(C) /\ OfWorth(S, n) = Cardinality(C)
    BY <2>1 DEF OfWorth
  <2> HIDE DEF C
  <2>3. QED BY <1>2, <1>4, <2>2
<1>5. QED BY <1>3, <1>4

\* An award adds its worth to the total.
LEMMA TotalPlus ==
  ASSUME NEW S \in SUBSET Awards, IsFiniteSet(S), NEW a \in Awards \ S
  PROVE  Total(S) \in Nat /\ Total(S \cup {a}) = Total(S) + Worth[a]
<1> DEFINE N(n) == OfWorth(S, n)
           M(n) == OfWorth(S \cup {a}, n)
<1>1. Worth[a] \in {30, 40, 50, 80, 100, 120} BY PointsAssumption
<1>2. /\ N(30) \in Nat /\ M(30) = N(30) + (IF Worth[a] = 30 THEN 1 ELSE 0)
      /\ N(40) \in Nat /\ M(40) = N(40) + (IF Worth[a] = 40 THEN 1 ELSE 0)
      /\ N(50) \in Nat /\ M(50) = N(50) + (IF Worth[a] = 50 THEN 1 ELSE 0)
      /\ N(80) \in Nat /\ M(80) = N(80) + (IF Worth[a] = 80 THEN 1 ELSE 0)
      /\ N(100) \in Nat /\ M(100) = N(100) + (IF Worth[a] = 100 THEN 1 ELSE 0)
      /\ N(120) \in Nat /\ M(120) = N(120) + (IF Worth[a] = 120 THEN 1 ELSE 0)
  BY OfWorthPlus
<1>3. /\ Total(S) = 30 * N(30) + 40 * N(40) + 50 * N(50) + 80 * N(80) + 100 * N(100) + 120 * N(120)
      /\ Total(S \cup {a})
           = 30 * M(30) + 40 * M(40) + 50 * M(50) + 80 * M(80) + 100 * M(100) + 120 * M(120)
  BY DEF Total
<1> HIDE DEF N, M
<1>4. QED BY <1>1, <1>2, <1>3

\* LevelMin, row by row.
LEMMA LevelMins ==
  /\ LevelMin[1] = 0 /\ LevelMin[2] = 100 /\ LevelMin[3] = 300 /\ LevelMin[4] = 600
  /\ LevelMin[5] = 1000 /\ Levels = {1, 2, 3, 4, 5}
BY DEF LevelMin, Levels

\* levelFor finds the highest level the points reach.
LEMMA LevelForIs ==
  ASSUME NEW n \in Nat
  PROVE  /\ LevelFor(n) \in Levels
         /\ LevelMin[LevelFor(n)] <= n
         /\ \A m \in Levels : LevelMin[m] <= n => m <= LevelFor(n)
<1> DEFINE IsLevel(l) == LevelMin[l] <= n /\ \A m \in Levels : LevelMin[m] <= n => m <= l
<1>2. \E l \in Levels : IsLevel(l)
  <2>1. CASE n < 100
    <3>1. IsLevel(1) BY <2>1, LevelMins
    <3>2. QED BY <3>1, LevelMins
  <2>2. CASE 100 <= n /\ n < 300
    <3>1. IsLevel(2) BY <2>2, LevelMins
    <3>2. QED BY <3>1, LevelMins
  <2>3. CASE 300 <= n /\ n < 600
    <3>1. IsLevel(3) BY <2>3, LevelMins
    <3>2. QED BY <3>1, LevelMins
  <2>4. CASE 600 <= n /\ n < 1000
    <3>1. IsLevel(4) BY <2>4, LevelMins
    <3>2. QED BY <3>1, LevelMins
  <2>5. CASE 1000 <= n
    <3>1. IsLevel(5) BY <2>5, LevelMins
    <3>2. QED BY <3>1, LevelMins
  <2>6. QED BY <2>1, <2>2, <2>3, <2>4, <2>5
<1>3. LevelFor(n) = CHOOSE l \in Levels : IsLevel(l) BY DEF LevelFor
<1> HIDE DEF IsLevel
<1>4. LevelFor(n) \in Levels /\ IsLevel(LevelFor(n)) BY <1>2, <1>3
<1>5. QED BY <1>4 DEF IsLevel

\* What an announcement writes: the level crossed, if one was, told once more.
LEMMA AnnounceTells ==
  ASSUME PointsInv, ~ died, ~ overlapped, NEW w \in Workers, Announce(w)
  PROVE  ToldFor(Total(earned))'
<1> DEFINE a == inflight[w].on
           n == Total(earned)
           b == n - Worth[a]
           after == LevelFor(n)
           before == LevelFor(b)
<1>1. a \in earned /\ ToldFor(b)
  BY DEF PointsInv, ToldRight, Announce
<1>2. a \in Awards /\ Worth[a] \in {30, 40, 50, 80, 100, 120}
  BY <1>1, PointsAssumption DEF PointsInv, PointsTypeOK
<1>3. b \in Nat /\ n \in Nat /\ n = b + Worth[a]
  <2> DEFINE S == earned \ {a}
  <2>1. S \in SUBSET Awards /\ IsFiniteSet(S) /\ a \notin S /\ earned = S \cup {a}
    BY <1>1, FS_Subset DEF PointsInv, PointsTypeOK
  <2>2. Worth[a] \in Nat BY <1>2
  <2> HIDE DEF S
  <2>3. Total(S) \in Nat /\ Total(S \cup {a}) = Total(S) + Worth[a]
    BY <1>2, <2>1, TotalPlus
  <2>4. n = Total(S) + Worth[a] BY <2>1, <2>3
  <2> HIDE DEF n
  <2>5. QED BY <2>2, <2>3, <2>4
<1>4. /\ told' = IF after > before THEN [told EXCEPT ![after] = IF @ = 2 THEN 2 ELSE @ + 1] ELSE told
      /\ earned' = earned
  BY DEF Announce, LevelBefore
<1>5. told \in [Levels -> 0..2] BY DEF PointsInv, PointsTypeOK
<1> HIDE DEF n, b, a
<1>6. /\ after \in Levels /\ LevelMin[after] <= n
      /\ \A m \in Levels : LevelMin[m] <= n => m <= after
  BY <1>3, LevelForIs
<1>7. /\ before \in Levels /\ LevelMin[before] <= b
      /\ \A m \in Levels : LevelMin[m] <= b => m <= before
  BY <1>3, LevelForIs
<1>8. n <= b + 120 /\ b < n BY <1>2, <1>3
<1> HIDE DEF after, before
<1>9. ASSUME NEW l \in Levels \ {1}
      PROVE  told'[l] = IF LevelMin[l] <= n THEN 1 ELSE 0
  <2>1. told[l] = IF LevelMin[l] <= b THEN 1 ELSE 0 BY <1>1 DEF ToldFor
  <2>2. CASE after > before
    <3>1. l # after => (LevelMin[l] <= n <=> LevelMin[l] <= b)
      BY <1>3, <1>6, <1>7, <1>8, <2>2, LevelMins
    <3>2. ~ (LevelMin[after] <= b) BY <1>3, <1>6, <1>7, <2>2, LevelMins
    <3>3. told' = [told EXCEPT ![after] = IF @ = 2 THEN 2 ELSE @ + 1] BY <1>4, <2>2
    <3>4. CASE l = after
      <4>1. told[after] = 0 BY <2>1, <3>2, <3>4
      <4>2. told'[after] = 1 BY <1>5, <1>6, <3>3, <4>1
      <4>3. QED BY <1>6, <3>4, <4>2
    <3>5. CASE l # after
      <4>1. told'[l] = told[l] BY <1>5, <3>3, <3>5
      <4>2. QED BY <2>1, <3>1, <3>5, <4>1
    <3>6. QED BY <3>4, <3>5
  <2>3. CASE ~ (after > before)
    <3>1. LevelMin[l] <= n <=> LevelMin[l] <= b
      BY <1>3, <1>6, <1>7, <1>8, <2>3, LevelMins
    <3>2. told' = told BY <1>4, <2>3
    <3>3. QED BY <2>1, <3>1, <3>2
  <2>4. QED BY <2>2, <2>3
<1>10. Total(earned)' = n BY <1>4 DEF n
<1>11. QED BY <1>9, <1>10 DEF ToldFor

\* A step that leaves worker w with r.
LEMMA PointsStep ==
  ASSUME PointsInv, NEW w \in Workers, NEW r \in PointsRequest \cup {Null}, Takes(w, r), Noted,
         died' \in BOOLEAN, died => died',
         earned' \subseteq Awards, IsFiniteSet(earned'), told' \in [Levels -> 0..2],
         ~ overlapped /\ ~ overlapped' /\ ~ died /\ ~ died' =>
           /\ r = Null => ToldFor(Total(earned))'
           /\ r # Null => r.on \in earned' /\ ToldFor(Total(earned) - Worth[r.on])'
  PROVE  PointsInv'
<1>1. SettlingOK' /\ \A v \in Workers : inflight'[v] = IF v = w THEN r ELSE inflight[v]
  BY StepBy DEF PointsInv, PointsTypeOK
<1>2. PointsOnly' BY <1>1 DEF PointsInv, PointsOnly, Idle
<1>3. PointsTypeOK' BY <1>1, <1>2 DEF PointsTypeOK, PointsOnly, Running, Idle
<1>4. ToldRight'
  <2> SUFFICES ASSUME ~ died', ~ overlapped'
               PROVE  /\ Quiet' => ToldFor(Total(earned))'
                      /\ \A v \in Workers : Running(v, "announce")' =>
                           /\ inflight'[v].on \in earned'
                           /\ ToldFor(Total(earned) - Worth[inflight[v].on])'
    BY DEF ToldRight
  <2>1. ~ overlapped /\ \A v \in Workers : v # w => inflight'[v] = Null
    BY SoloStep DEF PointsInv, PointsTypeOK
  <2>2. inflight'[w] = r BY <1>1
  <2>3. CASE r = Null
    <3>1. \A v \in Workers : inflight'[v] = Null BY <2>1, <2>2, <2>3
    <3>2. ToldFor(Total(earned))' BY <2>1, <2>3
    <3>3. QED BY <3>1, <3>2 DEF Running
  <2>4. CASE r # Null
    <3>1. r.on \in earned' /\ ToldFor(Total(earned) - Worth[r.on])' BY <2>1, <2>4
    <3>2. ~ Quiet' BY <2>2, <2>4 DEF Quiet, Idle
    <3>3. \A v \in Workers : Running(v, "announce")' => v = w BY <2>1 DEF Running
    <3>4. inflight'[w].on = r.on BY <2>2
    <3>5. QED BY <3>1, <3>2, <3>3, <3>4
  <2>5. QED BY <2>3, <2>4
<1>5. QED BY <1>2, <1>3, <1>4 DEF PointsInv

\* Every step keeps the invariant,
LEMMA PointsNextInv ==
  ASSUME PointsInv, [PointsNext]_pointsVars
  PROVE  PointsInv'
<1>1. CASE UNCHANGED pointsVars
  BY <1>1 DEF pointsVars, pointsRows, settlingVars, handlerVars, PointsInv, PointsTypeOK,
       SettlingOK, InflightOK, Idle, PointsOnly, ToldRight, ToldFor, Running, Quiet
<1>2. ASSUME NEW w \in Workers, NEW a \in Awards, AwardPoints(w, a), Noted PROVE PointsInv'
  <2> DEFINE r == [op |-> "announce", on |-> a]
  <2>1. r \in PointsRequest /\ r # Null /\ r.on = a
    BY PointsRequestAssumption DEF PointsRequest
  <2>2. /\ a \notin earned /\ earned' = earned \cup {a} /\ UNCHANGED <<told, died>>
        /\ CommitFirst(w, r) /\ Idle(w)
    BY <1>2 DEF AwardPoints, CommitFirst
  <2> HIDE DEF r
  <2>3. IsFiniteSet(earned') /\ earned' \subseteq Awards
    BY <2>2, FS_AddElement DEF PointsInv, PointsTypeOK
  <2>4. Total(earned) \in Nat /\ Total(earned') = Total(earned) + Worth[a]
    BY <2>2, TotalPlus DEF PointsInv, PointsTypeOK
  <2>5. Worth[a] \in Nat BY PointsAssumption
  <2>6. Total(earned') - Worth[a] = Total(earned) BY <2>4, <2>5
  <2>7. Takes(w, r) BY <2>2 DEF Takes
  <2>8. ~ overlapped /\ ~ overlapped' /\ ~ died => ToldFor(Total(earned))
    <3>1. ~ overlapped' => Quiet
      BY <1>2, <2>2, <2>7, SoloStep DEF PointsInv, PointsTypeOK, Quiet, Idle
    <3>2. QED BY <3>1 DEF PointsInv, ToldRight
  <2>9. ToldFor(Total(earned)) => ToldFor(Total(earned) - Worth[a])'
    BY <2>2, <2>6 DEF ToldFor
  <2>10. QED
    BY <1>2, <2>1, <2>2, <2>3, <2>7, <2>8, <2>9, PointsStep
       DEF PointsInv, PointsTypeOK, SettlingOK
<1>3. ASSUME NEW w \in Workers, Announce(w), Noted PROVE PointsInv'
  <2>1. Commit(w) /\ UNCHANGED <<earned, died>> BY <1>3 DEF Announce
  <2>2. Total(earned) \in Nat
    <3>1. CASE earned = {} BY <3>1, FS_EmptySet DEF Total, OfWorth
    <3>2. ASSUME NEW a \in earned PROVE Total(earned) \in Nat
      <4>1. /\ earned \ {a} \in SUBSET Awards /\ IsFiniteSet(earned \ {a})
            /\ a \in Awards \ (earned \ {a}) /\ earned = (earned \ {a}) \cup {a}
        BY <3>2, FS_Subset DEF PointsInv, PointsTypeOK
      <4> PICK S : S = earned \ {a} OBVIOUS
      <4>2. Worth[a] \in Nat BY <4>1, PointsAssumption
      <4>3. Total(S) \in Nat /\ Total(S \cup {a}) = Total(S) + Worth[a] BY <4>1, TotalPlus
      <4>4. Total(earned) = Total(S) + Worth[a] BY <4>1, <4>3
      <4>5. QED BY <4>2, <4>3, <4>4
    <3>3. QED BY <3>1, <3>2
  <2>3. told' \in [Levels -> 0..2]
    <3> DEFINE after == LevelFor(Total(earned))
               n == IF told[after] = 2 THEN 2 ELSE told[after] + 1
    <3>1. after \in Levels BY <2>2, LevelForIs
    <3> HIDE DEF after
    <3>2. told \in [Levels -> 0..2] BY DEF PointsInv, PointsTypeOK
    <3>3. n \in 0..2 BY <3>1, <3>2
    <3>4. told' = told \/ told' = [told EXCEPT ![after] = n]
      BY <1>3 DEF Announce, after
    <3> HIDE DEF n
    <3>5. QED BY <3>1, <3>2, <3>3, <3>4
  <2>4. ~ overlapped /\ ~ died => ToldFor(Total(earned))' BY <1>3, AnnounceTells
  <2>5. QED
    BY <1>3, <2>1, <2>3, <2>4, EndTakesNull, PointsStep DEF PointsInv, PointsTypeOK, SettlingOK
<1>4. ASSUME NEW w \in Workers, DropAward(w), Noted PROVE PointsInv'
  <2>1. Drop(w) /\ died' = TRUE /\ UNCHANGED <<earned, told>>
    BY <1>4 DEF DropAward, Die, pointsRows
  <2>2. QED
    BY <1>4, <2>1, EndTakesNull, PointsStep DEF PointsInv, PointsTypeOK
<1>5. QED BY <1>1, <1>2, <1>3, <1>4 DEF PointsNext

\* which holds at first.
LEMMA PointsInitInv == PointsInit => PointsInv
<1> SUFFICES ASSUME PointsInit PROVE PointsInv OBVIOUS
<1>1. InflightOK /\ (\A w \in Workers : inflight[w] = Null)
  BY NoneInflight DEF PointsInit, SettlingInit
<1>2. earned = {} /\ told = [l \in Levels |-> 0] /\ ~ died /\ ~ overlapped
  BY DEF PointsInit, SettlingInit
<1>3. PointsTypeOK /\ PointsOnly
  <2>1. SettlingOK BY <1>1 DEF SettlingOK, PointsInit, SettlingInit
  <2>2. told \in [Levels -> 0..2] BY <1>2
  <2>3. QED BY <1>1, <1>2, <2>1, <2>2 DEF PointsTypeOK, PointsOnly, Running, Idle
<1>4. Total({}) = 0
  <2>1. \A n \in Nat : OfWorth({}, n) = 0
    <3>1. \A n \in Nat : {a \in {} : Worth[a] = n} = {} OBVIOUS
    <3>2. QED BY <3>1, FS_EmptySet DEF OfWorth
  <2>2. QED BY <2>1 DEF Total
<1>5. ToldFor(0) BY <1>2, LevelMins DEF ToldFor
<1>6. ToldRight BY <1>1, <1>2, <1>4, <1>5 DEF ToldRight, Running
<1>7. QED BY <1>2, <1>3, <1>6, FS_EmptySet DEF PointsInv

\* When the awards came one after another, each level the ledger is worth has
\* been announced exactly once, for any awards of the worths POINTS gives.
THEOREM LevelsAreToldOnce == PointsSpec => []LevelsToldOnce
<1>1. PointsInv => LevelsToldOnce
  BY DEF PointsInv, ToldRight, ToldFor, LevelsToldOnce, Settled
<1>2. QED BY <1>1, PointsInitInv, PointsNextInv, PTL DEF PointsSpec

\* The ledger, the announcements and the requests about them have their types.
THEOREM PointsTyped == PointsSpec => []PointsTypeOK
<1>1. PointsInv => PointsTypeOK
  BY DEF PointsInv
<1>2. QED BY <1>1, PointsInitInv, PointsNextInv, PTL DEF PointsSpec
=============================================================================
