------------------------------- MODULE MCPeople -------------------------------
(* Instances for TLC of the components in which people meet each other.  They *)
(* share no rows, so a behaviour follows one of them (`focus`) while the       *)
(* others stay as they start.                                                  *)
EXTENDS SupportCases, Chat, Reviews, Reports, Points, TenancyReviews, Sessions,
        PhoneIdentity, TLC

CONSTANTS ann, own, t1, t2, t3, laptop, handset, Foci

VARIABLE focus

\* ann asks about own's listing, which makes own a party too.
MCOpenings == {[by |-> ann, as |-> "TENANT", owner |-> own]}

\* PROFILE_COMPLETED, PHONE_VERIFIED and two LEASE_SIGNED: levels 2 and 3 are
\* in reach, one award below a level and several at its edge.
MCAwards == {"profile", "phone", "lease1", "lease2"}
MCWorth == [a \in MCAwards |-> CASE a = "profile" -> 40
                                 [] a = "phone"   -> 50
                                 [] OTHER         -> 120]

\* Two tabs of one browser, and a second browser.
MCBrowser == [tab \in Tabs |-> IF tab = t3 THEN handset ELSE laptop]

Init ==
  /\ focus \in Foci
  /\ SupportInit /\ ChatInit /\ ReviewsInit /\ ReportsInit /\ PointsInit /\ TenancyInit
  /\ SessionsInit /\ PhoneInit

otherRows == <<reviewRows, reportRows, pointsRows, tenancyRows>>
settledVars == <<otherRows, sessionRows, phoneRows, died, overlapped>>

\* Bound: no request begins while another is overtaken, nor once one has died or a
\* history variable has discharged the properties that name it.
Begun == overtaken # {} \/ died \/ raced \/ spoiled \/ split =>
  /\ inflight' # inflight
  /\ \A w \in Workers : Idle(w) => inflight'[w] = Null

\* Bound: two codes for requests that come one after another, one for others.
FewCodes == Len(codes') < 2 \/ ~ overlapped'

\* Bound: only people that registered, with a number that is verified, clear it.
FewClear ==
  \A w \in Workers :
    Idle(w) /\ inflight'[w] # Null /\ inflight'[w].number = Cleared =>
      inflight'[w].on \in Registered \cap verified

\* Bound: files, which nothing is decided from, are attached beside no other request
\* than their like.
FilesApart ==
  LET ops == {inflight'[w].op : w \in {v \in Workers : inflight'[v] # Null}} IN
  "attach" \in ops => ops = {"attach"}

Next ==
  /\ UNCHANGED focus
  /\ \/ focus = "support" /\ SupportNext /\ FilesApart /\ UNCHANGED <<chatRows, settledVars>>
     \/ focus = "chat" /\ ChatNext /\ UNCHANGED <<caseVars, settledVars>>
     \/ focus = "sessions" /\ SessionsNext
        /\ UNCHANGED <<caseVars, chatRows, otherRows, phoneRows>>
     \/ focus = "phones" /\ PhoneNext /\ FewCodes /\ FewClear
        /\ UNCHANGED <<caseVars, chatRows, otherRows, sessionRows>>
     \/ /\ UNCHANGED <<caseVars, chatRows, sessionRows, phoneRows>>
        /\ \/ /\ focus = "reviews" /\ ReviewsNext
              /\ UNCHANGED <<reportRows, pointsRows, tenancyRows>>
           \/ /\ focus = "reports" /\ ReportsNext
              /\ UNCHANGED <<reviewRows, pointsRows, tenancyRows>>
           \/ /\ focus = "points" /\ PointsNext
              /\ UNCHANGED <<reviewRows, reportRows, tenancyRows>>
           \/ /\ focus = "blind" /\ TenancyNext
              /\ UNCHANGED <<reviewRows, reportRows, pointsRows>>
  /\ Begun

Spec == Init /\ [][Next]_<<focus, supportVars, chatRows, settledVars>>

TypeOK ==
  /\ SupportTypeOK /\ ChatTypeOK /\ ReviewsTypeOK /\ ReportsTypeOK
  /\ PointsTypeOK /\ TenancyTypeOK /\ SessionsTypeOK
  /\ PhoneTypeOK

\* A behaviour sees the pair of its own focus only, so swapping all pairs at once is
\* as good as swapping each, and a far smaller group.
Swap(S) == CHOOSE f \in Permutations(S) : \A x \in S : f[x] # x
Symmetry == Permutations(Workers) \cup
  {Swap(Admins) @@ Swap(Sides) @@ Swap(ReportIds) @@ Swap({t1, t2}) @@ Swap(Numbers)}
=============================================================================
