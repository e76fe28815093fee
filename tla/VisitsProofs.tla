----------------------------- MODULE VisitsProofs -----------------------------
(***************************************************************************)
(* TLAPS proofs about Visits and VisitsHistory, for any number of requests, *)
(* renters and days, however the handlers overlap and wherever they crash.  *)
(***************************************************************************)
EXTENDS VisitsHistory, TLAPS

USE VisitsAssumption

-----------------------------------------------------------------------------
(* The inductive invariant                                                  *)

RowExists(a) == status[a] # "none"

\* What a handler relies on after its awaits: the rows it read still exist
\* (nothing deletes one), each party writes only its own statuses, and only a
\* stay is born accepted.
RequestOK(r) ==
  /\ r.op = "request" /\ r.status = "ACCEPTED" => Stay
  /\ r.op = "reply" =>
       /\ RowExists(r.appt)
       /\ r.next \in IF r.byTenant THEN TenantStatuses ELSE OwnerStatuses
  /\ r.op = "supersede" => \A b \in r.targets : RowExists(b)

RequestsOK == \A w \in Workers : inflight[w] # Null => RequestOK(inflight[w])

\* A row that exists has its renter and its day.
RowsOK == \A a \in Appts : RowExists(a) => tenant[a] \in Tenants /\ day[a] \in Days

IInv == TypeOK /\ RowsOK /\ RequestsOK /\ AnsweredStamped /\ OneRequestPerRenter

\* No request yet: the invariant holds.
LEMMA InitInv == Init => IInv
BY DEF Init, IInv, TypeOK, Status, Stamps, RowsOK, RowExists, RequestsOK, AnsweredStamped,
       OneRequestPerRenter

\* What is left after a step that moves no row and leaves worker w with r.
LEMMA SameRows ==
  ASSUME IInv, NEW w \in Workers, NEW r \in Request \cup {Null},
         r # Null => RequestOK(r), Continue(w, r), UNCHANGED <<rowVars, blocks>>
  PROVE  IInv'
<1> USE DEF IInv, rowVars, Continue
<1>1. TypeOK' BY DEF TypeOK
<1>2. \A v \in Workers : inflight'[v] = IF v = w THEN r ELSE inflight[v]
  BY DEF TypeOK
<1>3. RequestsOK' BY <1>2 DEF RequestsOK, RequestOK, RowExists
<1>4. RowsOK' /\ AnsweredStamped' /\ OneRequestPerRenter'
  BY DEF RowsOK, RowExists, AnsweredStamped, OneRequestPerRenter
<1>5. QED BY <1>1, <1>3, <1>4

\* The handlers' reads leave a request that is in order.
LEMMA ReadInv ==
  ASSUME IInv, NEW w \in Workers,
         \/ \E u \in Tenants, s \in Slots, i \in InstantBook : ReadRequest(w, u, s, i)
         \/ \E a \in Appts, s \in TenantStatuses, d \in Days : ReadTenantReply(w, a, s, d)
         \/ \E a \in Appts, s \in OwnerStatuses, d \in Days : ReadOwnerReply(w, a, s, d)
  PROVE  IInv'
<1>1. CASE \E u \in Tenants, s \in Slots, i \in InstantBook : ReadRequest(w, u, s, i)
  <2>1. PICK u \in Tenants, s \in Slots, i \in InstantBook : ReadRequest(w, u, s, i) BY <1>1
  <2> DEFINE r == [op |-> "request", user |-> u, slot |-> s, status |-> NewStatus(i)]
  <2>2. r \in Request /\ RequestOK(r) BY DEF Request, RequestOK, NewStatus
  <2>3. Continue(w, r) /\ UNCHANGED <<rowVars, blocks>>
    BY <2>1 DEF ReadRequest, Start, Continue
  <2>4. QED BY <2>2, <2>3, SameRows
<1>2. CASE \E a \in Appts, s \in TenantStatuses, d \in Days : ReadTenantReply(w, a, s, d)
  <2>1. PICK a \in Appts, s \in TenantStatuses, d \in Days : ReadTenantReply(w, a, s, d)
    BY <1>2
  <2> DEFINE r == Replied(a, TRUE, s, d)
  <2>2. r \in Request /\ RequestOK(r)
    BY <2>1 DEF Request, RequestOK, Replied, ReadTenantReply, RowExists, IInv, TypeOK
  <2>3. Continue(w, r) /\ UNCHANGED <<rowVars, blocks>>
    BY <2>1 DEF ReadTenantReply, Start, Continue
  <2>4. QED BY <2>2, <2>3, SameRows
<1>3. CASE \E a \in Appts, s \in OwnerStatuses, d \in Days : ReadOwnerReply(w, a, s, d)
  <2>1. PICK a \in Appts, s \in OwnerStatuses, d \in Days : ReadOwnerReply(w, a, s, d)
    BY <1>3
  <2> DEFINE r == Replied(a, FALSE, s, d)
  <2>2. r \in Request /\ RequestOK(r)
    BY <2>1 DEF Request, RequestOK, Replied, ReadOwnerReply, RowExists, IInv, TypeOK
  <2>3. Continue(w, r) /\ UNCHANGED <<rowVars, blocks>>
    BY <2>1 DEF ReadOwnerReply, Start, Continue
  <2>4. QED BY <2>2, <2>3, SameRows
<1>4. QED BY <1>1, <1>2, <1>3

\* A look-up of conflicts, a refused write and a crash move no row.
LEMMA NoWriteInv ==
  ASSUME IInv, NEW w \in Workers, ReadConflicts(w) \/ Refused(w) \/ Crash(w)
  PROVE  IInv'
<1>1. CASE Refused(w) \/ Crash(w)
  BY <1>1, SameRows DEF Refused, Crash, Finish
<1>2. CASE ReadConflicts(w)
  <2> DEFINE found == Conflicting(inflight[w])
             r == [op |-> "supersede", targets |-> found]
  <2>1. r \in Request /\ RequestOK(r)
    BY DEF Request, RequestOK, Conflicting, RowExists
  <2>2. UNCHANGED <<rowVars, blocks>> /\ (Continue(w, Null) \/ Continue(w, r))
    BY <1>2 DEF ReadConflicts, Finish
  <2>3. QED BY <2>1, <2>2, SameRows
<1>3. QED BY <1>1, <1>2

\* The n-th instant is an instant.
LEMMA NowStamps ==
  ASSUME TypeOK, NEW a \in Appts
  PROVE  Now(a) \in Stamps /\ Now(a) # 0
BY DEF TypeOK, Now, Stamps

\* A row ends on a day.
LEMMA EndOfNat ==
  ASSUME TypeOK, NEW b \in Appts, day[b] \in Days
  PROVE  EndOf(b) \in Nat
<1>1. Days \subseteq Nat BY VisitsAssumption
<1>2. CASE checkOut[b] = 0
  <2>1. day[b] \in Nat BY <1>1
  <2>2. day[b] + 1 \in Nat BY <2>1
  <2>3. QED BY <1>2, <2>2 DEF EndOf
<1>3. CASE checkOut[b] # 0
  <2>1. checkOut[b] \in Days BY <1>3 DEF TypeOK
  <2>2. QED BY <1>1, <1>3, <2>1 DEF EndOf
<1>4. QED BY <1>2, <1>3

\* What an acceptance carries on with is a request.
LEMMA ConflictsType ==
  ASSUME NEW b \in Appts, NEW from \in Days, NEW until \in Nat
  PROVE  [op |-> "conflicts", appt |-> b, from |-> from, until |-> until] \in Request
BY DEF Request

\* The unique index admits a new request of a renter only while none of theirs
\* has its status.
LEMMA WriteRequestInv ==
  ASSUME IInv, NEW w \in Workers, NEW a \in Appts, WriteRequest(w, a)
  PROVE  IInv'
<1> DEFINE u == inflight[w].user
           s == inflight[w].slot
           c == [op |-> "conflicts", appt |-> a, from |-> s.from, until |-> s.until]
<1>1. /\ u \in Tenants /\ s.from \in Days /\ s.until \in Days
      /\ inflight[w].status \in {"PENDING", "ACCEPTED"}
  BY DEF WriteRequest, Running, IInv, TypeOK, Request
<1>2. c \in Request
  BY <1>1, ConflictsType
<1>3. \A v \in Workers \ {w} : inflight'[v] = inflight[v]
  BY DEF WriteRequest, Continue, Finish, IInv, TypeOK
<1>4. inflight'[w] \in {c, Null} /\ inflight' \in [Workers -> Request \cup {Null}]
  BY <1>2 DEF WriteRequest, Continue, Finish, IInv, TypeOK
<1>5. TypeOK'
  BY <1>1, <1>4, NowStamps DEF WriteRequest, IInv, TypeOK, Status, Stamps
<1>6. RowsOK'
  BY <1>1 DEF WriteRequest, IInv, TypeOK, RowsOK, RowExists
<1>7. RequestsOK'
  <2>1. \A b \in Appts : RowExists(b) => RowExists(b)'
    BY DEF WriteRequest, IInv, TypeOK, RowExists
  <2>2. \A v \in Workers \ {w} : inflight'[v] # Null => RequestOK(inflight[v])'
    BY <1>3, <2>1 DEF IInv, RequestsOK, RequestOK, TypeOK, Request
  <2>3. QED BY <1>4, <2>2 DEF RequestsOK, RequestOK
<1>8. AnsweredStamped'
  BY <1>1, NowStamps DEF WriteRequest, IInv, TypeOK, AnsweredStamped
<1>9. OneRequestPerRenter'
  BY <1>1 DEF WriteRequest, IInv, TypeOK, OneRequestPerRenter, NewRowAllowed
<1>10. QED BY <1>5, <1>6, <1>7, <1>8, <1>9 DEF IInv

\* A reply moves one row; the owner's carries a stamp, and nobody's makes the
\* row PENDING again.
LEMMA WriteReplyInv ==
  ASSUME IInv, NEW w \in Workers, WriteReply(w)
  PROVE  IInv'
<1> DEFINE r == inflight[w]
           a == r.appt
           c == [op |-> "conflicts", appt |-> a, from |-> day[a], until |-> EndOf(a)]
<1>1. /\ a \in Appts /\ r.byTenant \in BOOLEAN /\ r.day \in Days /\ r.seen \in Stamps
      /\ r.next \in OwnerStatuses \cup TenantStatuses
  BY DEF WriteReply, Running, IInv, TypeOK, Request
<1>2. RowExists(a) /\ r.next \in IF r.byTenant THEN TenantStatuses ELSE OwnerStatuses
  BY DEF WriteReply, Running, IInv, RequestsOK, RequestOK
<1>3. StampReply(r) \in Stamps /\ StampReply(r) # 0
  BY <1>1, NowStamps DEF StampReply, IInv
<1>4. c \in Request
  <2>1. day[a] \in Days
    BY <1>1, <1>2 DEF IInv, RowsOK
  <2>2. QED BY <1>1, <2>1, EndOfNat, ConflictsType DEF IInv
<1>5. \A v \in Workers \ {w} : inflight'[v] = inflight[v]
  BY DEF WriteReply, Continue, Finish, IInv, TypeOK
<1>6. inflight'[w] \in {c, Null} /\ inflight' \in [Workers -> Request \cup {Null}]
  BY <1>4 DEF WriteReply, Continue, Finish, IInv, TypeOK
<1>7. TypeOK'
  BY <1>1, <1>3, <1>6
  DEF WriteReply, IInv, TypeOK, Status, OwnerStatuses, TenantStatuses
<1>8. RowsOK'
  BY <1>1, <1>2 DEF WriteReply, IInv, TypeOK, RowsOK, RowExists
<1>9. RequestsOK'
  <2>1. \A b \in Appts : RowExists(b) => RowExists(b)'
    BY <1>1 DEF WriteReply, IInv, TypeOK, RowExists, OwnerStatuses, TenantStatuses
  <2>2. \A v \in Workers \ {w} : inflight'[v] # Null => RequestOK(inflight[v])'
    BY <1>5, <2>1 DEF IInv, RequestsOK, RequestOK, TypeOK, Request
  <2>3. QED BY <1>6, <2>2 DEF RequestsOK, RequestOK
<1>10. AnsweredStamped'
  BY <1>1, <1>2, <1>3
  DEF WriteReply, IInv, TypeOK, AnsweredStamped, OwnerStatuses, TenantStatuses
<1>11. OneRequestPerRenter'
  BY <1>1 DEF WriteReply, IInv, TypeOK, OneRequestPerRenter, OwnerStatuses, TenantStatuses
<1>12. QED BY <1>7, <1>8, <1>9, <1>10, <1>11 DEF IInv

\* A superseding rejection stamps what it rejects.
LEMMA WriteSupersededInv ==
  ASSUME IInv, NEW w \in Workers, WriteSuperseded(w)
  PROVE  IInv'
<1> DEFINE S == Unanswered(inflight[w].targets)
<1>1. S \subseteq Appts /\ \A b \in S : RowExists(b)
  BY DEF WriteSuperseded, Running, Unanswered, IInv, TypeOK, Request, RequestsOK, RequestOK
<1>2. /\ status' = [b \in Appts |-> IF b \in S THEN "REJECTED" ELSE status[b]]
      /\ respondedAt' = [b \in Appts |-> IF b \in S THEN Now(b) ELSE respondedAt[b]]
      /\ inflight' = [inflight EXCEPT ![w] = Null]
      /\ UNCHANGED <<tenant, day, checkOut, blocks>>
  BY DEF WriteSuperseded, Finish, Continue
<1> HIDE DEF S
<1>3. TypeOK'
  BY <1>2, NowStamps DEF IInv, TypeOK, Status
<1>4. RowsOK' /\ \A b \in Appts : RowExists(b) => RowExists(b)'
  BY <1>1, <1>2 DEF IInv, RowsOK, RowExists
<1>5. RequestsOK'
  BY <1>2, <1>4 DEF IInv, RequestsOK, RequestOK, TypeOK, Request
<1>6. AnsweredStamped'
  BY <1>1, <1>2, NowStamps DEF IInv, AnsweredStamped, RowExists
<1>7. OneRequestPerRenter'
  BY <1>2 DEF IInv, OneRequestPerRenter
<1>8. QED BY <1>3, <1>4, <1>5, <1>6, <1>7 DEF IInv

\* Every step keeps the invariant.
LEMMA NextInv == IInv /\ [Next]_vars => IInv'
<1> SUFFICES ASSUME IInv, [Next]_vars PROVE IInv'
  OBVIOUS
<1>1. CASE UNCHANGED vars
  BY <1>1 DEF IInv, vars, rowVars, TypeOK, RowsOK, RowExists, RequestsOK, RequestOK,
              AnsweredStamped, OneRequestPerRenter
<1>2. CASE \E S \in SUBSET Days : SetAvailability(S)
  BY <1>2 DEF SetAvailability, IInv, rowVars, TypeOK, RowsOK, RowExists, RequestsOK,
              RequestOK, AnsweredStamped, OneRequestPerRenter
<1>3. CASE \E w \in Workers, a \in Appts : WriteRequest(w, a)
  BY <1>3, WriteRequestInv
<1>4. CASE \E w \in Workers : WriteReply(w)
  BY <1>4, WriteReplyInv
<1>5. CASE \E w \in Workers : WriteSuperseded(w)
  BY <1>5, WriteSupersededInv
<1>6. CASE \E w \in Workers : ReadConflicts(w) \/ Refused(w) \/ Crash(w)
  BY <1>6, NoWriteInv
<1>7. CASE \E w \in Workers :
        \/ \E u \in Tenants, s \in Slots, i \in InstantBook : ReadRequest(w, u, s, i)
        \/ \E a \in Appts, s \in TenantStatuses, d \in Days : ReadTenantReply(w, a, s, d)
        \/ \E a \in Appts, s \in OwnerStatuses, d \in Days : ReadOwnerReply(w, a, s, d)
  BY <1>7, ReadInv
<1>8. QED BY <1>1, <1>2, <1>3, <1>4, <1>5, <1>6, <1>7 DEF Next

-----------------------------------------------------------------------------
(* What follows                                                             *)

\* The inductive invariant holds in every reachable state.
THEOREM Invariance == Spec => []IInv
BY InitInv, NextInv, PTL DEF Spec

\* Every column keeps its type.
THEOREM TypeCorrect == Spec => []TypeOK
<1>1. IInv => TypeOK BY DEF IInv
<1>2. QED BY <1>1, Invariance, PTL

\* Every answer of the owner's has its time, and only answers have one.
THEOREM AnswersAreStamped == Spec => []AnsweredStamped
<1>1. IInv => AnsweredStamped BY DEF IInv
<1>2. QED BY <1>1, Invariance, PTL

\* Two requests of one renter are never pending together.
THEOREM RequestsDoNotPile == Spec => []OneRequestPerRenter
<1>1. IInv => OneRequestPerRenter BY DEF IInv
<1>2. QED BY <1>1, Invariance, PTL

\* A superseding rejection leaves what the owner answered alone, because an
\* answered row is a stamped one and the updateMany takes unstamped rows only.
THEOREM SupersedeIsSparing == Spec => SupersedeSparesAnswered
<1> DEFINE Spares == \A w \in Workers : Running(w, "supersede") /\ inflight'[w] = Null =>
             \A a \in Appts : status[a] \in {"ACCEPTED", "RESCHEDULED"} => status'[a] = status[a]
<1>1. IInv /\ [Next]_vars => Spares
  <2> SUFFICES ASSUME IInv, [Next]_vars, NEW w \in Workers,
                      Running(w, "supersede"), inflight'[w] = Null,
                      NEW a \in Appts, status[a] \in {"ACCEPTED", "RESCHEDULED"}
               PROVE  status'[a] = status[a]
    OBVIOUS
  <2>1. CASE WriteSuperseded(w)
    BY <2>1 DEF WriteSuperseded, Unanswered, IInv, AnsweredStamped
  <2>2. CASE \E v \in Workers : WriteSuperseded(v) /\ v # w
    BY <2>2 DEF WriteSuperseded, Finish, Continue, Running, IInv, TypeOK
  <2>3. CASE \E v \in Workers : WriteReply(v)
    BY <2>3 DEF WriteReply, Finish, Continue, Running, IInv, TypeOK
  <2>4. CASE \E v \in Workers, b \in Appts : WriteRequest(v, b)
    BY <2>4 DEF WriteRequest, Finish, Continue, Running, IInv, TypeOK
  <2>5. CASE UNCHANGED status
    BY <2>5
  <2>6. WriteSuperseded(w) \/ (\E v \in Workers : WriteSuperseded(v) /\ v # w)
          \/ (\E v \in Workers : WriteReply(v))
          \/ (\E v \in Workers, b \in Appts : WriteRequest(v, b))
          \/ UNCHANGED status
    BY DEF Next, vars, rowVars, ReadRequest, ReadTenantReply, ReadOwnerReply, Start,
           ReadConflicts, Refused, Crash, SetAvailability
  <2>7. QED BY <2>1, <2>2, <2>3, <2>4, <2>5, <2>6
<1>2. QED BY <1>1, Invariance, PTL DEF Spec, SupersedeSparesAnswered
-----------------------------------------------------------------------------
(* Late writes.  Whatever overlaps and crashes, what a handler read still     *)
(* holds when it writes unless it was overtaken; so the rules that            *)
(* overlapping requests break are broken by late writes alone.                *)

\* The history variable restrains nothing.
LEMMA HistoryAdds == HistorySpec => Spec
<1>1. HistoryInit => Init
  BY DEF HistoryInit
<1>2. [HistoryNext]_historyVars => [Next]_vars
  BY DEF HistoryNext, historyVars
<1>3. QED BY <1>1, <1>2, PTL DEF HistorySpec, Spec

\* What the handler of request r saw when it read: a reply finds its row
\* unsettled, an instant booking its nights free, a supersede its targets
\* undecided.
StillTrue(r) ==
  /\ r.op = "reply" => status[r.appt] \notin Settled \cup {"none"}
  /\ r.op = "request" /\ r.status = "ACCEPTED" => NightsOf(r.slot) \cap Busy = {}
  /\ r.op = "supersede" => \A b \in r.targets : status[b] = "PENDING"

\* What a request read that nothing overtook has not changed.
FreshReads ==
  \A w \in Workers : inflight[w] # Null /\ w \notin overtaken => StillTrue(inflight[w])

\* The nights of a range that isRangeUnavailable lets through are nobody's.
LEMMA FreeRange ==
  ASSUME TypeOK, RowsOK, NEW s \in Slots, ~RangeUnavailable(s), NEW d \in NightsOf(s)
  PROVE  d \notin Busy
<1>1. d \in Days /\ s.from <= d /\ d < s.until
  BY DEF NightsOf
<1>2. d \notin blocks
  BY <1>1 DEF RangeUnavailable, TypeOK
<1>3. ASSUME NEW b \in Accepted, d \in Nights(b) PROVE FALSE
  <2>1. b \in Appts /\ status[b] = "ACCEPTED" /\ day[b] \in Days
    BY DEF Accepted, RowsOK, RowExists
  <2>2. EndOf(b) \in Nat
    BY <2>1, EndOfNat
  <2>3. day[b] \in Nat /\ d \in Nat /\ s.from \in Nat /\ s.until \in Nat
    BY <1>1, <2>1
  <2>4. day[b] <= d /\ d < EndOf(b)
    BY <1>3 DEF Nights
  <2>5. EndOf(b) > s.from /\ day[b] < s.until
    BY <1>1, <2>2, <2>3, <2>4
  <2>6. QED BY <2>1, <2>5 DEF RangeUnavailable
<1>4. QED BY <1>2, <1>3 DEF Busy, Taken

\* The reads leave a request whose handler saw what StillTrue says.
LEMMA ReadsFresh ==
  ASSUME IInv, NEW w \in Workers,
         \/ \E u \in Tenants, s \in Slots, i \in InstantBook : ReadRequest(w, u, s, i)
         \/ \E a \in Appts, s \in TenantStatuses, d \in Days : ReadTenantReply(w, a, s, d)
         \/ \E a \in Appts, s \in OwnerStatuses, d \in Days : ReadOwnerReply(w, a, s, d)
  PROVE  \E r : Start(w, r) /\ StillTrue(r)
<1>1. ASSUME NEW u \in Tenants, NEW s \in Slots, NEW i \in InstantBook, ReadRequest(w, u, s, i)
      PROVE  \E r : Start(w, r) /\ StillTrue(r)
  <2> DEFINE r == [op |-> "request", user |-> u, slot |-> s, status |-> NewStatus(i)]
  <2>1. NewStatus(i) = "ACCEPTED" => ~RangeUnavailable(s)
    BY <1>1 DEF ReadRequest, NewStatus
  <2>2. NewStatus(i) = "ACCEPTED" => NightsOf(s) \cap Busy = {}
    BY <2>1, FreeRange DEF IInv
  <2>3. StillTrue(r)
    BY <2>2 DEF StillTrue
  <2>4. QED BY <1>1, <2>3 DEF ReadRequest
<1>2. ASSUME NEW a \in Appts, NEW s, NEW d,
             ReadTenantReply(w, a, s, d) \/ ReadOwnerReply(w, a, s, d)
      PROVE  \E r : Start(w, r) /\ StillTrue(r)
  <2>1. PICK byTenant \in BOOLEAN : Start(w, Replied(a, byTenant, s, d))
    BY <1>2 DEF ReadTenantReply, ReadOwnerReply
  <2>2. StillTrue(Replied(a, byTenant, s, d))
    BY <1>2 DEF ReadTenantReply, ReadOwnerReply, Replied, StillTrue
  <2>3. QED BY <2>1, <2>2
<1>3. QED BY <1>1, <1>2

\* A step starts a request, or carries one on, or is the owner's new calendar.
LEMMA StepKinds ==
  ASSUME IInv, Next
  PROVE  \/ \E w \in Workers : \E r : Start(w, r) /\ StillTrue(r)
         \/ \E w \in Workers : \E r :
              inflight[w] # Null /\ Continue(w, r) /\ (r # Null => StillTrue(r)')
         \/ UNCHANGED inflight
<1>1. CASE \E S \in SUBSET Days : SetAvailability(S)
  BY <1>1 DEF SetAvailability
<1>2. ASSUME NEW w \in Workers, NEW a \in Appts, WriteRequest(w, a)
      PROVE  \E r : inflight[w] # Null /\ Continue(w, r) /\ (r # Null => StillTrue(r)')
  <2>1. PICK r : inflight[w] # Null /\ Continue(w, r) /\ (r # Null => r.op = "conflicts")
    <3> DEFINE s == inflight[w].slot
               c == [op |-> "conflicts", appt |-> a, from |-> s.from, until |-> s.until]
    <3>1. inflight[w] # Null /\ (Continue(w, c) \/ Continue(w, Null))
      BY <1>2 DEF WriteRequest, Running, Finish
    <3>2. c.op = "conflicts"
      OBVIOUS
    <3> HIDE DEF c
    <3>3. QED BY <3>1, <3>2
  <2>2. r # Null => StillTrue(r)'
    BY <2>1 DEF StillTrue
  <2>3. QED BY <2>1, <2>2
<1>3. ASSUME NEW w \in Workers, WriteReply(w)
      PROVE  \E r : inflight[w] # Null /\ Continue(w, r) /\ (r # Null => StillTrue(r)')
  <2>1. PICK r : inflight[w] # Null /\ Continue(w, r) /\ (r # Null => r.op = "conflicts")
    <3> DEFINE q == inflight[w]
               a == q.appt
               c == [op |-> "conflicts", appt |-> a, from |-> day[a], until |-> EndOf(a)]
    <3>1. q # Null /\ (Continue(w, c) \/ Continue(w, Null))
      BY <1>3 DEF WriteReply, Running, Finish
    <3>2. c.op = "conflicts"
      OBVIOUS
    <3> HIDE DEF c
    <3>3. QED BY <3>1, <3>2
  <2>2. r # Null => StillTrue(r)'
    BY <2>1 DEF StillTrue
  <2>3. QED BY <2>1, <2>2
<1>4. ASSUME NEW w \in Workers, ReadConflicts(w)
      PROVE  \E r : inflight[w] # Null /\ Continue(w, r) /\ (r # Null => StillTrue(r)')
  <2> PICK found : found = Conflicting(inflight[w])
    OBVIOUS
  <2> DEFINE r == [op |-> "supersede", targets |-> found]
  <2>1. inflight[w] # Null /\ (Continue(w, r) \/ Continue(w, Null)) /\ UNCHANGED status
    BY <1>4 DEF ReadConflicts, Running, Finish, rowVars
  <2>2. \A b \in found : status[b] = "PENDING"
    BY DEF Conflicting
  <2>3. StillTrue(r)'
    BY <2>1, <2>2 DEF StillTrue
  <2>4. QED BY <2>1, <2>3
<1>5. ASSUME NEW w \in Workers, WriteSuperseded(w) \/ Refused(w) \/ Crash(w)
      PROVE  inflight[w] # Null /\ Continue(w, Null)
  BY <1>5 DEF WriteSuperseded, Refused, Crash, Running, Finish
<1>6. CASE \E w \in Workers :
        \/ \E u \in Tenants, s \in Slots, i \in InstantBook : ReadRequest(w, u, s, i)
        \/ \E a \in Appts, s \in TenantStatuses, d \in Days : ReadTenantReply(w, a, s, d)
        \/ \E a \in Appts, s \in OwnerStatuses, d \in Days : ReadOwnerReply(w, a, s, d)
  BY <1>6, ReadsFresh
<1>7. QED BY <1>1, <1>2, <1>3, <1>4, <1>5, <1>6 DEF Next

\* What is not overtaken in a step stays true in it.
LEMMA StillTrueStands ==
  ASSUME NEW r, StillTrue(r), ~Overtakes(r)
  PROVE  StillTrue(r)'
<1>1. r.op = "reply" => status'[r.appt] = status[r.appt]
  BY DEF Overtakes
<1>2. r.op = "supersede" => \A b \in r.targets : status'[b] = status[b]
  BY DEF Overtakes
<1>3. r.op = "request" /\ NightsOf(r.slot) \cap Busy = {} => NightsOf(r.slot) \cap Busy' = {}
  BY DEF Overtakes
<1>4. NightsOf(r.slot)' = NightsOf(r.slot)
  BY DEF NightsOf
<1>5. QED BY <1>1, <1>2, <1>3, <1>4 DEF StillTrue

\* What a handler read is true of the tables as they stand.
LEMMA StillTrueSame ==
  ASSUME NEW r, StillTrue(r), UNCHANGED <<rowVars, blocks>>
  PROVE  StillTrue(r)'
BY DEF StillTrue, NightsOf, Busy, Taken, Accepted, Nights, EndOf, rowVars

\* A step leaves every request it did not overtake with its reads true.
LEMMA FreshInv ==
  ASSUME IInv, FreshReads, [HistoryNext]_historyVars
  PROVE  FreshReads'
<1> inflight \in [Workers -> Request \cup {Null}]
  BY DEF IInv, TypeOK
<1>1. CASE UNCHANGED historyVars
  <2> UNCHANGED <<inflight, overtaken, rowVars, blocks>>
    BY <1>1 DEF historyVars, vars
  <2> SUFFICES ASSUME NEW w \in Workers, inflight[w] # Null, w \notin overtaken
               PROVE  StillTrue(inflight[w])'
    BY DEF FreshReads
  <2> PICK r : r = inflight[w]
    OBVIOUS
  <2>1. StillTrue(r)'
    BY StillTrueSame DEF FreshReads
  <2>2. QED BY <2>1
<1>2. ASSUME HistoryNext, NEW w \in Workers, inflight'[w] # Null, w \notin overtaken'
      PROVE  StillTrue(inflight[w])'
  <2> PICK r : r = inflight'[w]
    OBVIOUS
  <2>1. CASE inflight[w] = r
    <3>1. w \notin overtaken /\ ~Overtakes(inflight[w])
      BY <1>2, <2>1 DEF HistoryNext, Overtake
    <3>2. StillTrue(r)
      BY <1>2, <2>1, <3>1 DEF FreshReads
    <3>3. StillTrue(r)'
      BY <2>1, <3>1, <3>2, StillTrueStands
    <3>4. QED BY <3>3
  <2>2. CASE inflight[w] # r
    <3>1. Next
      BY <1>2 DEF HistoryNext
    <3>2. ASSUME NEW v \in Workers, NEW q, Start(v, q), StillTrue(q)
          PROVE  StillTrue(r)'
      <4>1. v = w /\ q = r
        BY <2>2, <3>2 DEF Start
      <4>2. QED BY <3>2, <4>1, StillTrueSame DEF Start
    <3>3. ASSUME NEW v \in Workers, NEW q, Continue(v, q), q # Null => StillTrue(q)'
          PROVE  StillTrue(r)'
      <4>1. v = w /\ q = r
        BY <2>2, <3>3 DEF Continue
      <4>2. QED BY <1>2, <3>3, <4>1
    <3>4. StillTrue(r)'
      BY <2>2, <3>1, <3>2, <3>3, StepKinds
    <3>5. QED BY <3>4
  <2>3. QED BY <2>1, <2>2
<1>3. QED BY <1>1, <1>2 DEF FreshReads

\* However requests overlap and crash, what one that nothing overtook read is
\* still so.
THEOREM FreshReadsHold == HistorySpec => []FreshReads
<1>1. HistoryInit => FreshReads
  BY DEF HistoryInit, Init, FreshReads
<1>2. IInv /\ FreshReads /\ [HistoryNext]_historyVars => FreshReads'
  BY FreshInv
<1>3. QED BY <1>1, <1>2, HistoryAdds, Invariance, PTL DEF HistorySpec

\* The steps that write a status.
LEMMA WhoWrites ==
  ASSUME [Next]_vars
  PROVE  \/ UNCHANGED status
         \/ \E w \in Workers, a \in Appts : WriteRequest(w, a)
         \/ \E w \in Workers : WriteReply(w) \/ WriteSuperseded(w)
BY DEF Next, vars, rowVars, ReadRequest, ReadTenantReply, ReadOwnerReply, Start,
       ReadConflicts, Refused, Crash, SetAvailability

\* Each of them ends the step of the request it belongs to.
LEMMA WritesMoveOn ==
  ASSUME IInv, NEW w \in Workers,
         WriteReply(w) \/ WriteSuperseded(w) \/ \E a \in Appts : WriteRequest(w, a)
  PROVE  inflight'[w] # inflight[w]
<1>1. inflight[w] # Null /\ inflight[w].op # "conflicts"
  BY DEF WriteReply, WriteSuperseded, WriteRequest, Running
<1>2. PICK r : Continue(w, r) /\ (r # Null => r.op = "conflicts")
  <2>1. CASE WriteSuperseded(w)
    BY <2>1 DEF WriteSuperseded, Finish
  <2>2. ASSUME NEW a \in Appts, WriteRequest(w, a)
        PROVE  \E r : Continue(w, r) /\ (r # Null => r.op = "conflicts")
    <3> PICK s : s = inflight[w].slot
      OBVIOUS
    <3> DEFINE c == [op |-> "conflicts", appt |-> a, from |-> s.from, until |-> s.until]
    <3>1. Continue(w, c) \/ Continue(w, Null)
      BY <2>2 DEF WriteRequest, Finish
    <3>2. c.op = "conflicts"
      OBVIOUS
    <3> HIDE DEF c
    <3>3. QED BY <3>1, <3>2
  <2>3. CASE WriteReply(w)
    <3> PICK a : a = inflight[w].appt
      OBVIOUS
    <3> DEFINE c == [op |-> "conflicts", appt |-> a, from |-> day[a], until |-> EndOf(a)]
    <3>1. Continue(w, c) \/ Continue(w, Null)
      BY <2>3 DEF WriteReply, Finish
    <3>2. c.op = "conflicts"
      OBVIOUS
    <3> HIDE DEF c
    <3>3. QED BY <3>1, <3>2
  <2>4. QED BY <2>1, <2>2, <2>3
<1>3. inflight'[w] = r
  BY <1>2 DEF Continue, IInv, TypeOK
<1>4. QED BY <1>1, <1>2, <1>3

\* A rejected or cancelled request is reopened by a late reply or a late
\* superseding rejection only.
THEOREM ReopeningsAreLate == HistorySpec => ReopeningIsLate
<1> DEFINE Late(a) == \E w \in overtaken :
      /\ inflight'[w] # inflight[w]
      /\ \/ Running(w, "reply") /\ inflight[w].appt = a
         \/ Running(w, "supersede") /\ a \in inflight[w].targets
<1>1. ASSUME IInv, FreshReads, [HistoryNext]_historyVars,
             NEW a \in Appts, status[a] \in {"REJECTED", "CANCELLED"}, status'[a] # status[a]
      PROVE  Late(a)
  <2>1. ASSUME NEW w \in Workers, NEW b \in Appts, WriteRequest(w, b) PROVE FALSE
    BY <1>1, <2>1 DEF WriteRequest
  <2>2. ASSUME NEW w \in Workers, WriteReply(w) PROVE Late(a)
    <3>1. Running(w, "reply") /\ inflight[w].appt = a
      BY <1>1, <2>2 DEF WriteReply
    <3>2. w \in overtaken
      BY <1>1, <3>1 DEF FreshReads, StillTrue, Running, Settled
    <3>3. QED BY <1>1, <2>2, <3>1, <3>2, WritesMoveOn
  <2>3. ASSUME NEW w \in Workers, WriteSuperseded(w) PROVE Late(a)
    <3>1. Running(w, "supersede") /\ a \in inflight[w].targets
      BY <1>1, <2>3 DEF WriteSuperseded, Unanswered
    <3>2. w \in overtaken
      BY <1>1, <3>1 DEF FreshReads, StillTrue, Running
    <3>3. QED BY <1>1, <2>3, <3>1, <3>2, WritesMoveOn
  <2>4. [Next]_vars
    BY <1>1 DEF HistoryNext, historyVars
  <2>5. QED BY <1>1, <2>1, <2>2, <2>3, <2>4, WhoWrites
<1>2. IInv /\ FreshReads /\ [HistoryNext]_historyVars =>
        [\A a \in Appts : status[a] \in {"REJECTED", "CANCELLED"} /\ status'[a] # status[a] =>
           Late(a)]_historyVars
  BY <1>1
<1>3. QED BY <1>2, HistoryAdds, Invariance, FreshReadsHold, PTL DEF HistorySpec, ReopeningIsLate

\* An accepted row is born of an instant booking of its own nights.
LEMMA BornAccepted ==
  ASSUME IInv, [Next]_vars, NEW a \in Appts, status[a] = "none", status'[a] = "ACCEPTED"
  PROVE  \E w \in Workers : /\ WriteRequest(w, a)
                            /\ inflight[w].status = "ACCEPTED"
                            /\ NightsOf(inflight[w].slot) = Nights(a)'
<1>1. PICK w \in Workers : WriteRequest(w, a)
  <2>1. ASSUME NEW w \in Workers, WriteReply(w) PROVE FALSE
    <3>1. inflight[w].appt # a
      BY <2>1 DEF IInv, RequestsOK, RequestOK, RowExists, WriteReply, Running
    <3>2. QED BY <2>1, <3>1 DEF WriteReply
  <2>2. ASSUME NEW w \in Workers, WriteSuperseded(w) PROVE FALSE
    BY <2>2 DEF WriteSuperseded
  <2>3. ASSUME NEW w \in Workers, NEW b \in Appts, WriteRequest(w, b) PROVE b = a
    BY <2>3 DEF WriteRequest
  <2>4. QED BY <2>1, <2>2, <2>3, WhoWrites
<1> DEFINE r == inflight[w]
           s == r.slot
<1>2. r.op = "request" /\ s \in Slots /\ r.status = "ACCEPTED"
  BY <1>1 DEF WriteRequest, Running, IInv, TypeOK, Request
<1>3. Stay
  BY <1>1, <1>2 DEF WriteRequest, Running, IInv, RequestsOK, RequestOK
<1>4. day'[a] = s.from /\ checkOut'[a] = s.until
  BY <1>1, <1>3 DEF WriteRequest, IInv, TypeOK
<1>5. s.until # 0
  BY <1>2
<1>6. EndOf(a)' = s.until
  BY <1>4, <1>5 DEF EndOf
<1>7. Nights(a)' = NightsOf(s)
  BY <1>4, <1>6 DEF Nights, NightsOf
<1>8. QED BY <1>1, <1>2, <1>7

\* Instant book takes a night that is somebody's only if the night was taken or
\* blocked while it was between its look and its insert.
THEOREM DoubleBookingsAreLate == HistorySpec => DoubleBookingIsLate
<1> DEFINE Late(a) == \E w \in overtaken : /\ Running(w, "request")
                                           /\ inflight'[w] # inflight[w]
                                           /\ NightsOf(inflight[w].slot) = Nights(a)'
<1>1. ASSUME IInv, FreshReads, [HistoryNext]_historyVars, NEW a \in Appts,
             status[a] = "none", status'[a] = "ACCEPTED", Nights(a)' \cap Busy # {}
      PROVE  Late(a)
  <2>1. [Next]_vars
    BY <1>1 DEF HistoryNext, historyVars
  <2>2. PICK w \in Workers : /\ WriteRequest(w, a)
                             /\ inflight[w].status = "ACCEPTED"
                             /\ NightsOf(inflight[w].slot) = Nights(a)'
    BY <1>1, <2>1, BornAccepted
  <2>3. Running(w, "request")
    BY <2>2 DEF WriteRequest
  <2>4. w \in overtaken
    BY <1>1, <2>2, <2>3 DEF FreshReads, StillTrue, Running
  <2>5. QED BY <1>1, <2>2, <2>3, <2>4, WritesMoveOn
<1>2. IInv /\ FreshReads /\ [HistoryNext]_historyVars =>
        [\A a \in Appts :
           status[a] = "none" /\ status'[a] = "ACCEPTED" /\ Nights(a)' \cap Busy # {} =>
             Late(a)]_historyVars
  BY <1>1
<1>3. QED BY <1>2, HistoryAdds, Invariance, FreshReadsHold, PTL
      DEF HistorySpec, DoubleBookingIsLate
=============================================================================
