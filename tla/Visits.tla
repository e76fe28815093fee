------------------------------- MODULE Visits -------------------------------
(***************************************************************************)
(* Visit and stay requests on one listing: the Appointment table, the       *)
(* owner's AvailabilityBlock table, and the handlers of                     *)
(* appointments.service.js and availability.service.js that write them.     *)
(*                                                                          *)
(* As everywhere in the backend, a handler reads, checks, and writes after  *)
(* an await: Read* and Write* are separate actions.  An acceptance goes on  *)
(* after its write: it looks up the requests it supersedes (ReadConflicts)  *)
(* and rejects them in one updateMany (WriteSuperseded).                    *)
(*                                                                          *)
(* Slots are days.  That a slot is in the future, inside the owner's hours  *)
(* and within minNights..maxNights is a property of the input: Slots and    *)
(* Days hold the ones that pass.  The listing being ACTIVE, its risk level  *)
(* and personal blocks can only refuse a request: the model then does not   *)
(* take ReadRequest.                                                        *)
(***************************************************************************)
EXTENDS Naturals, FiniteSets

CONSTANTS
  Appts,       \* Appointment ids
  Tenants,     \* renters
  Days,        \* days a slot can name
  Slots,       \* [from, until] records a renter can ask for
  Workers,     \* requests the server can have in flight at once
  Null,        \* SQL null, and "no request" for a worker
  MaxStamps,   \* bound: writes of respondedAt that are told apart
  Stay,        \* property.type = 'SHORT_STAY'
  InstantBook, \* the values property.instantBook takes (its owner may switch it)
  MayCrash     \* the process may die between two steps of a request

ASSUME VisitsAssumption ==
  /\ Days \subseteq Nat \ {0}
  /\ Slots \subseteq [from : Days, until : Days]
  /\ \A s \in Slots : s.from < s.until
  /\ Null \notin Appts \cup Tenants
  /\ MaxStamps \in Nat \ {0}
  /\ Stay \in BOOLEAN /\ InstantBook \subseteq BOOLEAN
  /\ MayCrash \in BOOLEAN

VARIABLES
  status,       \* Appointment.status, "none" before the row exists
  tenant,       \* Appointment.tenantId
  day,          \* Appointment.requestedDate: the visit, or a stay's check-in
  checkOut,     \* Appointment.checkOutDate, 0 (null) for a visit
  respondedAt,  \* 0 is null, n the n-th instant (later ones counted as MaxStamps)
  blocks,       \* days with an AvailabilityBlock row
  inflight      \* per worker: the request between two of its steps

rowVars == <<status, tenant, day, checkOut, respondedAt>>
vars == <<rowVars, blocks, inflight>>

-----------------------------------------------------------------------------
Status == {"none", "PENDING", "ACCEPTED", "REJECTED", "RESCHEDULED",
           "RESCHEDULE_REQUESTED", "CANCELLED"}
\* Mutant: a cancelled request can be answered.
SettledByOwner == {"REJECTED"}

Settled == {"REJECTED", "CANCELLED"}
TenantStatuses == {"CANCELLED", "RESCHEDULE_REQUESTED"}
\* Mutant: an answer the enum does not have.
OwnerStatusesUnlisted == {"ACCEPTED", "REJECTED", "RESCHEDULED", "CANCELLED", "DONE"}

OwnerStatuses == {"ACCEPTED", "REJECTED", "RESCHEDULED", "CANCELLED"}
Moves == {"RESCHEDULED", "RESCHEDULE_REQUESTED"}

Stamps == 0..MaxStamps
Now(a) == IF respondedAt[a] < MaxStamps THEN respondedAt[a] + 1 ELSE MaxStamps

\* What a handler carries from one step to the next.
Request ==
  [op : {"request"}, user : Tenants, slot : Slots, status : {"PENDING", "ACCEPTED"}]
    \cup [op : {"reply"}, appt : Appts, byTenant : BOOLEAN, next : OwnerStatuses \cup TenantStatuses,
          day : Days, seen : Stamps]
    \cup [op : {"conflicts"}, appt : Appts, from : Days, until : Nat]
    \cup [op : {"supersede"}, targets : SUBSET Appts]

\* The end of what a row occupies, exclusive.
EndOf(a) == IF checkOut[a] = 0 THEN day[a] + 1 ELSE checkOut[a]

\* isDateUnavailable: an accepted row that starts that day, or a block.
DateUnavailable(d) ==
  d \in blocks \/ \E a \in Appts : status[a] = "ACCEPTED" /\ day[a] = d

\* Mutant: only a stay that starts inside the range is in its way.
RangeStartUnavailable(s) ==
  \/ \E d \in blocks : s.from <= d /\ d < s.until
  \/ \E a \in Appts : status[a] = "ACCEPTED" /\ s.from <= day[a] /\ day[a] < s.until

\* isRangeUnavailable: the nights from..until-1 against blocks and accepted rows.
RangeUnavailable(s) ==
  \/ \E d \in blocks : s.from <= d /\ d < s.until
  \/ \E a \in Appts : status[a] = "ACCEPTED" /\ EndOf(a) > s.from /\ day[a] < s.until

\* @@unique([tenantId, propertyId, status]): moving the rows of S to status s
\* leaves no tenant with two rows of that status.
UniqueOK(S, s) ==
  /\ \A a \in S, b \in Appts \ S : status[b] = s => tenant[b] # tenant[a]
  /\ \A a, b \in S : a # b => tenant[a] # tenant[b]

Init ==
  /\ status = [a \in Appts |-> "none"]
  /\ tenant = [a \in Appts |-> Null]
  /\ day = [a \in Appts |-> 0]
  /\ checkOut = [a \in Appts |-> 0]
  /\ respondedAt = [a \in Appts |-> 0]
  /\ blocks = {}
  /\ inflight = [w \in Workers |-> Null]

Start(w, r) ==
  /\ inflight[w] = Null
  /\ inflight' = [inflight EXCEPT ![w] = r]
  /\ UNCHANGED <<rowVars, blocks>>

Running(w, o) == inflight[w] # Null /\ inflight[w].op = o

Continue(w, r) == inflight' = [inflight EXCEPT ![w] = r]
Finish(w) == Continue(w, Null)

-----------------------------------------------------------------------------
(* A renter's request                                                       *)

\* Bound: an id is left for every request about to create its row.
IdLeft == Cardinality({w \in Workers : Running(w, "request")})
            < Cardinality({a \in Appts : status[a] = "none"})

\* A stay is accepted at once if the listing is instant book.
NewStatus(instant) == IF Stay /\ instant THEN "ACCEPTED" ELSE "PENDING"

ReadRequest(w, u, s, instant) ==
  /\ IdLeft
  /\ \A a \in Appts : ~(tenant[a] = u /\ status[a] = "PENDING")
  /\ IF Stay THEN ~RangeUnavailable(s) ELSE ~DateUnavailable(s.from)
  /\ Start(w, [op |-> "request", user |-> u, slot |-> s, status |-> NewStatus(instant)])

\* Mutant: the unique index is gone.
AnyNewRowAllowed(u, s) == TRUE

\* The same index, for a row to be inserted.
NewRowAllowed(u, s) == \A a \in Appts : ~(tenant[a] = u /\ status[a] = s)

WriteRequest(w, a) ==
  /\ Running(w, "request")
  /\ status[a] = "none"
  /\ LET r == inflight[w]
         s == r.slot IN
       /\ NewRowAllowed(r.user, r.status)
       /\ status' = [status EXCEPT ![a] = r.status]
       /\ tenant' = [tenant EXCEPT ![a] = r.user]
       /\ day' = [day EXCEPT ![a] = s.from]
       /\ checkOut' = [checkOut EXCEPT ![a] = IF Stay THEN s.until ELSE 0]
       /\ respondedAt' = [respondedAt EXCEPT
                            ![a] = IF r.status = "ACCEPTED" THEN Now(a) ELSE 0]
       /\ IF r.status = "ACCEPTED"
          THEN Continue(w, [op |-> "conflicts", appt |-> a, from |-> s.from, until |-> s.until])
          ELSE Finish(w)
  /\ UNCHANGED blocks

-----------------------------------------------------------------------------
(* updateAppointmentStatus, by the renter or by the owner                   *)

\* Only a move names a day; any other reply leaves the row's.
DayOfReply(a, s, d) == s \in Moves \/ d = day[a]

Replied(a, byTenant, s, d) ==
  [op |-> "reply", appt |-> a, byTenant |-> byTenant, next |-> s, day |-> d,
   seen |-> respondedAt[a]]

ReadTenantReply(w, a, s, d) ==
  /\ status[a] \notin Settled \cup {"none"}
  /\ s \in TenantStatuses
  /\ DayOfReply(a, s, d)
  /\ s = "RESCHEDULE_REQUESTED" => ~DateUnavailable(d)
  /\ Start(w, Replied(a, TRUE, s, d))

\* An owner may move a visit onto a taken day: their calendar, their call.
ReadOwnerReply(w, a, s, d) ==
  /\ status[a] \notin Settled \cup {"none"}
  /\ s \in OwnerStatuses
  /\ DayOfReply(a, s, d)
  /\ Start(w, Replied(a, FALSE, s, d))

\* Mutant: no stamp at all.
StampNothing(r) == r.seen

\* respondedAt: what the handler read, or now if it read null.
StampReply(r) == IF r.seen # 0 THEN r.seen ELSE Now(r.appt)

WriteReply(w) ==
  /\ Running(w, "reply")
  /\ LET r == inflight[w]
         a == r.appt IN
       /\ UniqueOK({a}, r.next)
       /\ status' = [status EXCEPT ![a] = r.next]
       /\ day' = [day EXCEPT ![a] = IF r.next \in Moves THEN r.day ELSE @]
       /\ respondedAt' = [respondedAt EXCEPT ![a] = IF r.byTenant THEN @ ELSE StampReply(r)]
       /\ IF r.next = "ACCEPTED"
          THEN Continue(w, [op |-> "conflicts", appt |-> a, from |-> day[a], until |-> EndOf(a)])
          ELSE Finish(w)
  /\ UNCHANGED <<tenant, checkOut, blocks>>

-----------------------------------------------------------------------------
(* rejectSupersededPending                                                  *)

Conflicting(r) ==
  {b \in Appts : /\ b # r.appt
                 /\ status[b] = "PENDING"
                 /\ day[b] < r.until
                 /\ EndOf(b) > r.from}

ReadConflicts(w) ==
  /\ Running(w, "conflicts")
  /\ LET found == Conflicting(inflight[w]) IN
       IF found = {} THEN Finish(w)
                     ELSE Continue(w, [op |-> "supersede", targets |-> found])
  /\ UNCHANGED <<rowVars, blocks>>

\* Mutant: updateMany by id alone.
EveryTarget(S) == S

\* The where clause of the updateMany: still nobody's answer on them.
Unanswered(S) == {b \in S : respondedAt[b] = 0}

WriteSuperseded(w) ==
  /\ Running(w, "supersede")
  /\ LET S == Unanswered(inflight[w].targets) IN
       /\ UniqueOK(S, "REJECTED")
       /\ status' = [b \in Appts |-> IF b \in S THEN "REJECTED" ELSE status[b]]
       /\ respondedAt' = [b \in Appts |-> IF b \in S THEN Now(b) ELSE respondedAt[b]]
  /\ Finish(w)
  /\ UNCHANGED <<tenant, day, checkOut, blocks>>

-----------------------------------------------------------------------------
\* The unique index refuses the write and the handler throws: the request ends
\* there, what it wrote in earlier steps stays.
Refused(w) ==
  /\ \/ Running(w, "request") /\ ~NewRowAllowed(inflight[w].user, inflight[w].status)
     \/ Running(w, "reply") /\ ~UniqueOK({inflight[w].appt}, inflight[w].next)
     \/ Running(w, "supersede") /\ ~UniqueOK(Unanswered(inflight[w].targets), "REJECTED")
  /\ Finish(w)
  /\ UNCHANGED <<rowVars, blocks>>

Crash(w) ==
  /\ MayCrash
  /\ inflight[w] # Null
  /\ Finish(w)
  /\ UNCHANGED <<rowVars, blocks>>

\* The owner replaces the whole set of blocked days.
SetAvailability(S) ==
  /\ blocks' = S
  /\ UNCHANGED <<rowVars, inflight>>

Next ==
  \/ \E w \in Workers, u \in Tenants, s \in Slots, i \in InstantBook : ReadRequest(w, u, s, i)
  \/ \E w \in Workers, a \in Appts : WriteRequest(w, a)
  \/ \E w \in Workers, a \in Appts, s \in TenantStatuses, d \in Days : ReadTenantReply(w, a, s, d)
  \/ \E w \in Workers, a \in Appts, s \in OwnerStatuses, d \in Days : ReadOwnerReply(w, a, s, d)
  \/ \E w \in Workers : WriteReply(w)
  \/ \E w \in Workers : ReadConflicts(w)
  \/ \E w \in Workers : WriteSuperseded(w)
  \/ \E w \in Workers : Refused(w)
  \/ \E w \in Workers : Crash(w)
  \/ \E S \in SUBSET Days : SetAvailability(S)

Spec == Init /\ [][Next]_vars
-----------------------------------------------------------------------------
(* Properties                                                               *)

\* Every column holds a value of its type.
TypeOK ==
  /\ status \in [Appts -> Status]
  /\ tenant \in [Appts -> Tenants \cup {Null}]
  /\ day \in [Appts -> Days \cup {0}]
  /\ checkOut \in [Appts -> Days \cup {0}]
  /\ respondedAt \in [Appts -> Stamps]
  /\ blocks \subseteq Days
  /\ inflight \in [Workers -> Request \cup {Null}]

\* The owner's first answer has a time exactly from the first answer on, in
\* whatever order replies, cancellations and superseding rejections land:
\* what trust/responsiveness.js measures is there whenever a reply was given.
AnsweredStamped ==
  \A a \in Appts :
    /\ status[a] \in {"ACCEPTED", "REJECTED", "RESCHEDULED"} => respondedAt[a] # 0
    /\ status[a] \in {"none", "PENDING"} => respondedAt[a] = 0

\* A renter never has two requests pending on one listing, even when both were
\* sent at once and each found none.
OneRequestPerRenter ==
  \A a, b \in Appts :
    status[a] = "PENDING" /\ status[b] = "PENDING" /\ tenant[a] = tenant[b] => a = b

\* An acceptance settles undecided requests only: one the owner accepted or
\* moved between its look-up and its updateMany keeps the owner's answer.
SupersedeSparesAnswered ==
  [][\A w \in Workers : Running(w, "supersede") /\ inflight'[w] = Null =>
       \A a \in Appts : status[a] \in {"ACCEPTED", "RESCHEDULED"} => status'[a] = status[a]]_vars

\* The nights (for a visit, the one day) a row stands for.
Nights(a) == {d \in Days : day[a] <= d /\ d < EndOf(a)}
Accepted == {a \in Appts : status[a] = "ACCEPTED"}
Taken == UNION {Nights(a) : a \in Accepted}

\* A renter's counter-offer names a day the owner has not already committed.
CounterOfferIsFree ==
  [][\A a \in Appts : status'[a] = "RESCHEDULE_REQUESTED" /\ day'[a] # day[a] =>
       day'[a] \notin Taken]_vars

\* Between requests, nobody is left waiting for a day that is taken: accepting
\* settled every pending request it covers.
AcceptanceSettlesDay ==
  (\A w \in Workers : inflight[w] = Null) =>
    \A a, b \in Appts : status[a] = "ACCEPTED" /\ status[b] = "PENDING" =>
      Nights(a) \cap Nights(b) = {}
=============================================================================
