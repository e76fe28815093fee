------------------------------ MODULE Occupancy ------------------------------
(***************************************************************************)
(* The life of a listing and of the people who live in it: Property.status *)
(* and its neighbouring columns, the Lease table and the Tenancy table, and *)
(* every backend handler that writes one of them.                           *)
(*                                                                          *)
(* A handler is an async function: it reads rows, checks them, and only     *)
(* after one or more awaits writes by primary key.  Nothing is locked, so   *)
(* other requests run between the two.  Each such handler is therefore two  *)
(* actions: Read* (the findUnique and every early return) leaves a request  *)
(* in flight, Write* is the update or the $transaction array, which Postgres *)
(* applies atomically or not at all.  A handler that is one conditional     *)
(* statement is one action.                                                 *)
(***************************************************************************)
EXTENDS Naturals, FiniteSets

CONSTANTS
  Users,        \* accounts
  Properties,   \* listing ids
  Leases,       \* lease ids; a lease's tenancy row is known by its leaseId
  Marks,        \* ids of the tenancy rows markTenant creates
  Workers,      \* requests the server can have in flight at once
  OwnerOf,      \* Property.ownerId
  Contacts,     \* <<property, user>> pairs with a visit or a conversation
  Null,         \* SQL null, and "no request" for a worker
  MaxStamps     \* bound: writes of publishedAt that are told apart

ASSUME ConstantsAssumption ==
  /\ OwnerOf \in [Properties -> Users]
  /\ Contacts \subseteq Properties \X Users
  /\ Leases \cap Marks = {}
  /\ Null \notin Users \cup Properties \cup Leases \cup Marks
  /\ MaxStamps \in Nat

VARIABLES
  accounts,       \* User rows that exist
  status,         \* Property.status, "none" before create, "gone" after delete
  publishedAt,    \* Property.publishedAt: 0 is null, n is the n-th instant written,
                  \* later ones all counted as the MaxStamps-th
  moderation,     \* moderatedAt against ownerEditedAt, see Moderation
  currentTenant,  \* Property.currentTenantId
  leaseStatus,    \* Lease.status
  leaseProperty,  \* Lease.propertyId
  leaseTenant,    \* Lease.tenantId
  signed,         \* Lease.signedAt is set
  tenancy,        \* the Tenancy rows: whether they exist, endedAt
  tenancyProperty,
  tenancyTenant,
  confirmed,      \* Tenancy.confirmedAt is set
  inflight        \* per worker: the request between its read and its write

listingVars == <<status, publishedAt, moderation, currentTenant>>
leaseVars   == <<leaseStatus, leaseProperty, leaseTenant, signed>>
tenancyVars == <<tenancy, tenancyProperty, tenancyTenant, confirmed>>
vars == <<accounts, listingVars, leaseVars, tenancyVars, inflight>>

-----------------------------------------------------------------------------
Status == {"none", "DRAFT", "PENDING", "ACTIVE", "INACTIVE", "OCCUPIED",
           "REJECTED", "SUSPENDED", "gone"}

\* "clear": moderatedAt is null.  "unanswered": moderatedAt is set and the
\* owner has not edited since.  "answered": ownerEditedAt > moderatedAt.
Moderation == {"clear", "unanswered", "answered"}

LeaseStatus == {"none", "OFFERED", "ACTIVE", "REJECTED", "TERMINATED", "gone"}

Tenancies == Leases \cup Marks

\* "open" has endedAt null.  "declined" was deleted by its tenant, "erased"
\* went with a cascade; the columns of a deleted row are kept to speak of it.
TenancyState == {"none", "open", "ended", "declined", "erased"}

Ops == {"publish", "toggle", "mark", "vacate", "delete", "setStatus", "verify",
        "sign", "reject", "terminate", "decline"}

Request == [op : Ops, property : Properties, id : Tenancies \cup {Null},
            user : Users \cup {Null}, next : Status \cup {Null}, stamp : BOOLEAN]

Exists(p) == status[p] \notin {"none", "gone"}

\* Mutant: every approval stamps.
EveryPublishStamp(p) == status[p] # "OCCUPIED"

\* firstPublishStamp(current, 'ACTIVE'): once, and not from OCCUPIED.
FirstPublishStamp(p) == publishedAt[p] = 0 /\ status[p] # "OCCUPIED"

\* editedSinceModeration(property)
EditedSinceModeration(p) == moderation[p] # "unanswered"

Init ==
  /\ accounts = Users
  /\ status = [p \in Properties |-> "none"]
  /\ publishedAt = [p \in Properties |-> 0]
  /\ moderation = [p \in Properties |-> "clear"]
  /\ currentTenant = [p \in Properties |-> Null]
  /\ leaseStatus = [l \in Leases |-> "none"]
  /\ leaseProperty = [l \in Leases |-> Null]
  /\ leaseTenant = [l \in Leases |-> Null]
  /\ signed = [l \in Leases |-> FALSE]
  /\ tenancy = [t \in Tenancies |-> "none"]
  /\ tenancyProperty = [t \in Tenancies |-> Null]
  /\ tenancyTenant = [t \in Tenancies |-> Null]
  /\ confirmed = [t \in Tenancies |-> FALSE]
  /\ inflight = [w \in Workers |-> Null]

-----------------------------------------------------------------------------
(* Requests                                                                 *)

Req(o, p) == [op |-> o, property |-> p, id |-> Null, user |-> Null,
              next |-> Null, stamp |-> FALSE]

\* The handler's reads passed their checks; it now awaits its write.
Start(w, r) ==
  /\ inflight[w] = Null
  /\ inflight' = [inflight EXCEPT ![w] = r]
  /\ UNCHANGED <<accounts, listingVars, leaseVars, tenancyVars>>

Running(w, o) == inflight[w] # Null /\ inflight[w].op = o

Finish(w) == inflight' = [inflight EXCEPT ![w] = Null]

\* The process dies before the write, or the database refuses it (the row is
\* gone, a unique index or a foreign key objects): the transaction leaves no trace.
Abandon(w) ==
  /\ inflight[w] # Null
  /\ Finish(w)
  /\ UNCHANGED <<accounts, listingVars, leaseVars, tenancyVars>>

-----------------------------------------------------------------------------
(* Listings                                                                 *)

CreateProperty(p) ==
  /\ status[p] = "none"
  /\ OwnerOf[p] \in accounts
  /\ status' = [status EXCEPT ![p] = "DRAFT"]
  /\ UNCHANGED <<accounts, publishedAt, moderation, currentTenant, leaseVars,
                 tenancyVars, inflight>>

UpdateProperty(p) ==
  /\ Exists(p)
  /\ moderation[p] = "unanswered"
  /\ moderation' = [moderation EXCEPT ![p] = "answered"]
  /\ UNCHANGED <<accounts, status, publishedAt, currentTenant, leaseVars,
                 tenancyVars, inflight>>

ReadPublish(w, p) ==
  /\ status[p] \in {"DRAFT", "REJECTED"}
  /\ status[p] = "REJECTED" => EditedSinceModeration(p)
  /\ Start(w, Req("publish", p))

WritePublish(w) ==
  /\ Running(w, "publish")
  /\ LET p == inflight[w].property IN
       /\ Exists(p)
       /\ status' = [status EXCEPT ![p] = "PENDING"]
       /\ moderation' = [moderation EXCEPT ![p] = "clear"]
  /\ Finish(w)
  /\ UNCHANGED <<accounts, publishedAt, currentTenant, leaseVars, tenancyVars>>

\* Mutant: the owner resumes whatever is not live.
ReadToggleAny(w, p) ==
  /\ Exists(p)
  /\ Start(w, [Req("toggle", p) EXCEPT
                 !.next = IF status[p] = "ACTIVE" THEN "INACTIVE" ELSE "ACTIVE"])

ReadToggle(w, p) ==
  /\ status[p] \in {"ACTIVE", "INACTIVE"}
  /\ Start(w, [Req("toggle", p) EXCEPT
                 !.next = IF status[p] = "ACTIVE" THEN "INACTIVE" ELSE "ACTIVE"])

WriteToggle(w) ==
  /\ Running(w, "toggle")
  /\ LET r == inflight[w] IN
       /\ Exists(r.property)
       /\ status' = [status EXCEPT ![r.property] = r.next]
  /\ Finish(w)
  /\ UNCHANGED <<accounts, publishedAt, moderation, currentTenant, leaseVars,
                 tenancyVars>>

\* The owner names who lives there; the tenant has been in touch about it.
ReadMark(w, p, u) ==
  /\ status[p] = "ACTIVE"
  /\ u # OwnerOf[p]
  /\ u \in accounts
  /\ <<p, u>> \in Contacts
  /\ Start(w, [Req("mark", p) EXCEPT !.user = u])

WriteMark(w, m) ==
  /\ Running(w, "mark")
  /\ LET p == inflight[w].property
         u == inflight[w].user IN
       /\ Exists(p)
       /\ u \in accounts
       /\ tenancy[m] = "none"
       /\ status' = [status EXCEPT ![p] = "OCCUPIED"]
       /\ currentTenant' = [currentTenant EXCEPT ![p] = u]
       /\ tenancy' = [tenancy EXCEPT ![m] = "open"]
       /\ tenancyProperty' = [tenancyProperty EXCEPT ![m] = p]
       /\ tenancyTenant' = [tenancyTenant EXCEPT ![m] = u]
  /\ Finish(w)
  /\ UNCHANGED <<accounts, publishedAt, moderation, leaseVars, confirmed>>

\* endTenancyOp: every row of S that is still open gets its endedAt.
EndTenancies(S) ==
  tenancy' = [t \in Tenancies |->
                IF t \in S /\ tenancy[t] = "open" THEN "ended" ELSE tenancy[t]]

TenanciesAt(p) == {t \in Tenancies : tenancyProperty[t] = p}

ReadVacate(w, p) ==
  /\ status[p] = "OCCUPIED"
  /\ Start(w, Req("vacate", p))

\* Mutant: vacating ends the tenancy and leaves the listing OCCUPIED.
WriteVacateRecordOnly(w) ==
  /\ Running(w, "vacate")
  /\ Exists(inflight[w].property)
  /\ EndTenancies(TenanciesAt(inflight[w].property))
  /\ Finish(w)
  /\ UNCHANGED <<accounts, listingVars, leaseVars, tenancyProperty, tenancyTenant,
                 confirmed>>

WriteVacate(w) ==
  /\ Running(w, "vacate")
  /\ LET p == inflight[w].property IN
       /\ Exists(p)
       /\ status' = [status EXCEPT ![p] = "ACTIVE"]
       /\ currentTenant' = [currentTenant EXCEPT ![p] = Null]
       /\ EndTenancies(TenanciesAt(p))
  /\ Finish(w)
  /\ UNCHANGED <<accounts, publishedAt, moderation, leaseVars, tenancyProperty,
                 tenancyTenant, confirmed>>

\* ON DELETE CASCADE: the listings, leases and tenancies of a set are deleted.
\* A deleted row's columns mean nothing and take their initial value, but for
\* the ones a tenancy is still spoken of by.
EraseListings(S) ==
  /\ status' = [p \in Properties |-> IF p \in S /\ Exists(p) THEN "gone" ELSE status[p]]
  /\ moderation' = [p \in Properties |-> IF p \in S THEN "clear" ELSE moderation[p]]

EraseLeases(S) ==
  LET erased == {l \in S : leaseStatus[l] # "none"} IN
    /\ leaseStatus' = [l \in Leases |-> IF l \in erased THEN "gone" ELSE leaseStatus[l]]
    /\ leaseProperty' = [l \in Leases |-> IF l \in erased THEN Null ELSE leaseProperty[l]]
    /\ leaseTenant' = [l \in Leases |-> IF l \in erased THEN Null ELSE leaseTenant[l]]
    /\ signed' = [l \in Leases |-> l \notin erased /\ signed[l]]

EraseTenancies(S) ==
  LET erased == {t \in S : tenancy[t] \in {"open", "ended"}} IN
    /\ tenancy' = [t \in Tenancies |-> IF t \in erased THEN "erased" ELSE tenancy[t]]
    /\ confirmed' = [t \in Tenancies |-> t \notin erased /\ confirmed[t]]
    /\ UNCHANGED <<tenancyProperty, tenancyTenant>>

\* Mutant: a signed lease is no obstacle.
ReadDeleteLeased(w, p) ==
  /\ Exists(p)
  /\ status[p] # "SUSPENDED"
  /\ Start(w, Req("delete", p))

ReadDelete(w, p) ==
  /\ Exists(p)
  /\ \A l \in Leases : ~(leaseProperty[l] = p /\ leaseStatus[l] = "ACTIVE")
  /\ status[p] # "SUSPENDED"
  /\ Start(w, Req("delete", p))

WriteDelete(w) ==
  /\ Running(w, "delete")
  /\ LET p == inflight[w].property IN
       /\ Exists(p)
       /\ EraseListings({p})
       /\ currentTenant' = [currentTenant EXCEPT ![p] = Null]
       /\ EraseLeases({l \in Leases : leaseProperty[l] = p})
       /\ EraseTenancies(TenanciesAt(p))
  /\ Finish(w)
  /\ UNCHANGED <<accounts, publishedAt>>

-----------------------------------------------------------------------------
(* Moderation                                                               *)

ReadSetStatus(w, p, s) ==
  /\ Exists(p)
  /\ s \in {"ACTIVE", "SUSPENDED", "REJECTED"}
  /\ s = "ACTIVE" => status[p] \in {"PENDING", "SUSPENDED", "REJECTED", "ACTIVE"}
  /\ Start(w, [Req("setStatus", p) EXCEPT
                 !.next = s, !.stamp = (s = "ACTIVE" /\ FirstPublishStamp(p))])

Stamp(p, wanted) ==
  publishedAt' = [publishedAt EXCEPT
                    ![p] = IF wanted /\ @ < MaxStamps THEN @ + 1 ELSE @]

WriteSetStatus(w) ==
  /\ Running(w, "setStatus")
  /\ LET r == inflight[w] IN
       /\ Exists(r.property)
       /\ status' = [status EXCEPT ![r.property] = r.next]
       /\ Stamp(r.property, r.stamp)
       /\ moderation' = [moderation EXCEPT
            ![r.property] = IF r.next = "ACTIVE" THEN "clear" ELSE "unanswered"]
  /\ Finish(w)
  /\ UNCHANGED <<accounts, currentTenant, leaseVars, tenancyVars>>

ReadVerify(w, p) ==
  /\ status[p] = "PENDING"
  /\ Start(w, [Req("verify", p) EXCEPT !.stamp = FirstPublishStamp(p)])

WriteVerify(w) ==
  /\ Running(w, "verify")
  /\ LET r == inflight[w] IN
       /\ Exists(r.property)
       /\ status' = [status EXCEPT ![r.property] = "ACTIVE"]
       /\ Stamp(r.property, r.stamp)
  /\ Finish(w)
  /\ UNCHANGED <<accounts, moderation, currentTenant, leaseVars, tenancyVars>>

\* submitReport's automatic suspension and adminModerateReport's SUSPEND: one
\* write, from whatever status the listing has.
SuspendReported(p) ==
  /\ Exists(p)
  /\ status' = [status EXCEPT ![p] = "SUSPENDED"]
  /\ UNCHANGED <<accounts, publishedAt, moderation, currentTenant, leaseVars,
                 tenancyVars, inflight>>

\* toggleUserBlock(blocked = true): one updateMany over the owner's live listings.
BlockOwner(u) ==
  /\ u \in accounts
  /\ status' = [p \in Properties |->
       IF OwnerOf[p] = u /\ status[p] = "ACTIVE" THEN "SUSPENDED" ELSE status[p]]
  /\ UNCHANGED <<accounts, publishedAt, moderation, currentTenant, leaseVars,
                 tenancyVars, inflight>>

\* deleteAccount: the user's listings, leases and tenancies cascade, and a
\* listing they live in has its currentTenantId set to null.
DeleteAccount(u) ==
  /\ u \in accounts
  /\ LET owned == {p \in Properties : OwnerOf[p] = u} IN
       /\ EraseListings(owned)
       /\ EraseLeases({l \in Leases : leaseTenant[l] = u \/ leaseProperty[l] \in owned})
       /\ EraseTenancies({t \in Tenancies : tenancyTenant[t] = u \/ tenancyProperty[t] \in owned})
  /\ accounts' = accounts \ {u}
  /\ currentTenant' = [p \in Properties |->
       IF OwnerOf[p] = u \/ currentTenant[p] = u THEN Null ELSE currentTenant[p]]
  /\ UNCHANGED <<publishedAt, inflight>>

-----------------------------------------------------------------------------
(* Leases                                                                   *)

\* Any listing of the owner's, whatever its status, and any number of offers.
CreateLease(l, p, u) ==
  /\ leaseStatus[l] = "none"
  /\ Exists(p)
  /\ u \in accounts
  /\ u # OwnerOf[p]
  /\ leaseStatus' = [leaseStatus EXCEPT ![l] = "OFFERED"]
  /\ leaseProperty' = [leaseProperty EXCEPT ![l] = p]
  /\ leaseTenant' = [leaseTenant EXCEPT ![l] = u]
  /\ UNCHANGED <<accounts, listingVars, signed, tenancyVars, inflight>>

ReadLease(w, l, o, s) ==
  /\ leaseStatus[l] = s
  /\ Start(w, [Req(o, leaseProperty[l]) EXCEPT !.id = l, !.user = leaseTenant[l]])

ReadSign(w, l)      == ReadLease(w, l, "sign", "OFFERED")
ReadReject(w, l)    == ReadLease(w, l, "reject", "OFFERED")
ReadTerminate(w, l) == ReadLease(w, l, "terminate", "ACTIVE")

LeaseRowExists(l) == leaseStatus[l] \notin {"none", "gone"}

\* Mutant: leaseId is not unique.
AnyTenancy(l) == TRUE

\* Tenancy.leaseId is unique: a second transaction for the same lease aborts.
NoTenancyYet(l) == tenancy[l] = "none"

WriteSign(w) ==
  /\ Running(w, "sign")
  /\ LET l == inflight[w].id
         p == inflight[w].property
         u == inflight[w].user IN
       /\ LeaseRowExists(l)
       /\ NoTenancyYet(l)
       /\ leaseStatus' = [leaseStatus EXCEPT ![l] = "ACTIVE"]
       /\ signed' = [signed EXCEPT ![l] = TRUE]
       /\ status' = [status EXCEPT ![p] = "OCCUPIED"]
       /\ currentTenant' = [currentTenant EXCEPT ![p] = u]
       /\ tenancy' = [tenancy EXCEPT ![l] = "open"]
       /\ tenancyProperty' = [tenancyProperty EXCEPT ![l] = p]
       /\ tenancyTenant' = [tenancyTenant EXCEPT ![l] = u]
       /\ confirmed' = [confirmed EXCEPT ![l] = TRUE]
  /\ Finish(w)
  /\ UNCHANGED <<accounts, publishedAt, moderation, leaseProperty, leaseTenant>>

\* Mutant: a lease status the enum does not have.
WriteRejectUnlisted(w) ==
  /\ Running(w, "reject")
  /\ LeaseRowExists(inflight[w].id)
  /\ leaseStatus' = [leaseStatus EXCEPT ![inflight[w].id] = "DECLINED"]
  /\ Finish(w)
  /\ UNCHANGED <<accounts, listingVars, leaseProperty, leaseTenant, signed,
                 tenancyVars>>

WriteReject(w) ==
  /\ Running(w, "reject")
  /\ LeaseRowExists(inflight[w].id)
  /\ leaseStatus' = [leaseStatus EXCEPT ![inflight[w].id] = "REJECTED"]
  /\ Finish(w)
  /\ UNCHANGED <<accounts, listingVars, leaseProperty, leaseTenant, signed,
                 tenancyVars>>

\* Mutant: the tenancy is left open.
WriteTerminateOpen(w) ==
  /\ Running(w, "terminate")
  /\ LET l == inflight[w].id
         p == inflight[w].property IN
       /\ LeaseRowExists(l)
       /\ leaseStatus' = [leaseStatus EXCEPT ![l] = "TERMINATED"]
       /\ status' = [status EXCEPT ![p] = "ACTIVE"]
       /\ currentTenant' = [currentTenant EXCEPT ![p] = Null]
  /\ Finish(w)
  /\ UNCHANGED <<accounts, publishedAt, moderation, leaseProperty, leaseTenant,
                 signed, tenancyVars>>

WriteTerminate(w) ==
  /\ Running(w, "terminate")
  /\ LET l == inflight[w].id
         p == inflight[w].property IN
       /\ LeaseRowExists(l)
       /\ leaseStatus' = [leaseStatus EXCEPT ![l] = "TERMINATED"]
       /\ status' = [status EXCEPT ![p] = "ACTIVE"]
       /\ currentTenant' = [currentTenant EXCEPT ![p] = Null]
       /\ EndTenancies({l})
  /\ Finish(w)
  /\ UNCHANGED <<accounts, publishedAt, moderation, leaseProperty, leaseTenant,
                 signed, tenancyProperty, tenancyTenant, confirmed>>

-----------------------------------------------------------------------------
(* The tenant's word on a tenancy                                           *)

RowExists(t) == tenancy[t] \in {"open", "ended"}

\* One conditional updateMany: no request can come between check and write.
ConfirmTenancy(t) ==
  /\ RowExists(t)
  /\ ~confirmed[t]
  /\ confirmed' = [confirmed EXCEPT ![t] = TRUE]
  /\ UNCHANGED <<accounts, listingVars, leaseVars, tenancy, tenancyProperty,
                 tenancyTenant, inflight>>

\* Mutant: a confirmed tenancy can be declined.
ReadDeclineConfirmed(w, t) ==
  /\ RowExists(t)
  /\ Start(w, [Req("decline", tenancyProperty[t]) EXCEPT !.id = t])

ReadDecline(w, t) ==
  /\ RowExists(t)
  /\ ~confirmed[t]
  /\ Start(w, [Req("decline", tenancyProperty[t]) EXCEPT !.id = t])

WriteDecline(w) ==
  /\ Running(w, "decline")
  /\ RowExists(inflight[w].id)
  /\ tenancy' = [tenancy EXCEPT ![inflight[w].id] = "declined"]
  /\ confirmed' = [confirmed EXCEPT ![inflight[w].id] = FALSE]
  /\ Finish(w)
  /\ UNCHANGED <<accounts, listingVars, leaseVars, tenancyProperty, tenancyTenant>>

-----------------------------------------------------------------------------
ListingStep(w) ==
  \/ \E p \in Properties : ReadPublish(w, p)
  \/ WritePublish(w)
  \/ \E p \in Properties : ReadToggle(w, p)
  \/ WriteToggle(w)
  \/ \E p \in Properties, u \in Users : ReadMark(w, p, u)
  \/ \E m \in Marks : WriteMark(w, m)
  \/ \E p \in Properties : ReadVacate(w, p)
  \/ WriteVacate(w)
  \/ \E p \in Properties : ReadDelete(w, p)
  \/ WriteDelete(w)

ModerationStep(w) ==
  \/ \E p \in Properties, s \in Status : ReadSetStatus(w, p, s)
  \/ WriteSetStatus(w)
  \/ \E p \in Properties : ReadVerify(w, p)
  \/ WriteVerify(w)

LeaseStep(w) ==
  \/ \E l \in Leases : ReadSign(w, l)
  \/ WriteSign(w)
  \/ \E l \in Leases : ReadReject(w, l)
  \/ WriteReject(w)
  \/ \E l \in Leases : ReadTerminate(w, l)
  \/ WriteTerminate(w)

DeclineStep(w) ==
  \/ \E t \in Tenancies : ReadDecline(w, t)
  \/ WriteDecline(w)

SingleStatement ==
  \/ \E p \in Properties : CreateProperty(p)
  \/ \E p \in Properties : UpdateProperty(p)
  \/ \E p \in Properties : SuspendReported(p)
  \/ \E u \in Users : BlockOwner(u)
  \/ \E u \in Users : DeleteAccount(u)
  \/ \E l \in Leases, p \in Properties, u \in Users : CreateLease(l, p, u)
  \/ \E t \in Tenancies : ConfirmTenancy(t)

Next ==
  \/ SingleStatement
  \/ \E w \in Workers :
       ListingStep(w) \/ ModerationStep(w) \/ LeaseStep(w) \/ DeclineStep(w) \/ Abandon(w)

Spec == Init /\ [][Next]_vars
-----------------------------------------------------------------------------
(* Properties                                                               *)

\* Every column holds a value of its type.
TypeOK ==
  /\ accounts \subseteq Users
  /\ status \in [Properties -> Status]
  /\ publishedAt \in [Properties -> 0..MaxStamps]
  /\ moderation \in [Properties -> Moderation]
  /\ currentTenant \in [Properties -> Users \cup {Null}]
  /\ leaseStatus \in [Leases -> LeaseStatus]
  /\ leaseProperty \in [Leases -> Properties \cup {Null}]
  /\ leaseTenant \in [Leases -> Users \cup {Null}]
  /\ signed \in [Leases -> BOOLEAN]
  /\ tenancy \in [Tenancies -> TenancyState]
  /\ tenancyProperty \in [Tenancies -> Properties \cup {Null}]
  /\ tenancyTenant \in [Tenancies -> Users \cup {Null}]
  /\ confirmed \in [Tenancies -> BOOLEAN]
  /\ inflight \in [Workers -> Request \cup {Null}]

\* Tenancy t is the record of whoever p shows as its current tenant: it is
\* ongoing, or it was deleted on purpose by its tenant, who declined it or
\* deleted the account it names.
RecordsOccupant(t, p) ==
  /\ tenancyProperty[t] = p
  /\ \/ tenancy[t] \in {"open", "declined"} /\ tenancyTenant[t] = currentTenant[p]
     \/ /\ tenancy[t] \in {"declined", "erased"}
        /\ currentTenant[p] = Null
        /\ tenancyTenant[t] \notin accounts

\* An OCCUPIED listing always has such a record.  (markTenant, signLease,
\* vacateProperty and terminateLease keep the two in step inside their
\* transactions, and every other write of a status must leave OCCUPIED alone.)
OccupancyRecorded ==
  \A p \in Properties : status[p] = "OCCUPIED" =>
    \E t \in Tenancies : RecordsOccupant(t, p)

\* A lease that was ever signed keeps a confirmed tenancy record of the same
\* home and tenant, for as long as the lease row itself exists: no race of
\* sign, reject, terminate, vacate, confirm and decline loses it.
SignedLeaseRecorded ==
  \A l \in Leases : signed[l] =>
    /\ RowExists(l)
    /\ confirmed[l]
    /\ tenancyProperty[l] = leaseProperty[l]
    /\ tenancyTenant[l] = leaseTenant[l]

\* The record of a terminated lease has ended, however terminate, vacate and a
\* second signature overlapped.
TerminatedLeaseEnded ==
  \A l \in Leases : leaseStatus[l] = "TERMINATED" => tenancy[l] = "ended"

\* The tables implement the book of tenancies, whatever requests overlap, are late or
\* die: an existing row is a page that is written, a deleted one is struck.
PageOf(t) ==
  IF RowExists(t)
    THEN [state |-> IF tenancy[t] = "open" THEN "open" ELSE "past",
          home |-> tenancyProperty[t], tenant |-> tenancyTenant[t], agreed |-> confirmed[t]]
    ELSE [state |-> IF tenancy[t] = "none" THEN "blank" ELSE "struck",
          home |-> Null, tenant |-> Null, agreed |-> FALSE]

Book == INSTANCE TenancyBook WITH
  book <- [t \in Tenancies |-> PageOf(t)],
  inForce <- {l \in Leases : leaseStatus[l] = "ACTIVE"}

BookSpec == Book!Spec

\* No late signature revives a terminated lease (the unique leaseId of its
\* tenancy makes the stale transaction roll back).
TerminatedIsFinal ==
  [][\A l \in Leases : leaseStatus[l] = "TERMINATED" => leaseStatus'[l] # "ACTIVE"]_vars

\* While its owner has an account, a listing is never deleted under a signed
\* lease nor while it is suspended.
DeletionKeepsEvidence ==
  [][\A p \in Properties :
       Exists(p) /\ status'[p] = "gone" /\ OwnerOf[p] \in accounts' =>
         /\ status[p] # "SUSPENDED"
         /\ \A l \in Leases : ~(leaseProperty[l] = p /\ leaseStatus[l] = "ACTIVE")]_vars

\* A listing that is live, or was, has been approved: approval stamps
\* publishedAt.
LiveWasApproved ==
  \A p \in Properties : status[p] \in {"ACTIVE", "INACTIVE"} => publishedAt[p] # 0
=============================================================================
